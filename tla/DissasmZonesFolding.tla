------------------------ MODULE DissasmZonesFolding ------------------------
(***************************************************************************)
(* Lemmas about DissasmZones, for a listing of any length: what the tree   *)
(* of zones is when it is right (AnyOK, Leaf, Parent, Laid, Spanned, by    *)
(* the listing line Origins(ranges) has behind each line of the view),     *)
(* that collapsing, expanding and commenting keep it so, and that          *)
(* expanding undoes collapsing.  DissasmZonesProofs has the rest of the    *)
(* operations, the inductive invariant and the theorems.                   *)
(***************************************************************************)
EXTENDS DissasmZones, FiniteSetTheorems, SequenceTheorems, WellFoundedInduction, TLAPS

-----------------------------------------------------------------------------
(* Numbers.                                                                *)

(* A set of numbers that is not empty has a least one.                     *)
LEMMA LeastExists ==
    ASSUME NEW S, S \subseteq Nat, S # {}
    PROVE  \E x \in S : \A y \in S : x <= y
<1>1. PICK x \in S : \A y \in S : ~ (<<y, x>> \in OpToRel(<, Nat))
    BY NatLessThanWellFounded, WFMin
<1>2. \A y \in S : x <= y
    <2> TAKE y \in S
    <2>1. y \in Nat /\ x \in Nat /\ <<y, x>> \in Nat \X Nat
        OBVIOUS
    <2>2. <<y, x>> \notin {ss \in Nat \X Nat : ss[1] < ss[2]}
        BY <1>1 DEF OpToRel
    <2>3. ~(y < x)
        BY <2>1, <2>2
    <2> QED BY <2>1, <2>3
<1> QED BY <1>2

(* Induction up to n, for a set: it holds 0 and goes on from each number.  *)
LEMMA UpTo ==
    ASSUME NEW n \in Nat, NEW B, 0 \in B,
           \A i \in 1 .. n : i - 1 \in B => i \in B
    PROVE  0 .. n \subseteq B
<1> DEFINE Bad == {i \in 0 .. n : i \notin B}
<1>1. SUFFICES ASSUME Bad # {}
               PROVE  FALSE
    OBVIOUS
<1>2. PICK m \in Bad : \A k \in Bad : m <= k
    <2>1. Bad \subseteq Nat
        OBVIOUS
    <2> HIDE DEF Bad
    <2> QED BY <1>1, <2>1, LeastExists
<1>3. m \in 1 .. n
    OBVIOUS
<1>4. m - 1 \in 0 .. n /\ m - 1 \notin Bad
    BY <1>2, <1>3
<1> QED BY <1>3, <1>4

(* Line numbers.                                                           *)

\* The line numbers: Wrap stands for 2^32.
Words == 0 .. Wrap - 1

\* The listing has an end, and lines are counted beyond it.
LEMMA EndIs == End \in Nat /\ End > 0 /\ Wrap = 4 * End /\ Wrap \in Nat /\ Labels \subseteq 0 .. End - 1
BY ListingAssumption DEF Wrap

\* Adding to a line number wraps at most once.
LEMMA PlusIs ==
    ASSUME NEW a \in Int, NEW d \in Int, -Wrap <= a + d, a + d < 2 * Wrap
    PROVE  /\ Plus(a, d) \in Words
           /\ a + d < 0 => Plus(a, d) = a + d + Wrap
           /\ 0 <= a + d /\ a + d < Wrap => Plus(a, d) = a + d
           /\ Wrap <= a + d => Plus(a, d) = a + d - Wrap
<1> DEFINE x == a + d
           q == x \div Wrap
           r == x % Wrap
<1>1. Wrap \in Nat /\ Wrap > 0
    BY EndIs
<1>2. x \in Int /\ q \in Int /\ r \in 0 .. Wrap - 1 /\ x = Wrap * q + r
    BY <1>1
<1> HIDE DEF x, q, r
<1>3. CASE q < -1
    <2>1. Wrap * q <= Wrap * (-2)
        BY <1>1, <1>2, <1>3
    <2> QED BY <2>1, <1>1, <1>2 DEF x
<1>4. CASE q > 1
    <2>1. Wrap * q >= Wrap * 2
        BY <1>1, <1>2, <1>4
    <2> QED BY <2>1, <1>1, <1>2 DEF x
<1>5. CASE q = -1
    <2>1. x = r - Wrap
        BY <1>1, <1>2, <1>5
    <2> QED BY <2>1, <1>1, <1>2 DEF x, r, Plus, Words
<1>6. CASE q = 0
    <2>1. x = r
        BY <1>1, <1>2, <1>6
    <2> QED BY <2>1, <1>1, <1>2 DEF x, r, Plus, Words
<1>7. CASE q = 1
    <2>1. x = r + Wrap
        BY <1>1, <1>2, <1>7
    <2> QED BY <2>1, <1>1, <1>2 DEF x, r, Plus, Words
<1> QED BY <1>2, <1>3, <1>4, <1>5, <1>6, <1>7

(* Maps from line numbers that are moved by a number of lines.             *)

\* Adding is undone by subtracting.
LEMMA PlusOneToOne ==
    ASSUME NEW i \in Words, NEW j \in Words, NEW d \in -Wrap .. Wrap
    PROVE  /\ Plus(i, d) = Plus(j, d) => i = j
           /\ Plus(i, d) \in Words
           /\ Plus(Plus(i, d), -d) = i
<1>1. Wrap \in Nat /\ Wrap > 0
    BY EndIs
<1>2. i \in Int /\ j \in Int /\ d \in Int /\ -Wrap <= i + d /\ i + d < 2 * Wrap
      /\ -Wrap <= j + d /\ j + d < 2 * Wrap /\ -d \in Int
    BY <1>1 DEF Words
<1>3. /\ Plus(i, d) \in Words
      /\ i + d < 0 => Plus(i, d) = i + d + Wrap
      /\ 0 <= i + d /\ i + d < Wrap => Plus(i, d) = i + d
      /\ Wrap <= i + d => Plus(i, d) = i + d - Wrap
    BY <1>2, PlusIs
<1>4. /\ Plus(j, d) \in Words
      /\ j + d < 0 => Plus(j, d) = j + d + Wrap
      /\ 0 <= j + d /\ j + d < Wrap => Plus(j, d) = j + d
      /\ Wrap <= j + d => Plus(j, d) = j + d - Wrap
    BY <1>2, PlusIs
<1>5. Plus(i, d) = Plus(j, d) => i = j
    BY <1>1, <1>2, <1>3, <1>4 DEF Words
<1> DEFINE k == Plus(i, d)
<1>6. k \in Int /\ -Wrap <= k + (-d) /\ k + (-d) < 2 * Wrap
    BY <1>1, <1>2, <1>3 DEF Words
<1>7. /\ Plus(k, -d) \in Words
      /\ k + (-d) < 0 => Plus(k, -d) = k + (-d) + Wrap
      /\ 0 <= k + (-d) /\ k + (-d) < Wrap => Plus(k, -d) = k + (-d)
      /\ Wrap <= k + (-d) => Plus(k, -d) = k + (-d) - Wrap
    BY <1>2, <1>6, PlusIs
<1>8. Plus(k, -d) = i
    BY <1>1, <1>2, <1>3, <1>6, <1>7 DEF Words
<1> QED BY <1>3, <1>5, <1>8

Maps(X) == UNION {[D -> X] : D \in SUBSET Words}

\* A map from line numbers is known by its domain and its values.
LEMMA MapIs ==
    ASSUME NEW X, NEW f
    PROVE  f \in Maps(X) <=>
              /\ DOMAIN f \subseteq Words /\ f = [k \in DOMAIN f |-> f[k]]
              /\ \A k \in DOMAIN f : f[k] \in X
<1>1. ASSUME f \in Maps(X)
      PROVE  /\ DOMAIN f \subseteq Words /\ f = [k \in DOMAIN f |-> f[k]]
             /\ \A k \in DOMAIN f : f[k] \in X
    <2> PICK D \in SUBSET Words : f \in [D -> X]
        BY <1>1 DEF Maps
    <2> QED OBVIOUS
<1>2. ASSUME DOMAIN f \subseteq Words, f = [k \in DOMAIN f |-> f[k]],
             \A k \in DOMAIN f : f[k] \in X
      PROVE  f \in Maps(X)
    <2>1. f \in [DOMAIN f -> X]
        BY <1>2
    <2> QED BY <1>2, <2>1 DEF Maps
<1> QED BY <1>1, <1>2

LEMMA SameMap ==
    ASSUME NEW X, NEW f \in Maps(X), NEW g \in Maps(X), DOMAIN f = DOMAIN g,
           \A k \in DOMAIN f : f[k] = g[k]
    PROVE  f = g
<1>1. f = [k \in DOMAIN f |-> f[k]] /\ g = [k \in DOMAIN g |-> g[k]]
    BY MapIs
<1> QED BY <1>1

\* Shift moves every key and keeps its value.
LEMMA ShiftIs ==
    ASSUME NEW X, NEW f \in Maps(X), NEW d \in -Wrap .. Wrap
    PROVE  /\ Shift(f, d) \in Maps(X)
           /\ \A j \in Words : Plus(j, d) \in DOMAIN Shift(f, d) <=> j \in DOMAIN f
           /\ \A j \in DOMAIN f : Shift(f, d)[Plus(j, d)] = f[j]
<1> DEFINE g == Shift(f, d)
           D == {Plus(j, d) : j \in DOMAIN f}
<1>1. DOMAIN f \subseteq Words /\ \A k \in DOMAIN f : f[k] \in X
    BY MapIs
<1>2. g = [k \in D |-> f[CHOOSE j \in DOMAIN f : Plus(j, d) = k]]
    BY DEF Shift
<1>3. \A j \in DOMAIN f : (CHOOSE i \in DOMAIN f : Plus(i, d) = Plus(j, d)) = j
    <2> TAKE j \in DOMAIN f
    <2> DEFINE c == CHOOSE i \in DOMAIN f : Plus(i, d) = Plus(j, d)
    <2>1. c \in DOMAIN f /\ Plus(c, d) = Plus(j, d)
        OBVIOUS
    <2> HIDE DEF c
    <2>2. c = j
        BY <1>1, <2>1, PlusOneToOne
    <2> QED BY <2>2 DEF c
<1>4. D \subseteq Words
    BY <1>1, PlusOneToOne
<1>5. \A j \in DOMAIN f : Plus(j, d) \in D /\ g[Plus(j, d)] = f[j]
    BY <1>2, <1>3
<1>6. \A j \in Words : Plus(j, d) \in D => j \in DOMAIN f
    BY <1>1, PlusOneToOne
<1>7. DOMAIN g = D
    BY <1>2
<1>8. \A k \in D : g[k] \in X
    <2> TAKE k \in D
    <2> PICK j \in DOMAIN f : k = Plus(j, d)
        OBVIOUS
    <2> QED BY <1>1, <1>5
<1>9. g = [k \in D |-> g[k]]
    BY <1>2
<1> HIDE DEF g, D
<1>10. g \in Maps(X)
    BY <1>4, <1>7, <1>8, <1>9, MapIs
<1> QED BY <1>5, <1>6, <1>7, <1>10 DEF g

\* Shifting back gives the map back.
LEMMA ShiftBack ==
    ASSUME NEW X, NEW f \in Maps(X), NEW d \in -Wrap .. Wrap
    PROVE  Shift(Shift(f, d), -d) = f
<1> DEFINE g == Shift(f, d)
           h == Shift(g, -d)
<1>0. -d \in -Wrap .. Wrap
    BY EndIs
<1>1. g \in Maps(X) /\ (\A j \in Words : Plus(j, d) \in DOMAIN g <=> j \in DOMAIN f)
      /\ (\A j \in DOMAIN f : g[Plus(j, d)] = f[j])
    BY ShiftIs
<1>2. DOMAIN f \subseteq Words /\ DOMAIN g \subseteq Words
    BY <1>1, MapIs
<1> HIDE DEF g
<1>3. h \in Maps(X) /\ (\A j \in Words : Plus(j, -d) \in DOMAIN h <=> j \in DOMAIN g)
      /\ (\A j \in DOMAIN g : h[Plus(j, -d)] = g[j])
    BY <1>0, <1>1, ShiftIs
<1> HIDE DEF h
<1>4. \A i \in Words : Plus(i, d) \in Words /\ Plus(Plus(i, d), -d) = i
    BY PlusOneToOne
<1>5. \A i \in Words : i \in DOMAIN h <=> i \in DOMAIN f
    BY <1>1, <1>3, <1>4
<1>6. DOMAIN h \subseteq Words
    BY <1>3, MapIs
<1>7. \A i \in DOMAIN f : h[i] = f[i]
    BY <1>1, <1>2, <1>3, <1>4
<1>8. h = f
    BY <1>2, <1>3, <1>5, <1>6, <1>7, SameMap
<1> QED BY <1>8 DEF h, g

LEMMA BetweenIs ==
    ASSUME NEW X, NEW f \in Maps(X), NEW low \in Int, NEW high \in Int
    PROVE  /\ Between(f, low, high) \in Maps(X)
           /\ \A k \in Words : k \in DOMAIN Between(f, low, high) <=> k \in DOMAIN f /\ low <= k /\ k < high
           /\ \A k \in DOMAIN Between(f, low, high) : Between(f, low, high)[k] = f[k]
<1> DEFINE D == {k \in DOMAIN f : low <= k /\ k < high}
           g == Between(f, low, high)
<1>1. g = [k \in D |-> f[k]]
    BY DEF Between, RestrictDomain, Restrict
<1>2. DOMAIN f \subseteq Words /\ \A k \in DOMAIN f : f[k] \in X
    BY MapIs
<1>3. DOMAIN g = D /\ (\A k \in D : g[k] = f[k]) /\ g = [k \in DOMAIN g |-> g[k]]
    BY <1>1
<1> HIDE DEF g
<1>4. g \in Maps(X)
    BY <1>2, <1>3, MapIs
<1> QED BY <1>3, <1>4 DEF g

LEMMA OverIs ==
    ASSUME NEW X, NEW f \in Maps(X), NEW g \in Maps(X)
    PROVE  /\ Over(f, g) \in Maps(X)
           /\ DOMAIN Over(f, g) = DOMAIN f \cup DOMAIN g
           /\ \A k \in DOMAIN f \cup DOMAIN g : Over(f, g)[k] = IF k \in DOMAIN f THEN f[k] ELSE g[k]
<1> DEFINE h == Over(f, g)
<1>1. h = [k \in DOMAIN f \cup DOMAIN g |-> IF k \in DOMAIN f THEN f[k] ELSE g[k]]
    BY DEF Over
<1>2. /\ DOMAIN f \subseteq Words /\ \A k \in DOMAIN f : f[k] \in X
      /\ DOMAIN g \subseteq Words /\ \A k \in DOMAIN g : g[k] \in X
    BY MapIs
<1>3. DOMAIN h = DOMAIN f \cup DOMAIN g /\ h = [k \in DOMAIN h |-> h[k]]
    BY <1>1
<1>4. \A k \in DOMAIN h : h[k] = IF k \in DOMAIN f THEN f[k] ELSE g[k]
    BY <1>1
<1> HIDE DEF h
<1>5. h \in Maps(X)
    BY <1>2, <1>3, <1>4, MapIs
<1> QED BY <1>3, <1>4, <1>5 DEF h

LEMMA PutIs ==
    ASSUME NEW X, NEW f \in Maps(X), NEW key \in Words, NEW value \in X
    PROVE  /\ Put(f, key, value) \in Maps(X)
           /\ DOMAIN Put(f, key, value) = DOMAIN f \cup {key}
           /\ \A k \in DOMAIN f \cup {key} : Put(f, key, value)[k] = IF k = key THEN value ELSE f[k]
<1> DEFINE h == Put(f, key, value)
<1>1. h = [k \in DOMAIN f \cup {key} |-> IF k = key THEN value ELSE f[k]]
    BY DEF Put
<1>2. DOMAIN f \subseteq Words /\ \A k \in DOMAIN f : f[k] \in X
    BY MapIs
<1>3. DOMAIN h = DOMAIN f \cup {key} /\ h = [k \in DOMAIN h |-> h[k]]
    BY <1>1
<1>4. \A k \in DOMAIN h : h[k] = IF k = key THEN value ELSE f[k]
    BY <1>1
<1> HIDE DEF h
<1>5. h \in Maps(X)
    BY <1>2, <1>3, <1>4, MapIs
<1> QED BY <1>3, <1>4, <1>5 DEF h

-----------------------------------------------------------------------------
(* The listing lines in sight, and the one at a line of the view.          *)

\* The listing lines in sight with ranges R, how many of S lie before a line, the line of S
\* with n before it, and the listing line behind every line of the view.
Seen(R) == {l \in 0 .. End - 1 : ~ \E r \in R : r.folded /\ r.from < l /\ l < r.to}
Rank(S, l) == Cardinality({m \in S : m < l})
Nth(S, n) ==
    LET there == {l \in S : Rank(S, l) = n}
    IN  IF there = {} THEN End ELSE CHOOSE l \in there : TRUE
Origins(R) == [n \in 0 .. Wrap |-> Nth(Seen(R), n)]

Sights == SUBSET (0 .. End - 1)

\* Ranks are numbers, and go on with every line in sight.
LEMMA RankFinite ==
    ASSUME NEW S \in Sights, NEW l \in Nat
    PROVE  /\ IsFiniteSet({m \in S : m < l})
           /\ Rank(S, l) \in Nat /\ Rank(S, l) <= l
<1> DEFINE T == {m \in S : m < l}
<1>1. IsFiniteSet(0 .. l - 1) /\ Cardinality(0 .. l - 1) = l
    <2>1. 0 \in Int /\ l - 1 \in Int
        OBVIOUS
    <2>2. IsFiniteSet(0 .. l - 1) /\ Cardinality(0 .. l - 1) = IF 0 > l - 1 THEN 0 ELSE l - 1 - 0 + 1
        BY <2>1, FS_Interval
    <2> QED BY <2>2
<1>2. T \in SUBSET (0 .. l - 1)
    <2>1. \A m \in S : m \in Nat
        BY EndIs DEF Sights
    <2>2. \A m \in T : m \in Nat /\ m < l
        BY <2>1
    <2> QED BY <2>2
<1> HIDE DEF T
<1>3. IsFiniteSet(T) /\ Cardinality(T) <= Cardinality(0 .. l - 1)
    BY <1>1, <1>2, FS_Subset
<1>4. Cardinality(T) \in Nat
    BY <1>3, FS_CardinalityType
<1> QED BY <1>1, <1>3, <1>4 DEF T, Rank

LEMMA RankNext ==
    ASSUME NEW S \in Sights, NEW l \in Nat
    PROVE  Rank(S, l + 1) = Rank(S, l) + IF l \in S THEN 1 ELSE 0
<1> DEFINE T == {m \in S : m < l}
           U == {m \in S : m < l + 1}
<1>0. \A m \in S : m \in Nat
    BY EndIs DEF Sights
<1>1. IsFiniteSet(T) /\ Cardinality(T) \in Nat /\ l \notin T
    BY RankFinite DEF Rank
<1>2. CASE l \in S
    <2>1. U = T \cup {l}
        <3>1. \A m \in S : m < l + 1 <=> m < l \/ m = l
            BY <1>0
        <3> QED BY <1>2, <3>1
    <2> HIDE DEF T, U
    <2>2. Cardinality(U) = Cardinality(T) + 1
        BY <1>1, <2>1, FS_AddElement
    <2> QED BY <1>2, <2>2 DEF Rank, T, U
<1>3. CASE l \notin S
    <2>1. U = T
        BY <1>0, <1>3
    <2> QED BY <1>1, <1>3, <2>1 DEF Rank
<1> QED BY <1>2, <1>3

LEMMA RankGrows ==
    ASSUME NEW S \in Sights, NEW l \in Nat, NEW n \in Nat, l <= n
    PROVE  /\ Rank(S, l) <= Rank(S, n)
           /\ l \in S /\ l < n => Rank(S, l) < Rank(S, n)
<1> DEFINE B == {i \in Nat : Rank(S, l) + (IF l \in S /\ i > 0 THEN 1 ELSE 0) <= Rank(S, l + i)}
<1>0. \A i \in Nat : Rank(S, i) \in Nat
    BY RankFinite
<1>1. 0 \in B
    <2>1. l + 0 = l /\ Rank(S, l) \in Nat
        BY <1>0
    <2> QED BY <2>1
<1>2. ASSUME NEW i \in 1 .. (n - l), i - 1 \in B
      PROVE  i \in B
    <2>1. Rank(S, (l + i - 1) + 1) = Rank(S, l + i - 1) + IF l + i - 1 \in S THEN 1 ELSE 0
        <3>1. l + i - 1 \in Nat
            OBVIOUS
        <3> QED BY <3>1, RankNext
    <2>2. (l + i - 1) + 1 = l + i /\ l + (i - 1) = l + i - 1
        OBVIOUS
    <2>3. Rank(S, l + i - 1) \in Nat /\ Rank(S, l) \in Nat /\ Rank(S, l + i) \in Nat
        BY <1>0
    <2>4. Rank(S, l) + (IF l \in S /\ i - 1 > 0 THEN 1 ELSE 0) <= Rank(S, l + i - 1)
        BY <1>2, <2>2
    <2>5. i = 1 => l + i - 1 = l
        OBVIOUS
    <2> QED BY <2>1, <2>2, <2>3, <2>4, <2>5
<1>3. 0 .. (n - l) \subseteq B
    <2>1. n - l \in Nat
        OBVIOUS
    <2> HIDE DEF B
    <2> QED BY <1>1, <1>2, <2>1, UpTo
<1>4. n - l \in B /\ l + (n - l) = n
    <2>1. n - l \in 0 .. (n - l) /\ l + (n - l) = n
        OBVIOUS
    <2> HIDE DEF B
    <2> QED BY <1>3, <2>1
<1>5. Rank(S, l) \in Nat /\ Rank(S, n) \in Nat
    BY <1>0
<1>6. Rank(S, l) + (IF l \in S /\ n - l > 0 THEN 1 ELSE 0) <= Rank(S, n)
    BY <1>4
<1> QED BY <1>5, <1>6

(* Every number below a rank is the rank of a line in sight.               *)
LEMMA RankHit ==
    ASSUME NEW S \in Sights, NEW n \in Nat, NEW x \in Nat, x < Rank(S, n)
    PROVE  \E l \in S : l < n /\ Rank(S, l) = x
<1> DEFINE Above == {i \in Nat : x < Rank(S, i + 1)}
<1>0. \A i \in Nat : Rank(S, i) \in Nat /\ Rank(S, i) <= i
    BY RankFinite
<1>1. n > 0 /\ n - 1 \in Nat /\ (n - 1) + 1 = n
    BY <1>0
<1>2. n - 1 \in Above
    BY <1>1
<1>3. PICK l \in Above : \A i \in Above : l <= i
    <2>1. Above \subseteq Nat /\ Above # {}
        BY <1>2
    <2> HIDE DEF Above
    <2> QED BY <2>1, LeastExists
<1>4. Rank(S, l) <= x
    <2>1. CASE l = 0
        BY <2>1, <1>0
    <2>2. CASE l # 0
        <3>1. l - 1 \in Nat /\ (l - 1) + 1 = l /\ l - 1 \notin Above
            BY <2>2, <1>3
        <3>2. Rank(S, l) \in Nat
            BY <1>0
        <3> QED BY <3>1, <3>2
    <2> QED BY <2>1, <2>2
<1>5. Rank(S, l + 1) = Rank(S, l) + (IF l \in S THEN 1 ELSE 0) /\ Rank(S, l) \in Nat
    BY RankNext, <1>0
<1>6. l \in S /\ Rank(S, l) = x
    BY <1>4, <1>5
<1>7. l <= n - 1
    BY <1>2, <1>3
<1> QED BY <1>1, <1>6, <1>7

\* The line with n before it is in S, and the only one.
LEMMA NthIs ==
    ASSUME NEW S \in Sights, NEW n \in Nat
    PROVE  /\ Nth(S, n) \in 0 .. End
           /\ Nth(S, n) < End => Nth(S, n) \in S /\ Rank(S, Nth(S, n)) = n
           /\ \A l \in S : Rank(S, l) = n => Nth(S, n) = l
<1> DEFINE there == {l \in S : Rank(S, l) = n}
<1>0. \A l \in S : l \in Nat /\ l < End
    BY EndIs DEF Sights
<1>1. \A l, m \in there : l = m
    <2> SUFFICES ASSUME NEW l \in S, NEW m \in S, Rank(S, l) = n, Rank(S, m) = n, l < m
                 PROVE  FALSE
        BY <1>0
    <2> QED BY <1>0, RankGrows
<1>2. CASE there = {}
    <2>1. Nth(S, n) = End
        BY <1>2 DEF Nth
    <2> QED BY <2>1, <1>2, EndIs
<1>3. CASE there # {}
    <2>1. Nth(S, n) = CHOOSE l \in there : TRUE
        BY <1>3 DEF Nth
    <2>2. Nth(S, n) \in there
        BY <1>3, <2>1
    <2> QED BY <1>0, <1>1, <2>2, EndIs
<1> QED BY <1>2, <1>3

-----------------------------------------------------------------------------
(* The lines of the view in their order.                                   *)

\* What every listing behind a view is like: it begins at the first line, is never behind the
\* view and goes on until the end.
Orderly(o) ==
    /\ o \in [0 .. Wrap -> 0 .. End]
    /\ o[0] = 0
    /\ \A x, y \in 0 .. Wrap : x < y => o[x] < o[y] \/ o[y] = End
    /\ \A x \in 0 .. Wrap : x <= o[x] \/ o[x] = End

Folds(R) == \A r \in R : r.from \in Nat

LEMMA SeenIs ==
    ASSUME NEW R, Folds(R)
    PROVE  Seen(R) \in Sights /\ 0 \in Seen(R)
<1>1. 0 \in 0 .. End - 1
    BY EndIs
<1>2. \A r \in R : ~(r.from < 0)
    BY DEF Folds
<1> QED BY <1>1, <1>2 DEF Seen, Sights

\* The origins are orderly and in sight.
LEMMA OriginsOrderly ==
    ASSUME NEW R, Folds(R)
    PROVE  /\ Orderly(Origins(R))
           /\ \A x \in 0 .. Wrap : Origins(R)[x] < End => Origins(R)[x] \in Seen(R)
<1> DEFINE S == Seen(R)
           o == Origins(R)
<1>1. S \in Sights /\ 0 \in S /\ \A l \in S : l \in Nat /\ l < End
    BY SeenIs, EndIs DEF Sights
<1>2. \A x \in 0 .. Wrap : o[x] = Nth(S, x) /\ x \in Nat
    BY EndIs DEF Origins
<1>w. DOMAIN o = 0 .. Wrap /\ o = [x \in 0 .. Wrap |-> o[x]]
    BY DEF Origins
<1> HIDE DEF S, o
<1>3. \A x \in 0 .. Wrap : /\ o[x] \in 0 .. End
                           /\ o[x] < End => o[x] \in S /\ Rank(S, o[x]) = x
                           /\ \A l \in S : Rank(S, l) = x => o[x] = l
    BY <1>1, <1>2, NthIs
<1>4. o[0] = 0
    <2>1. Rank(S, 0) \in Nat /\ Rank(S, 0) <= 0
        BY <1>1, RankFinite
    <2>2. 0 \in 0 .. Wrap
        BY EndIs
    <2> QED BY <1>1, <1>3, <2>1, <2>2
<1>5. ASSUME NEW x \in 0 .. Wrap, NEW y \in 0 .. Wrap, x < y
      PROVE  o[x] < o[y] \/ o[y] = End
    <2> SUFFICES ASSUME o[y] # End
                 PROVE  o[x] < o[y]
        OBVIOUS
    <2>1. o[y] \in S /\ Rank(S, o[y]) = y /\ o[y] < End /\ o[y] \in Nat
        BY <1>3, EndIs
    <2>2. PICK l \in S : l < o[y] /\ Rank(S, l) = x
        <3>1. x \in Nat /\ x < Rank(S, o[y])
            BY <1>2, <1>5, <2>1
        <3> QED BY <1>1, <2>1, <3>1, RankHit
    <2> QED BY <1>3, <2>2
<1>6. ASSUME NEW x \in 0 .. Wrap
      PROVE  x <= o[x] \/ o[x] = End
    <2> SUFFICES ASSUME o[x] # End
                 PROVE  x <= o[x]
        OBVIOUS
    <2>1. o[x] \in S /\ Rank(S, o[x]) = x /\ o[x] \in Nat
        BY <1>1, <1>3, EndIs
    <2> QED BY <1>1, <2>1, RankFinite
<1>7. o \in [0 .. Wrap -> 0 .. End]
    BY <1>3, <1>w
<1>8. Orderly(o)
    BY <1>4, <1>5, <1>6, <1>7 DEF Orderly
<1> QED BY <1>3, <1>8 DEF S, o

(* Lines a + 1 up to b - 1 of the listing, all in sight, are folded away.  *)
Squeezed(o, q, p, c) ==
    \A x \in 0 .. Wrap :
        /\ x <= p => q[x] = o[x]
        /\ x > p /\ x + c <= Wrap => q[x] = o[x + c]
        /\ x > p /\ x + c > Wrap => q[x] = End

\* Folding a + 1 .. b - 1 away shortens the view by as many lines from there on.
LEMMA OriginsSqueezed ==
    ASSUME NEW R, NEW Q, Folds(R), Folds(Q), NEW a \in Nat, NEW b \in Nat, a < b, b <= End,
           \A l \in a .. b - 1 : l \in Seen(R),
           Seen(Q) = {l \in Seen(R) : ~(a < l /\ l < b)},
           NEW p \in 0 .. Wrap, Origins(R)[p] = a
    PROVE  Squeezed(Origins(R), Origins(Q), p, b - a - 1)
<1> DEFINE S == Seen(R)
           T == Seen(Q)
           o == Origins(R)
           q == Origins(Q)
           c == b - a - 1
<1>1. S \in Sights /\ T \in Sights /\ (\A l \in S : l \in Nat /\ l < End) /\ c \in Nat
    BY SeenIs, EndIs DEF Sights
<1>2. \A x \in 0 .. Wrap : o[x] = Nth(S, x) /\ q[x] = Nth(T, x) /\ x \in Nat
    BY EndIs DEF Origins
<1>e. End \in Nat /\ Wrap \in Nat /\ Wrap = 4 * End /\ End > 0
    BY EndIs
<1>s. (\A l \in a .. b - 1 : l \in S) /\ T = {l \in S : ~(a < l /\ l < b)} /\ o[p] = a
    OBVIOUS
<1> HIDE DEF S, T, o, q
<1>3. \A x \in 0 .. Wrap : /\ o[x] \in 0 .. End
                           /\ o[x] < End => o[x] \in S /\ Rank(S, o[x]) = x
                           /\ \A l \in S : Rank(S, l) = x => o[x] = l
    BY <1>1, <1>2, NthIs
<1>4. \A x \in 0 .. Wrap : /\ q[x] \in 0 .. End
                           /\ q[x] < End => q[x] \in T /\ Rank(T, q[x]) = x
                           /\ \A l \in T : Rank(T, l) = x => q[x] = l
    BY <1>1, <1>2, NthIs
<1>5. a \in S /\ Rank(S, a) = p /\ a \in T
    BY <1>3, <1>s, <1>e
<1>6. \A l \in Nat : l <= a + 1 => Rank(T, l) = Rank(S, l)
    <2> TAKE l \in Nat
    <2> HAVE l <= a + 1
    <2>1. {m \in T : m < l} = {m \in S : m < l}
        BY <1>1, <1>s
    <2> QED BY <2>1 DEF Rank
<1>7. \A l \in Nat : l >= b => Rank(T, l) + c = Rank(S, l)
    <2> TAKE l \in Nat
    <2> HAVE l >= b
    <2> DEFINE A == {m \in T : m < l}
               B == {m \in S : m < l}
               M == a + 1 .. b - 1
    <2>1. IsFiniteSet(A) /\ Cardinality(A) \in Nat
        BY <1>1, RankFinite DEF Rank
    <2>2. IsFiniteSet(M) /\ Cardinality(M) = c
        <3>1. a + 1 \in Int /\ b - 1 \in Int
            OBVIOUS
        <3>2. IsFiniteSet(M) /\ Cardinality(M) = IF a + 1 > b - 1 THEN 0 ELSE b - 1 - (a + 1) + 1
            BY <3>1, FS_Interval
        <3> QED BY <3>2
    <2>3. B = A \cup M
        BY <1>1, <1>s
    <2>4. A \cap M = {}
        BY <1>1, <1>s
    <2> HIDE DEF A, B, M, c
    <2>5. Cardinality(B) = Cardinality(A) + Cardinality(M) - Cardinality({})
        BY <2>1, <2>2, <2>3, <2>4, FS_Union
    <2>6. Cardinality({}) = 0
        BY FS_EmptySet
    <2> QED BY <1>1, <2>1, <2>2, <2>5, <2>6 DEF A, B, Rank
<1>0. \A l \in Nat : Rank(S, l) \in Nat /\ Rank(T, l) \in Nat
    BY <1>1, RankFinite
<1>8. \A l \in S : l <= a => l \in T
    BY <1>1, <1>s
<1>9. \A l \in S : l >= b => l \in T
    BY <1>1, <1>s
<1>10. \A l \in T : l \in S /\ l \in Nat /\ (l <= a \/ l >= b)
    BY <1>1, <1>s
<1>11. \A l \in S : Rank(S, l) <= p => l <= a
    <2> SUFFICES ASSUME NEW l \in S, Rank(S, l) <= p, a < l
                 PROVE  FALSE
        BY <1>1
    <2>1. Rank(S, a) < Rank(S, l)
        BY <1>1, <1>5, RankGrows
    <2> QED BY <1>0, <1>1, <1>5, <2>1
<1>12. \A l \in T : Rank(T, l) <= p => l <= a
    <2> SUFFICES ASSUME NEW l \in T, Rank(T, l) <= p, a < l
                 PROVE  FALSE
        BY <1>10
    <2>1. Rank(T, a) < Rank(T, l)
        BY <1>1, <1>5, <1>10, RankGrows
    <2>2. Rank(T, a) = p
        BY <1>5, <1>6
    <2> QED BY <1>0, <1>10, <2>1, <2>2
<1>13. Rank(S, b) = p + c + 1
    <2>1. a + 1 + c = b
        OBVIOUS
    <2>2. Rank(T, b) + c = Rank(S, b)
        BY <1>7
    <2>3. Rank(T, b) = Rank(T, a + 1)
        <3>1. {m \in T : m < b} = {m \in T : m < a + 1}
            BY <1>10
        <3> QED BY <3>1 DEF Rank
    <2>4. Rank(T, a + 1) = p + 1
        <3>1. Rank(T, a + 1) = Rank(T, a) + 1
            BY <1>1, <1>5, RankNext
        <3> QED BY <1>5, <1>6, <3>1
    <2> QED BY <2>2, <2>3, <2>4
<1>14. ASSUME NEW x \in 0 .. Wrap, x <= p
       PROVE  q[x] = o[x]
    <2>1. CASE o[x] < End
        <3>1. o[x] \in S /\ Rank(S, o[x]) = x
            BY <1>3, <2>1
        <3>2. o[x] <= a /\ o[x] \in T
            BY <1>8, <1>11, <1>14, <3>1
        <3>3. Rank(T, o[x]) = x
            BY <1>1, <1>6, <3>1, <3>2
        <3> QED BY <1>4, <3>2, <3>3
    <2>2. CASE o[x] = End
        <3>1. SUFFICES ASSUME q[x] # End
                       PROVE  FALSE
            BY <2>2
        <3>2. q[x] \in T /\ Rank(T, q[x]) = x
            BY <1>4, <1>e, <3>1
        <3>3. q[x] <= a /\ q[x] \in S
            BY <1>10, <1>12, <1>14, <3>2
        <3>4. Rank(S, q[x]) = x
            BY <1>1, <1>6, <3>2, <3>3
        <3> QED BY <1>1, <1>3, <2>2, <3>3, <3>4
    <2> QED BY <1>3, <2>1, <2>2, <1>e
<1>15. ASSUME NEW x \in 0 .. Wrap, x > p, q[x] # End
       PROVE  q[x] \in S /\ Rank(S, q[x]) = x + c /\ q[x] < End
    <2>1. q[x] \in T /\ Rank(T, q[x]) = x /\ q[x] \in Nat
        BY <1>4, <1>e, <1>15, SMTT(60)
    <2>2. q[x] >= b
        <3> SUFFICES ASSUME q[x] <= a
                     PROVE  FALSE
            BY <1>10, <2>1
        <3>1. Rank(S, q[x]) = x
            BY <1>6, <2>1
        <3>2. Rank(S, q[x]) <= Rank(S, a)
            BY <1>1, <2>1, RankGrows
        <3> QED BY <1>5, <1>15, <3>1, <3>2
    <2> QED BY <1>1, <1>7, <1>10, <2>1, <2>2
<1>16. ASSUME NEW x \in 0 .. Wrap, x > p, x + c <= Wrap
       PROVE  q[x] = o[x + c]
    <2>0. x + c \in 0 .. Wrap
        BY <1>1, <1>16
    <2>1. CASE o[x + c] < End
        <3>1. o[x + c] \in S /\ Rank(S, o[x + c]) = x + c /\ o[x + c] \in Nat
            BY <1>1, <1>3, <2>0, <2>1
        <3>2. o[x + c] >= b
            <4> SUFFICES ASSUME o[x + c] < b
                         PROVE  FALSE
                BY <3>1
            <4>1. Rank(S, o[x + c]) < Rank(S, b)
                BY <1>1, <3>1, RankGrows
            <4>2. x + c < p + c + 1
                BY <1>13, <3>1, <4>1
            <4> QED BY <1>1, <1>16, <4>2
        <3>3. o[x + c] \in T /\ Rank(T, o[x + c]) + c = x + c
            BY <1>7, <1>9, <3>1, <3>2
        <3>4. Rank(T, o[x + c]) = x
            BY <1>0, <1>1, <3>1, <3>3
        <3> QED BY <1>4, <3>3, <3>4
    <2>2. CASE o[x + c] = End
        <3>1. SUFFICES ASSUME q[x] # End
                       PROVE  FALSE
            BY <2>2
        <3>2. q[x] \in S /\ Rank(S, q[x]) = x + c /\ q[x] < End
            BY <1>15, <1>16, <3>1
        <3> QED BY <1>1, <1>3, <2>0, <2>2, <3>2
    <2> QED BY <1>3, <1>e, <2>0, <2>1, <2>2
<1>17. ASSUME NEW x \in 0 .. Wrap, x > p, x + c > Wrap
       PROVE  q[x] = End
    <2>1. SUFFICES ASSUME q[x] # End
                   PROVE  FALSE
        OBVIOUS
    <2>2. q[x] \in S /\ Rank(S, q[x]) = x + c /\ q[x] < End
        BY <1>15, <1>17, <2>1
    <2>3. x + c <= q[x]
        BY <1>1, <2>2, RankFinite
    <2> QED BY <1>1, <1>e, <1>17, <2>2, <2>3
<1>18. Squeezed(o, q, p, c)
    <2> HIDE DEF c
    <2> QED BY <1>14, <1>16, <1>17 DEF Squeezed
<1> QED BY <1>18 DEF o, q

-----------------------------------------------------------------------------
(* Zones side by side.                                                     *)

Coords == 0 .. Wrap
\* Zones by what may be inside them: leaves, and zones with leaves inside.
ZonesWith(Inner) ==
    [low : Coords, high : Coords, workLow : Coords, workHigh : Coords, named : BOOLEAN, asm : Words,
     labels : Maps(Labels), comments : Maps(Notes), collapsed : BOOLEAN, inner : Inner]
LeafType == ZonesWith({<<>>})
ZoneType == ZonesWith(Seq(LeafType))

LEMMA LeavesAreZones == LeafType \subseteq ZoneType
<1>1. <<>> \in Seq(LeafType)
    OBVIOUS
<1> QED BY <1>1 DEF LeafType, ZoneType, ZonesWith

\* Zones that touch, from low to high; and zones in order.
Chain(zs, low, high) ==
    /\ zs[1].low = low /\ zs[Len(zs)].high = high
    /\ \A i \in 1 .. Len(zs) - 1 : zs[i].high = zs[i + 1].low

Ordered(zs) ==
    /\ \A i \in 1 .. Len(zs) : zs[i].low <= zs[i].high
    /\ \A i, j \in 1 .. Len(zs) : i < j => zs[i].high <= zs[j].low

LEMMA ZoneIs ==
    ASSUME NEW zs \in Seq(ZoneType), NEW i \in 1 .. Len(zs)
    PROVE  /\ zs[i] \in ZoneType /\ zs[i].low \in Nat /\ zs[i].high \in Nat
           /\ zs[i].low <= Wrap /\ zs[i].high <= Wrap
<1>1. zs[i] \in ZoneType
    OBVIOUS
<1>2. zs[i].low \in Coords /\ zs[i].high \in Coords
    BY <1>1 DEF ZoneType, ZonesWith
<1> QED BY <1>1, <1>2, EndIs DEF Coords

\* A chain is in order.
LEMMA ChainOrdered ==
    ASSUME NEW zs \in Seq(ZoneType), NEW low, NEW high, Chain(zs, low, high),
           \A i \in 1 .. Len(zs) : zs[i].low <= zs[i].high
    PROVE  Ordered(zs)
<1>1. ASSUME NEW i \in 1 .. Len(zs), NEW j \in 1 .. Len(zs), i < j
      PROVE  zs[i].high <= zs[j].low
    <2> DEFINE n == j - i - 1
               B == {k \in Nat : k <= n => zs[i].high <= zs[i + 1 + k].low}
    <2>0. n \in Nat
        BY <1>1
    <2>1. 0 \in B
        <3>1. i \in 1 .. Len(zs) - 1 /\ i + 1 + 0 = i + 1 /\ i + 1 \in 1 .. Len(zs)
            BY <1>1
        <3>2. zs[i].high = zs[i + 1].low /\ zs[i].high \in Nat
            BY <3>1, ZoneIs DEF Chain
        <3> QED BY <3>1, <3>2
    <2>2. ASSUME NEW k \in 1 .. n, k - 1 \in B
          PROVE  k \in B
        <3>1. i + k \in 1 .. Len(zs) - 1 /\ i + 1 + (k - 1) = i + k /\ i + 1 + k = (i + k) + 1
              /\ i + k \in 1 .. Len(zs) /\ (i + k) + 1 \in 1 .. Len(zs) /\ k - 1 <= n
            BY <1>1
        <3>2. zs[i].high <= zs[i + k].low
            BY <2>2, <3>1
        <3>3. zs[i + k].low <= zs[i + k].high /\ zs[i + k].high = zs[(i + k) + 1].low
            BY <3>1 DEF Chain
        <3>4. zs[i].high \in Nat /\ zs[i + k].low \in Nat /\ zs[i + k].high \in Nat
            BY <3>1, ZoneIs
        <3>5. zs[i].high <= zs[i + 1 + k].low
            <4>1. i + 1 + k = (i + k) + 1
                OBVIOUS
            <4> DEFINE a == zs[i].high
                       b == zs[i + k].low
                       c == zs[i + k].high
                       d == zs[(i + k) + 1].low
            <4>2. a \in Nat /\ b \in Nat /\ c \in Nat /\ a <= b /\ b <= c /\ c = d
                BY <3>2, <3>3, <3>4
            <4>3. a <= d
                <5> HIDE DEF a, b, c, d
                <5> QED BY <4>2
            <4> QED BY <4>1, <4>3
        <3> QED BY <3>5
    <2>3. 0 .. n \subseteq B
        <3> HIDE DEF B, n
        <3> QED BY <2>0, <2>1, <2>2, UpTo
    <2>4. n \in B /\ i + 1 + n = j
        <3>1. n \in 0 .. n /\ i + 1 + n = j
            BY <2>0
        <3> HIDE DEF B, n
        <3> QED BY <2>3, <3>1
    <2>5. zs[i].high <= zs[i + 1 + n].low
        <3>1. n <= n
            BY <2>0
        <3> HIDE DEF n
        <3> QED BY <2>4, <3>1
    <2> QED BY <2>4, <2>5
<1> QED BY <1>1 DEF Ordered

(* The zone that holds a line.                                             *)

LEMMA OneHolds ==
    ASSUME NEW zs \in Seq(ZoneType), Ordered(zs), NEW i \in 1 .. Len(zs), NEW j \in 1 .. Len(zs),
           NEW line \in Nat, Within(zs[i], line)
    PROVE  /\ Within(zs[j], line) => i = j
           /\ j < i => zs[j].high <= line /\ zs[j].low <= line
           /\ i < j => line < zs[j].low
<1>1. zs[i].low \in Nat /\ zs[i].high \in Nat /\ zs[j].low \in Nat /\ zs[j].high \in Nat
    BY ZoneIs
<1>2. zs[i].low <= line /\ line < zs[i].high
    BY DEF Within
<1>3. j < i => zs[j].high <= zs[i].low /\ zs[j].low <= zs[j].high
    BY DEF Ordered
<1>4. i < j => zs[i].high <= zs[j].low
    BY DEF Ordered
<1> QED BY <1>1, <1>2, <1>3, <1>4 DEF Within

LEMMA AtIs ==
    ASSUME NEW zs \in Seq(ZoneType), Ordered(zs), NEW line \in Nat
    PROVE  /\ \A i \in 1 .. Len(zs) : Within(zs[i], line) => At(zs, line) = i
           /\ (\A i \in 1 .. Len(zs) : ~Within(zs[i], line)) => At(zs, line) = 0
           /\ At(zs, line) # 0 => At(zs, line) \in 1 .. Len(zs) /\ Within(zs[At(zs, line)], line)
<1> DEFINE I == {i \in 1 .. Len(zs) : Within(zs[i], line)}
<1>1. At(zs, line) = IF I # {} THEN Min(I) ELSE 0
    BY DEF At, SelectInSeq
<1>2. ASSUME NEW i \in 1 .. Len(zs), Within(zs[i], line)
      PROVE  At(zs, line) = i
    <2>1. I = {i}
        BY <1>2, OneHolds
    <2>2. Min(I) = i
        BY <2>1 DEF Min
    <2> HIDE DEF I
    <2> QED BY <1>1, <2>1, <2>2
<1>3. ASSUME \A i \in 1 .. Len(zs) : ~Within(zs[i], line)
      PROVE  At(zs, line) = 0
    <2>1. I = {}
        BY <1>3
    <2> HIDE DEF I
    <2> QED BY <1>1, <2>1
<1>4. ASSUME At(zs, line) # 0
      PROVE  At(zs, line) \in 1 .. Len(zs) /\ Within(zs[At(zs, line)], line)
    <2>1. PICK i \in 1 .. Len(zs) : Within(zs[i], line)
        BY <1>3, <1>4
    <2> QED BY <1>2, <2>1
<1> QED BY <1>2, <1>3, <1>4

\* A chain leaves no line out.
LEMMA SomeHolds ==
    ASSUME NEW zs \in Seq(ZoneType), NEW low \in Nat, NEW high \in Nat, zs # <<>>, Chain(zs, low, high),
           NEW line \in low .. high - 1
    PROVE  \E i \in 1 .. Len(zs) : Within(zs[i], line)
<1> DEFINE S == {i \in 1 .. Len(zs) : line < zs[i].high}
<1>0. Len(zs) \in 1 .. Len(zs) /\ 1 \in 1 .. Len(zs)
    OBVIOUS
<1>1. Len(zs) \in S
    BY <1>0 DEF Chain
<1>2. PICK i \in S : \A j \in S : i <= j
    <2>1. S \subseteq Nat /\ S # {}
        BY <1>1
    <2> HIDE DEF S
    <2> QED BY <2>1, LeastExists
<1>3. zs[i].low <= line
    <2>1. CASE i = 1
        BY <2>1 DEF Chain
    <2>2. CASE i # 1
        <3>1. i - 1 \in 1 .. Len(zs) - 1 /\ i - 1 \in 1 .. Len(zs) /\ (i - 1) + 1 = i
            BY <2>2
        <3>2. i - 1 \notin S
            BY <1>2, <3>1
        <3>3. ~(line < zs[i - 1].high) /\ zs[i - 1].high \in Nat /\ zs[i - 1].high = zs[i].low
            BY <3>1, <3>2, ZoneIs DEF Chain
        <3> QED BY <3>3
    <2> QED BY <2>1, <2>2
<1> QED BY <1>2, <1>3 DEF Within

-----------------------------------------------------------------------------
(* What folding makes of a list of zones: the zone that holds the line     *)
(* becomes y, and the zones behind it move.                                *)

Folded(zs, h, y, by) ==
    [i \in 1 .. Len(zs) |->
        IF i < h THEN zs[i] ELSE IF i = h THEN y ELSE IF by = 0 THEN zs[i] ELSE Moved(zs[i], by)]

Shrinks(z, collapse) == (IF collapse THEN -1 ELSE 1) * (z.workHigh - z.workLow - 1)

Longer(list, z) == Append(list, z)
Going(by, list) == [by |-> by, failed |-> FALSE, list |-> list]
Failing(list) == [by |-> 0, failed |-> TRUE, list |-> list]

(* A zone the line is not in, and the one it is in.                        *)
LEMMA VisitOther ==
    ASSUME NEW line, NEW collapse, NEW by, NEW list, NEW z, NEW below, ~Within(z, line)
    PROVE  Visit(line, collapse, Going(by, list), z, below) =
             Going(by, Longer(list, IF by # 0 /\ line < z.low THEN Moved(z, by) ELSE z))
<1> DEFINE acc == Going(by, list)
<1>1. acc.by = by /\ acc.failed = FALSE /\ acc.list = list
    BY DEF Going
<1> HIDE DEF acc
<1> QED BY <1>1 DEF Visit, Going, Longer, acc

LEMMA VisitFailed ==
    ASSUME NEW line, NEW collapse, NEW list, NEW z, NEW below
    PROVE  Visit(line, collapse, Failing(list), z, below) = Failing(Longer(list, z))
<1> DEFINE acc == Failing(list)
<1>1. acc.by = 0 /\ acc.failed = TRUE /\ acc.list = list
    BY DEF Failing
<1> HIDE DEF acc
<1> QED BY <1>1 DEF Visit, Failing, Longer, acc

Filled(z, list) == [z EXCEPT !.inner = list]
Held(z, list, by) == [z EXCEPT !.inner = list, !.high = Plus(@, by)]
Fails(z, collapse, below) ==
    /\ ~(~below.failed /\ below.by # 0)
    /\ z.inner # <<>> \/ ~z.named \/ z.collapsed = collapse
Change(z, collapse, below) ==
    IF ~below.failed /\ below.by # 0 THEN below.by ELSE Shrinks(z, collapse)
Turned(z, collapse, below) ==
    IF ~below.failed /\ below.by # 0
    THEN Held(z, below.list, below.by)
    ELSE Toggled(z, Shrinks(z, collapse))

LEMMA VisitHolder ==
    ASSUME NEW line, NEW collapse, NEW list, NEW z, NEW below, Within(z, line),
           below.by # 0 => ~below.failed
    PROVE  Visit(line, collapse, Going(0, list), z, below) =
             IF Fails(z, collapse, below) THEN Failing(Longer(list, Filled(z, below.list)))
             ELSE Going(Change(z, collapse, below), Longer(list, Turned(z, collapse, below)))
<1> DEFINE acc == Going(0, list)
<1>1. acc.by = 0 /\ acc.failed = FALSE /\ acc.list = list
    BY DEF Going
<1> HIDE DEF acc
<1>3. CASE ~below.failed /\ below.by # 0
    BY <1>1, <1>3 DEF Visit, Going, Longer, Turned, Held, Change, Fails
<1>4. CASE ~(~below.failed /\ below.by # 0) /\ (z.inner # <<>> \/ ~z.named \/ z.collapsed = collapse)
    <2> DEFINE y == [z EXCEPT !.inner = below.list]
    <2>1. below.by = 0
        BY <1>4
    <2>2. Visit(line, collapse, acc, z, below) = [by |-> below.by, failed |-> TRUE, list |-> Append(list, y)]
        BY <1>1, <1>4 DEF Visit
    <2>3. Fails(z, collapse, below)
        BY <1>4 DEF Fails
    <2> HIDE DEF y
    <2>4. Visit(line, collapse, acc, z, below) = Failing(Longer(list, y))
        BY <2>1, <2>2 DEF Failing, Longer
    <2> QED BY <2>3, <2>4 DEF y, acc, Filled
<1>5. CASE ~(~below.failed /\ below.by # 0) /\ ~(z.inner # <<>> \/ ~z.named \/ z.collapsed = collapse)
    BY <1>1, <1>5 DEF Visit, Going, Longer, Turned, Change, Fails, Shrinks
<1> QED BY <1>3, <1>4, <1>5 DEF acc

-----------------------------------------------------------------------------
(* The fields of a zone that was moved or folded.                          *)

\* Zones with the same fields are the same.
LEMMA SameZone ==
    ASSUME NEW Inner, NEW z \in ZonesWith(Inner), NEW y \in ZonesWith(Inner),
           z.low = y.low, z.high = y.high, z.workLow = y.workLow, z.workHigh = y.workHigh,
           z.named = y.named, z.asm = y.asm, z.labels = y.labels, z.comments = y.comments,
           z.collapsed = y.collapsed, z.inner = y.inner
    PROVE  z = y
BY DEF ZonesWith

LEMMA ZoneFields ==
    ASSUME NEW Inner, NEW z \in ZonesWith(Inner)
    PROVE  /\ z.low \in Nat /\ z.high \in Nat /\ z.workLow \in Nat /\ z.workHigh \in Nat
           /\ z.low <= Wrap /\ z.high <= Wrap /\ z.workLow <= Wrap /\ z.workHigh <= Wrap
           /\ z.named \in BOOLEAN /\ z.collapsed \in BOOLEAN /\ z.asm \in Words
           /\ z.labels \in Maps(Labels) /\ z.comments \in Maps(Notes) /\ z.inner \in Inner
<1>1. z.low \in Coords /\ z.high \in Coords /\ z.workLow \in Coords /\ z.workHigh \in Coords
    BY DEF ZonesWith
<1>2. /\ z.named \in BOOLEAN /\ z.collapsed \in BOOLEAN /\ z.asm \in Words
      /\ z.labels \in Maps(Labels) /\ z.comments \in Maps(Notes) /\ z.inner \in Inner
    BY DEF ZonesWith
<1> QED BY <1>1, <1>2, EndIs DEF Coords

SameButPlace(m, z) ==
    /\ m.workLow = z.workLow /\ m.workHigh = z.workHigh /\ m.named = z.named /\ m.asm = z.asm
    /\ m.inner = z.inner

LEMMA PlusAny ==
    ASSUME NEW a \in Int, NEW d \in Int
    PROVE  Plus(a, d) \in Words
<1>1. Wrap \in Nat /\ Wrap > 0
    BY EndIs
<1>2. a + d \in Int
    OBVIOUS
<1> QED BY <1>1, <1>2 DEF Plus, Words

LEMMA WordsAreCoords == Words \subseteq Coords
BY EndIs DEF Words, Coords

\* What moving, folding and filling a zone do to each field.
LEMMA MovedIs ==
    ASSUME NEW Inner, NEW z \in ZonesWith(Inner), NEW d \in -Wrap .. Wrap
    PROVE  /\ Moved(z, d) \in ZonesWith(Inner)
           /\ Moved(z, d).low = Plus(z.low, d) /\ Moved(z, d).high = Plus(z.high, d)
           /\ Moved(z, d).labels = Shift(z.labels, d) /\ Moved(z, d).comments = Shift(z.comments, d)
           /\ Moved(z, d).collapsed = z.collapsed /\ SameButPlace(Moved(z, d), z)
<1>1. d \in Int /\ z.low \in Int /\ z.high \in Int
    BY EndIs, ZoneFields
<1>2. Plus(z.low, d) \in Coords /\ Plus(z.high, d) \in Coords
    BY <1>1, PlusAny, WordsAreCoords
<1>3. Shift(z.labels, d) \in Maps(Labels) /\ Shift(z.comments, d) \in Maps(Notes)
    BY ZoneFields, ShiftIs
<1>4. Moved(z, d) \in ZonesWith(Inner)
    BY <1>2, <1>3 DEF Moved, ZonesWith
<1>5. /\ Moved(z, d).low = Plus(z.low, d) /\ Moved(z, d).high = Plus(z.high, d)
      /\ Moved(z, d).labels = Shift(z.labels, d) /\ Moved(z, d).comments = Shift(z.comments, d)
      /\ Moved(z, d).collapsed = z.collapsed
    BY DEF Moved, ZonesWith
<1>6. SameButPlace(Moved(z, d), z)
    BY DEF Moved, ZonesWith, SameButPlace
<1> QED BY <1>4, <1>5, <1>6

LEMMA ToggledIs ==
    ASSUME NEW Inner, NEW z \in ZonesWith(Inner), NEW d \in Int
    PROVE  /\ Toggled(z, d) \in ZonesWith(Inner)
           /\ Toggled(z, d).low = z.low /\ Toggled(z, d).high = Plus(z.high, d)
           /\ Toggled(z, d).labels = z.labels /\ Toggled(z, d).comments = z.comments
           /\ Toggled(z, d).collapsed = ~z.collapsed /\ SameButPlace(Toggled(z, d), z)
<1>0. z.high \in Int
    BY ZoneFields
<1>1. Plus(z.high, d) \in Coords
    BY <1>0, PlusAny, WordsAreCoords
<1>2. Toggled(z, d) \in ZonesWith(Inner)
    BY <1>1 DEF Toggled, ZonesWith
<1>3. /\ Toggled(z, d).low = z.low /\ Toggled(z, d).high = Plus(z.high, d)
      /\ Toggled(z, d).labels = z.labels /\ Toggled(z, d).comments = z.comments
      /\ Toggled(z, d).collapsed = ~z.collapsed
    BY DEF Toggled, ZonesWith
<1>4. SameButPlace(Toggled(z, d), z)
    BY DEF Toggled, ZonesWith, SameButPlace
<1> QED BY <1>2, <1>3, <1>4

(* A zone whose inside was folded.                                         *)
LEMMA HeldIs ==
    ASSUME NEW z \in ZoneType, NEW list \in Seq(LeafType), NEW by \in Int
    PROVE  /\ Held(z, list, by) \in ZoneType
           /\ Held(z, list, by).low = z.low /\ Held(z, list, by).high = Plus(z.high, by)
           /\ Held(z, list, by).labels = z.labels /\ Held(z, list, by).comments = z.comments
           /\ Held(z, list, by).collapsed = z.collapsed /\ Held(z, list, by).inner = list
           /\ Held(z, list, by).workLow = z.workLow /\ Held(z, list, by).workHigh = z.workHigh
           /\ Held(z, list, by).named = z.named /\ Held(z, list, by).asm = z.asm
<1>0. z.high \in Int
    BY ZoneFields DEF ZoneType
<1>1. Plus(z.high, by) \in Coords
    BY <1>0, PlusAny, WordsAreCoords
<1>2. Held(z, list, by) \in ZoneType
    BY <1>1 DEF Held, ZoneType, ZonesWith
<1>3. /\ Held(z, list, by).low = z.low /\ Held(z, list, by).high = Plus(z.high, by)
      /\ Held(z, list, by).labels = z.labels /\ Held(z, list, by).comments = z.comments
      /\ Held(z, list, by).collapsed = z.collapsed /\ Held(z, list, by).inner = list
      /\ Held(z, list, by).workLow = z.workLow /\ Held(z, list, by).workHigh = z.workHigh
      /\ Held(z, list, by).named = z.named /\ Held(z, list, by).asm = z.asm
    BY DEF Held, ZoneType, ZonesWith
<1> QED BY <1>2, <1>3

LEMMA SameInside ==
    ASSUME NEW z \in ZoneType
    PROVE  Filled(z, z.inner) = z
BY DEF Filled, ZoneType, ZonesWith

-----------------------------------------------------------------------------
(* The loop over a list: the first n zones once the loop passed them.      *)

Row(f, n) == [k \in 1 .. n |-> f[k]]

LEMMA AppendRow ==
    ASSUME NEW f, NEW n \in Nat, n > 0
    PROVE  Longer(Row(f, n - 1), f[n]) = Row(f, n)
<1> DEFINE s == Row(f, n - 1)
           X == {f[k] : k \in 1 .. n}
<1>1. n - 1 \in Nat /\ (n - 1) + 1 = n
    OBVIOUS
<1>2. s = [k \in 1 .. n - 1 |-> f[k]]
    BY DEF Row
<1>3. s \in Seq(X) /\ Len(s) = n - 1
    <2>1. s \in [1 .. n - 1 -> X]
        BY <1>2
    <2>2. s \in Seq(X)
        BY <1>1, <2>1
    <2> QED BY <1>1, <2>1, <2>2, LenProperties
<1>4. Append(s, f[n]) = [k \in 1 .. n |-> IF k = n THEN f[n] ELSE s[k]]
    <2>1. f[n] \in X
        BY <1>1
    <2> HIDE DEF s, X
    <2> QED BY <1>1, <1>3, <2>1
<1>5. \A k \in 1 .. n : (IF k = n THEN f[n] ELSE s[k]) = f[k]
    BY <1>2
<1> HIDE DEF s
<1> QED BY <1>4, <1>5 DEF Row, s, Longer

(* The zone at i turns out as t, and the zones behind it follow.           *)
(* The zone at i becomes y and those behind it move by that many lines, or *)
(* nothing can be folded there.                                            *)
Result(zs, i, t) == IF i = 0 THEN zs ELSE Folded(zs, i, t.zone, t.by)
Passed(zs, i, t, n) ==
    IF i = 0 \/ n < i THEN Going(0, Row(Result(zs, i, t), n))
    ELSE IF t.failed THEN Failing(Row(Result(zs, i, t), n))
    ELSE Going(t.by, Row(Result(zs, i, t), n))

Tells(t, z, collapse, below) ==
    /\ below.by # 0 => ~below.failed
    /\ IF Fails(z, collapse, below)
       THEN t.failed /\ t.by = 0 /\ t.zone = Filled(z, below.list)
       ELSE ~t.failed /\ t.by = Change(z, collapse, below) /\ t.zone = Turned(z, collapse, below)
Sane(t) == t.failed => t.by = 0

PassesOn(line, collapse, zs, t, n, below) ==
    Visit(line, collapse, Passed(zs, At(zs, line), t, n - 1), zs[n], below) = Passed(zs, At(zs, line), t, n)

\* One turn of the loop goes on as Passed says.
LEMMA PassNext ==
    ASSUME NEW zs \in Seq(ZoneType), Ordered(zs), NEW line \in Nat, NEW collapse, NEW t,
           NEW n \in 1 .. Len(zs), NEW below,
           n = At(zs, line) => Tells(t, zs[n], collapse, below), Sane(t)
    PROVE  PassesOn(line, collapse, zs, t, n, below)
<1> DEFINE i == At(zs, line)
           f == Result(zs, i, t)
           before == Passed(zs, i, t, n - 1)
           behind == Passed(zs, i, t, n)
<1>1. /\ i # 0 => i \in 1 .. Len(zs) /\ Within(zs[i], line)
      /\ Within(zs[n], line) => i = n
    BY AtIs
<1>2. n \in Nat /\ n > 0 /\ Longer(Row(f, n - 1), f[n]) = Row(f, n)
    <2>1. n \in Nat /\ n > 0
        OBVIOUS
    <2> HIDE DEF f
    <2> QED BY <2>1, AppendRow
<1>w. /\ f = IF i = 0 THEN zs ELSE Folded(zs, i, t.zone, t.by)
      /\ before = IF i = 0 \/ n - 1 < i THEN Going(0, Row(f, n - 1))
                  ELSE IF t.failed THEN Failing(Row(f, n - 1)) ELSE Going(t.by, Row(f, n - 1))
      /\ behind = IF i = 0 \/ n < i THEN Going(0, Row(f, n))
                  ELSE IF t.failed THEN Failing(Row(f, n)) ELSE Going(t.by, Row(f, n))
    BY DEF Passed, Result
<1> HIDE DEF f, i, before, behind
<1>s. SUFFICES Visit(line, collapse, before, zs[n], below) = behind
    BY DEF i, before, behind, PassesOn
<1>3. CASE i = 0 \/ n < i
    <2>1. ~Within(zs[n], line) /\ f[n] = zs[n]
        BY <1>1, <1>3, <1>w DEF Folded
    <2>2. Visit(line, collapse, Going(0, Row(f, n - 1)), zs[n], below)
            = Going(0, Longer(Row(f, n - 1), zs[n]))
        BY <2>1, VisitOther
    <2>3. i = 0 \/ n - 1 < i
        BY <1>1, <1>3
    <2> QED BY <1>2, <1>3, <1>w, <2>1, <2>2, <2>3
<1>5. CASE i # 0 /\ n = i
    <2>1. Within(zs[n], line) /\ f[n] = t.zone /\ Tells(t, zs[n], collapse, below)
        BY <1>1, <1>5, <1>w DEF Folded, i
    <2>2. Visit(line, collapse, Going(0, Row(f, n - 1)), zs[n], below)
            = IF t.failed THEN Failing(Longer(Row(f, n - 1), t.zone))
              ELSE Going(t.by, Longer(Row(f, n - 1), t.zone))
        <3>1. Visit(line, collapse, Going(0, Row(f, n - 1)), zs[n], below) =
                IF Fails(zs[n], collapse, below)
                THEN Failing(Longer(Row(f, n - 1), Filled(zs[n], below.list)))
                ELSE Going(Change(zs[n], collapse, below), Longer(Row(f, n - 1), Turned(zs[n], collapse, below)))
            BY <2>1, VisitHolder DEF Tells
        <3> QED BY <2>1, <3>1 DEF Tells
    <2>3. n - 1 < i /\ ~(n < i)
        BY <1>5
    <2> QED BY <1>2, <1>5, <1>w, <2>1, <2>2, <2>3
<1>6. CASE i # 0 /\ n > i
    <2>1. ~Within(zs[n], line) /\ line < zs[n].low
        BY <1>1, <1>6, OneHolds
    <2>2. f[n] = IF t.by # 0 /\ line < zs[n].low THEN Moved(zs[n], t.by) ELSE zs[n]
        BY <1>1, <1>6, <1>w, <2>1 DEF Folded
    <2>3. ~t.failed => Visit(line, collapse, Going(t.by, Row(f, n - 1)), zs[n], below)
                         = Going(t.by, Longer(Row(f, n - 1), f[n]))
        BY <2>1, <2>2, VisitOther
    <2>4. t.failed => Visit(line, collapse, Failing(Row(f, n - 1)), zs[n], below)
                        = Failing(Longer(Row(f, n - 1), f[n]))
        <3>1. t.failed => f[n] = zs[n]
            BY <2>2 DEF Sane
        <3>2. Visit(line, collapse, Failing(Row(f, n - 1)), zs[n], below) = Failing(Longer(Row(f, n - 1), zs[n]))
            BY VisitFailed
        <3> QED BY <3>1, <3>2
    <2>5. ~(n - 1 < i) /\ ~(n < i)
        BY <1>1, <1>6
    <2> QED BY <1>2, <1>6, <1>w, <2>3, <2>4, <2>5
<1>7. (i = 0 \/ n < i) \/ (i # 0 /\ n = i) \/ (i # 0 /\ n > i)
    BY <1>1
<1> QED BY <1>3, <1>5, <1>6, <1>7

-----------------------------------------------------------------------------
(* The loop over the zones inside a zone.                                  *)

InnerLoop(line, collapse, ys, f) ==
    f = [n \in 0 .. Len(ys) |->
            IF n = 0 THEN Start(0) ELSE Visit(line, collapse, f[n - 1], ys[n], Start(f[n - 1].by))]
OuterLoop(line, collapse, zs, f) ==
    f = [n \in 0 .. Len(zs) |->
            IF n = 0 THEN Start(0)
            ELSE Visit(line, collapse, f[n - 1], zs[n], InInner(line, collapse, f[n - 1].by, zs[n].inner))]

LEMMA NoRow ==
    ASSUME NEW f
    PROVE  Start(0) = Going(0, Row(f, 0)) /\ Start(0) = Going(0, <<>>) /\ Row(f, 0) = <<>>
<1>1. Row(f, 0) = <<>>
    BY DEF Row
<1> QED BY <1>1 DEF Start, Going

LEMMA GoingIs ==
    ASSUME NEW by, NEW list
    PROVE  Going(by, list).by = by /\ Going(by, list).list = list /\ ~Going(by, list).failed
BY DEF Going

LEMMA FailingIs ==
    ASSUME NEW list
    PROVE  Failing(list).by = 0 /\ Failing(list).list = list /\ Failing(list).failed
BY DEF Failing

\* Both loops end as Passed says, by induction over the turns.
LEMMA InnerLoopIs ==
    ASSUME NEW ys \in Seq(ZoneType), Ordered(ys), NEW line \in Nat, NEW collapse, NEW t,
           At(ys, line) # 0 => Tells(t, ys[At(ys, line)], collapse, Going(0, <<>>)), Sane(t)
    PROVE  InInner(line, collapse, 0, ys) = Passed(ys, At(ys, line), t, Len(ys))
<1> DEFINE j == At(ys, line)
           N == Len(ys)
           P(n) == Passed(ys, j, t, n)
           g == [n \in 0 .. N |-> P(n)]
           f == CHOOSE e : InnerLoop(line, collapse, ys, e)
<1>0. N \in Nat
    OBVIOUS
<1>1. P(0) = Start(0)
    <2>1. j = 0 \/ 0 < j
        BY AtIs
    <2> QED BY <2>1, NoRow DEF Passed
<1>2. ASSUME NEW n \in 1 .. N
      PROVE  P(n) = Visit(line, collapse, P(n - 1), ys[n], Start(P(n - 1).by))
    <2> DEFINE below == Start(P(n - 1).by)
    <2>1. n = j => below = Going(0, <<>>)
        <3> SUFFICES ASSUME n = j
                     PROVE  below = Going(0, <<>>)
            OBVIOUS
        <3>1. n - 1 < j
            OBVIOUS
        <3>2. P(n - 1).by = 0
            BY <3>1, GoingIs DEF Passed
        <3> QED BY <3>2, NoRow
    <2>2. n = j => Tells(t, ys[n], collapse, below)
        BY <2>1, GoingIs
    <2> HIDE DEF below
    <2>3. PassesOn(line, collapse, ys, t, n, below)
        BY <2>2, PassNext
    <2> QED BY <2>3 DEF below, PassesOn
<1>3. InnerLoop(line, collapse, ys, g)
    <2>1. \A n \in 0 .. N : g[n] = P(n)
        OBVIOUS
    <2>2. ASSUME NEW n \in 0 .. N
          PROVE  P(n) = IF n = 0 THEN Start(0) ELSE Visit(line, collapse, g[n - 1], ys[n], Start(g[n - 1].by))
        <3>1. CASE n = 0
            BY <1>1, <3>1
        <3>2. CASE n # 0
            <4>1. n \in 1 .. N /\ n - 1 \in 0 .. N
                BY <1>0, <3>2
            <4>2. g[n - 1] = P(n - 1)
                BY <2>1, <4>1
            <4> HIDE DEF g, P
            <4> QED BY <1>2, <3>2, <4>1, <4>2
        <3> QED BY <3>1, <3>2
    <2>3. g = [n \in 0 .. N |->
                 IF n = 0 THEN Start(0) ELSE Visit(line, collapse, g[n - 1], ys[n], Start(g[n - 1].by))]
        <3> HIDE DEF P
        <3> QED BY <2>2
    <2> HIDE DEF g
    <2> QED BY <2>3 DEF InnerLoop
<1>4. InnerLoop(line, collapse, ys, f)
    <2> HIDE DEF g
    <2> QED BY <1>3
<1>5. 0 .. N \subseteq {n \in Nat : n \in 0 .. N => f[n] = P(n)}
    <2> DEFINE B == {n \in Nat : n \in 0 .. N => f[n] = P(n)}
    <2> HIDE DEF f
    <2>0. \A n \in 0 .. N : f[n] = IF n = 0 THEN Start(0)
                                   ELSE Visit(line, collapse, f[n - 1], ys[n], Start(f[n - 1].by))
        BY <1>4 DEF InnerLoop
    <2>1. 0 \in B
        <3>1. 0 \in 0 .. N
            BY <1>0
        <3> QED BY <1>1, <2>0, <3>1
    <2>2. ASSUME NEW n \in 1 .. N, n - 1 \in B
          PROVE  n \in B
        <3>1. n - 1 \in 0 .. N /\ n \in 0 .. N /\ n # 0
            BY <1>0
        <3>2. f[n - 1] = P(n - 1)
            BY <2>2, <3>1
        <3>3. f[n] = P(n)
            <4> HIDE DEF P
            <4> QED BY <1>2, <2>0, <3>1, <3>2
        <3> QED BY <3>3
    <2> HIDE DEF B
    <2>3. 0 .. N \subseteq B
        BY <1>0, <2>1, <2>2, UpTo
    <2> QED BY <2>3 DEF B
<1>6. N \in 0 .. N
    BY <1>0
<1>7. f[N] = P(N)
    <2> HIDE DEF f, P
    <2> QED BY <1>5, <1>6
<1>8. InInner(line, collapse, 0, ys) = f[N]
    BY DEF InInner, InnerLoop
<1> QED BY <1>7, <1>8

LEMMA OuterLoopIs ==
    ASSUME NEW zs \in Seq(ZoneType), Ordered(zs), NEW line \in Nat, NEW collapse, NEW t,
           At(zs, line) # 0 =>
             Tells(t, zs[At(zs, line)], collapse, InInner(line, collapse, 0, zs[At(zs, line)].inner)), Sane(t)
    PROVE  GetRecursiveZoneByLine(line, collapse, zs) = Passed(zs, At(zs, line), t, Len(zs))
<1> DEFINE i == At(zs, line)
           N == Len(zs)
           P(n) == Passed(zs, i, t, n)
           g == [n \in 0 .. N |-> P(n)]
           f == CHOOSE e : OuterLoop(line, collapse, zs, e)
<1>0. N \in Nat
    OBVIOUS
<1>1. P(0) = Start(0)
    <2>1. i = 0 \/ 0 < i
        BY AtIs
    <2> QED BY <2>1, NoRow DEF Passed
<1>2. ASSUME NEW n \in 1 .. N
      PROVE  P(n) = Visit(line, collapse, P(n - 1), zs[n], InInner(line, collapse, P(n - 1).by, zs[n].inner))
    <2> DEFINE below == InInner(line, collapse, P(n - 1).by, zs[n].inner)
    <2>1. n = i => below = InInner(line, collapse, 0, zs[i].inner)
        <3> SUFFICES ASSUME n = i
                     PROVE  below = InInner(line, collapse, 0, zs[i].inner)
            OBVIOUS
        <3>1. n - 1 < i
            OBVIOUS
        <3>2. P(n - 1).by = 0
            BY <3>1, GoingIs DEF Passed
        <3> QED BY <3>2
    <2>2. n = i => Tells(t, zs[n], collapse, below)
        <3> HIDE DEF below
        <3> QED BY <2>1
    <2> HIDE DEF below
    <2>3. PassesOn(line, collapse, zs, t, n, below)
        BY <2>2, PassNext
    <2> QED BY <2>3 DEF below, PassesOn
<1>3. OuterLoop(line, collapse, zs, g)
    <2>1. \A n \in 0 .. N : g[n] = P(n)
        OBVIOUS
    <2>2. ASSUME NEW n \in 0 .. N
          PROVE  P(n) = IF n = 0 THEN Start(0)
                        ELSE Visit(line, collapse, g[n - 1], zs[n],
                                   InInner(line, collapse, g[n - 1].by, zs[n].inner))
        <3>1. CASE n = 0
            BY <1>1, <3>1
        <3>2. CASE n # 0
            <4>1. n \in 1 .. N /\ n - 1 \in 0 .. N
                BY <1>0, <3>2
            <4>2. g[n - 1] = P(n - 1)
                BY <2>1, <4>1
            <4> HIDE DEF g, P
            <4> QED BY <1>2, <3>2, <4>1, <4>2
        <3> QED BY <3>1, <3>2
    <2>3. g = [n \in 0 .. N |->
                 IF n = 0 THEN Start(0)
                 ELSE Visit(line, collapse, g[n - 1], zs[n], InInner(line, collapse, g[n - 1].by, zs[n].inner))]
        <3> HIDE DEF P
        <3> QED BY <2>2
    <2> HIDE DEF g
    <2> QED BY <2>3 DEF OuterLoop
<1>4. OuterLoop(line, collapse, zs, f)
    <2> HIDE DEF g
    <2> QED BY <1>3
<1>5. 0 .. N \subseteq {n \in Nat : n \in 0 .. N => f[n] = P(n)}
    <2> DEFINE B == {n \in Nat : n \in 0 .. N => f[n] = P(n)}
    <2> HIDE DEF f
    <2>0. \A n \in 0 .. N : f[n] = IF n = 0 THEN Start(0)
                                   ELSE Visit(line, collapse, f[n - 1], zs[n],
                                              InInner(line, collapse, f[n - 1].by, zs[n].inner))
        BY <1>4 DEF OuterLoop
    <2>1. 0 \in B
        <3>1. 0 \in 0 .. N
            BY <1>0
        <3> QED BY <1>1, <2>0, <3>1
    <2>2. ASSUME NEW n \in 1 .. N, n - 1 \in B
          PROVE  n \in B
        <3>1. n - 1 \in 0 .. N /\ n \in 0 .. N /\ n # 0
            BY <1>0
        <3>2. f[n - 1] = P(n - 1)
            BY <2>2, <3>1
        <3>3. f[n] = P(n)
            <4> HIDE DEF P
            <4> QED BY <1>2, <2>0, <3>1, <3>2
        <3> QED BY <3>3
    <2> HIDE DEF B
    <2>3. 0 .. N \subseteq B
        BY <1>0, <2>1, <2>2, UpTo
    <2> QED BY <2>3 DEF B
<1>6. N \in 0 .. N
    BY <1>0
<1>7. f[N] = P(N)
    <2> HIDE DEF f, P
    <2> QED BY <1>5, <1>6
<1>8. GetRecursiveZoneByLine(line, collapse, zs) = f[N]
    BY DEF GetRecursiveZoneByLine, OuterLoop
<1> QED BY <1>7, <1>8

-----------------------------------------------------------------------------
(* What comes out of the loops.                                            *)

\* What can be folded, and the list with its zone i folded.
Foldable(z, collapse) == z.inner = <<>> /\ z.named /\ z.collapsed # collapse
FoldedAt(zs, i, collapse) ==
    Folded(zs, i, Toggled(zs[i], Shrinks(zs[i], collapse)), Shrinks(zs[i], collapse))

LEMMA LeafLists == Seq(LeafType) \subseteq Seq(ZoneType)
<1>1. LeafType \subseteq ZoneType
    BY LeavesAreZones
<1> QED BY <1>1

LEMMA RowAll ==
    ASSUME NEW zs \in Seq(ZoneType), NEW i, NEW y, NEW by
    PROVE  /\ Row(zs, Len(zs)) = zs
           /\ Row(Folded(zs, i, y, by), Len(zs)) = Folded(zs, i, y, by)
<1>1. zs = [k \in 1 .. Len(zs) |-> zs[k]]
    OBVIOUS
<1>2. Row(zs, Len(zs)) = zs
    BY <1>1 DEF Row
<1>3. Row(Folded(zs, i, y, by), Len(zs)) = Folded(zs, i, y, by)
    BY DEF Row, Folded
<1> QED BY <1>2, <1>3

LEMMA FoldedSame ==
    ASSUME NEW zs \in Seq(ZoneType), NEW i \in 1 .. Len(zs)
    PROVE  Folded(zs, i, zs[i], 0) = zs
<1>1. zs = [k \in 1 .. Len(zs) |-> zs[k]]
    OBVIOUS
<1>2. Folded(zs, i, zs[i], 0) = [k \in 1 .. Len(zs) |-> zs[k]]
    BY DEF Folded
<1> QED BY <1>1, <1>2

LEMMA AtNone ==
    ASSUME NEW zs, zs = <<>>, NEW line
    PROVE  At(zs, line) = 0
<1>1. Len(zs) = 0
    OBVIOUS
<1>2. {i \in 1 .. Len(zs) : Within(zs[i], line)} = {}
    BY <1>1
<1> QED BY <1>2 DEF At, SelectInSeq

LEMMA PassedAll ==
    ASSUME NEW zs \in Seq(ZoneType), Ordered(zs), NEW line \in Nat, NEW t
    PROVE  Passed(zs, At(zs, line), t, Len(zs)) =
             IF At(zs, line) = 0 THEN Going(0, zs)
             ELSE IF t.failed THEN Failing(Folded(zs, At(zs, line), t.zone, t.by))
             ELSE Going(t.by, Folded(zs, At(zs, line), t.zone, t.by))
<1> DEFINE i == At(zs, line)
<1>1. i # 0 => i \in 1 .. Len(zs) /\ ~(Len(zs) < i)
    BY AtIs
<1>2. Row(zs, Len(zs)) = zs /\ Row(Folded(zs, i, t.zone, t.by), Len(zs)) = Folded(zs, i, t.zone, t.by)
    BY RowAll
<1> HIDE DEF i
<1>3. CASE i = 0
    BY <1>2, <1>3 DEF Passed, Result, i
<1>4. CASE i # 0
    BY <1>1, <1>2, <1>4 DEF Passed, Result, i
<1> QED BY <1>3, <1>4

\* The list inside a zone: nothing, one zone folded, or a failure.
LEMMA InnerIs ==
    ASSUME NEW ys \in Seq(LeafType), Ordered(ys), NEW line \in Nat, NEW collapse \in BOOLEAN
    PROVE  LET j == At(ys, line)
           IN  InInner(line, collapse, 0, ys) =
                 IF j = 0 THEN Going(0, ys)
                 ELSE IF Foldable(ys[j], collapse) THEN Going(Shrinks(ys[j], collapse), FoldedAt(ys, j, collapse))
                 ELSE Failing(ys)
<1> DEFINE j == At(ys, line)
           d == Shrinks(ys[j], collapse)
           good == [failed |-> FALSE, by |-> d, zone |-> Toggled(ys[j], d)]
           bad == [failed |-> TRUE, by |-> 0, zone |-> ys[j]]
           below == Going(0, <<>>)
<1>0. ys \in Seq(ZoneType)
    BY LeafLists
<1>1. below.by = 0 /\ below.list = <<>> /\ ~below.failed
    BY GoingIs
<1>2. j # 0 => j \in 1 .. Len(ys) /\ ys[j] \in LeafType
    BY <1>0, AtIs
<1>3. j # 0 => ys[j].inner = <<>> /\ ys[j] \in ZoneType
    BY <1>2, LeavesAreZones DEF LeafType, ZonesWith
<1>4. /\ ~good.failed /\ good.by = d /\ good.zone = Toggled(ys[j], d)
      /\ bad.failed /\ bad.by = 0 /\ bad.zone = ys[j]
    OBVIOUS
<1> HIDE DEF j, d, good, bad, below
<1>5. CASE j = 0
    <2>1. InInner(line, collapse, 0, ys) = Passed(ys, j, bad, Len(ys))
        <3>1. Sane(bad)
            BY <1>4 DEF Sane
        <3> QED BY <1>0, <1>5, <3>1, InnerLoopIs DEF j
    <2>2. Passed(ys, j, bad, Len(ys)) = Going(0, ys)
        BY <1>0, <1>5, PassedAll DEF j
    <2> QED BY <1>5, <2>1, <2>2 DEF j
<1>6. CASE j # 0 /\ Foldable(ys[j], collapse)
    <2>1. Tells(good, ys[j], collapse, below) /\ Sane(good)
        BY <1>1, <1>4, <1>6 DEF Tells, Sane, Fails, Change, Turned, Foldable, d
    <2>2. InInner(line, collapse, 0, ys) = Passed(ys, j, good, Len(ys))
        BY <1>0, <2>1, InnerLoopIs DEF j, below
    <2>3. Passed(ys, j, good, Len(ys)) = Going(d, Folded(ys, j, Toggled(ys[j], d), d))
        BY <1>0, <1>4, <1>6, PassedAll DEF j
    <2> QED BY <1>6, <2>2, <2>3 DEF j, d, FoldedAt
<1>7. CASE j # 0 /\ ~Foldable(ys[j], collapse)
    <2>0. Filled(ys[j], <<>>) = ys[j]
        BY <1>3, <1>7, SameInside
    <2>1. Tells(bad, ys[j], collapse, below) /\ Sane(bad)
        <3>1. Fails(ys[j], collapse, below)
            BY <1>1, <1>3, <1>7 DEF Fails, Foldable
        <3> QED BY <1>1, <1>4, <2>0, <3>1 DEF Tells, Sane
    <2>2. InInner(line, collapse, 0, ys) = Passed(ys, j, bad, Len(ys))
        BY <1>0, <2>1, InnerLoopIs DEF j, below
    <2>3. Passed(ys, j, bad, Len(ys)) = Failing(ys)
        BY <1>0, <1>2, <1>4, <1>7, PassedAll, FoldedSame DEF j
    <2> QED BY <1>7, <2>2, <2>3 DEF j
<1> QED BY <1>5, <1>6, <1>7

(* The whole list.                                                         *)
InnerOrdered(zs) == \A i \in 1 .. Len(zs) : Ordered(zs[i].inner)

\* The whole list: nothing, a zone folded, or a zone folded inside one.
LEMMA OuterIs ==
    ASSUME NEW zs \in Seq(ZoneType), Ordered(zs), InnerOrdered(zs), NEW line \in Nat, NEW collapse \in BOOLEAN
    PROVE  LET i == At(zs, line)
               z == zs[i]
               j == At(z.inner, line)
               d == Shrinks(z.inner[j], collapse)
               list == FoldedAt(z.inner, j, collapse)
           IN  GetRecursiveZoneByLine(line, collapse, zs) =
                 IF i = 0 THEN Going(0, zs)
                 ELSE IF Foldable(z, collapse) THEN Going(Shrinks(z, collapse), FoldedAt(zs, i, collapse))
                 ELSE IF z.inner # <<>> /\ j # 0 /\ Foldable(z.inner[j], collapse)
                 THEN IF d # 0 THEN Going(d, Folded(zs, i, Held(z, list, d), d))
                      ELSE Failing(Folded(zs, i, Filled(z, list), 0))
                 ELSE Failing(zs)
<1> DEFINE i == At(zs, line)
           z == zs[i]
           j == At(z.inner, line)
           d == Shrinks(z.inner[j], collapse)
           list == FoldedAt(z.inner, j, collapse)
           e == Shrinks(z, collapse)
           below == InInner(line, collapse, 0, z.inner)
           mine == [failed |-> FALSE, by |-> e, zone |-> Toggled(z, e)]
           held == [failed |-> FALSE, by |-> d, zone |-> Held(z, list, d)]
           filled == [failed |-> TRUE, by |-> 0, zone |-> Filled(z, list)]
           bad == [failed |-> TRUE, by |-> 0, zone |-> z]
           r == GetRecursiveZoneByLine(line, collapse, zs)
<1>1. i # 0 => i \in 1 .. Len(zs) /\ z \in ZoneType /\ z.inner \in Seq(LeafType) /\ Ordered(z.inner)
    <2> SUFFICES ASSUME i # 0
                 PROVE  i \in 1 .. Len(zs) /\ z \in ZoneType /\ z.inner \in Seq(LeafType) /\ Ordered(z.inner)
        OBVIOUS
    <2>1. i \in 1 .. Len(zs)
        BY AtIs
    <2>2. z \in ZoneType
        BY <2>1
    <2> HIDE DEF i, z
    <2>3. z.inner \in Seq(LeafType)
        BY <2>2 DEF ZoneType, ZonesWith
    <2>4. Ordered(z.inner)
        BY <2>1 DEF InnerOrdered, z
    <2> QED BY <2>1, <2>2, <2>3, <2>4
<1>2. i # 0 => below = IF j = 0 THEN Going(0, z.inner)
                       ELSE IF Foldable(z.inner[j], collapse) THEN Going(d, list)
                       ELSE Failing(z.inner)
    <2> HIDE DEF i, z
    <2> QED BY <1>1, InnerIs
<1>3. /\ ~mine.failed /\ mine.by = e /\ mine.zone = Toggled(z, e)
      /\ ~held.failed /\ held.by = d /\ held.zone = Held(z, list, d)
      /\ filled.failed /\ filled.by = 0 /\ filled.zone = Filled(z, list)
      /\ bad.failed /\ bad.by = 0 /\ bad.zone = z
    OBVIOUS
<1>4. Sane(mine) /\ Sane(held) /\ Sane(filled) /\ Sane(bad)
    <2> HIDE DEF mine, held, filled, bad
    <2> QED BY <1>3 DEF Sane
<1>5. \A t : Sane(t) /\ (i # 0 => Tells(t, z, collapse, below)) => r = Passed(zs, i, t, Len(zs))
    BY OuterLoopIs
<1>6. \A t : Passed(zs, i, t, Len(zs)) =
               IF i = 0 THEN Going(0, zs)
               ELSE IF t.failed THEN Failing(Folded(zs, i, t.zone, t.by))
               ELSE Going(t.by, Folded(zs, i, t.zone, t.by))
    BY PassedAll
<1>7. i # 0 => Filled(z, z.inner) = z /\ Folded(zs, i, z, 0) = zs
    BY <1>1, SameInside, FoldedSame
<1>8. \A by, l : Going(by, l).by = by /\ Going(by, l).list = l /\ ~Going(by, l).failed
                 /\ Failing(l).by = 0 /\ Failing(l).list = l /\ Failing(l).failed
    BY GoingIs, FailingIs
<1>9. FoldedAt(zs, i, collapse) = Folded(zs, i, Toggled(z, e), e)
    BY DEF FoldedAt
<1> SUFFICES r = IF i = 0 THEN Going(0, zs)
                 ELSE IF Foldable(z, collapse) THEN Going(e, FoldedAt(zs, i, collapse))
                 ELSE IF z.inner # <<>> /\ j # 0 /\ Foldable(z.inner[j], collapse)
                 THEN IF d # 0 THEN Going(d, Folded(zs, i, Held(z, list, d), d))
                      ELSE Failing(Folded(zs, i, Filled(z, list), 0))
                 ELSE Failing(zs)
    OBVIOUS
<1> HIDE DEF i, j, d, list, below, mine, held, filled, bad, r, e
<1>10. CASE i = 0
    BY <1>4, <1>5, <1>6, <1>10
<1>11. CASE i # 0 /\ Foldable(z, collapse)
    <2>1. j = 0
        <3>1. z.inner = <<>>
            BY <1>11 DEF Foldable
        <3> QED BY <3>1, AtNone DEF j
    <2>2. below = Going(0, z.inner)
        BY <1>2, <1>11, <2>1
    <2>3. Tells(mine, z, collapse, below)
        BY <1>3, <1>8, <1>11, <2>2 DEF Tells, Fails, Change, Turned, Foldable, e
    <2>4. r = Passed(zs, i, mine, Len(zs))
        BY <1>4, <1>5, <2>3
    <2>5. Passed(zs, i, mine, Len(zs)) = Going(e, Folded(zs, i, Toggled(z, e), e))
        BY <1>3, <1>6, <1>11
    <2> QED BY <1>9, <1>11, <2>4, <2>5
<1>12. CASE i # 0 /\ ~Foldable(z, collapse) /\ z.inner # <<>> /\ j # 0 /\ Foldable(z.inner[j], collapse) /\ d # 0
    <2>1. below = Going(d, list)
        BY <1>2, <1>12
    <2>2. Tells(held, z, collapse, below)
        BY <1>3, <1>8, <1>12, <2>1 DEF Tells, Fails, Change, Turned
    <2>3. r = Passed(zs, i, held, Len(zs))
        BY <1>4, <1>5, <2>2
    <2>4. Passed(zs, i, held, Len(zs)) = Going(d, Folded(zs, i, Held(z, list, d), d))
        BY <1>3, <1>6, <1>12
    <2> QED BY <1>12, <2>3, <2>4
<1>13. CASE i # 0 /\ ~Foldable(z, collapse) /\ z.inner # <<>> /\ j # 0 /\ Foldable(z.inner[j], collapse) /\ ~(d # 0)
    <2>1. below = Going(d, list)
        BY <1>2, <1>13
    <2>2. Tells(filled, z, collapse, below)
        BY <1>3, <1>8, <1>13, <2>1 DEF Tells, Fails
    <2>3. r = Passed(zs, i, filled, Len(zs))
        BY <1>4, <1>5, <2>2
    <2>4. Passed(zs, i, filled, Len(zs)) = Failing(Folded(zs, i, Filled(z, list), 0))
        BY <1>3, <1>6, <1>13
    <2> QED BY <1>13, <2>3, <2>4
<1>14. CASE i # 0 /\ ~Foldable(z, collapse) /\ ~(z.inner # <<>> /\ j # 0 /\ Foldable(z.inner[j], collapse))
    <2>1. below.by = 0 /\ below.list = z.inner
        <3>1. z.inner = <<>> => j = 0
            BY AtNone DEF j
        <3> QED BY <1>2, <1>8, <1>14, <3>1
    <2>2. Tells(bad, z, collapse, below)
        <3>1. Fails(z, collapse, below)
            BY <1>14, <2>1 DEF Fails, Foldable
        <3> QED BY <1>3, <1>7, <1>14, <2>1, <3>1 DEF Tells
    <2>3. r = Passed(zs, i, bad, Len(zs))
        BY <1>4, <1>5, <2>2
    <2>4. Passed(zs, i, bad, Len(zs)) = Failing(zs)
        BY <1>3, <1>6, <1>7, <1>14
    <2> QED BY <1>14, <2>3, <2>4
<1> QED BY <1>10, <1>11, <1>12, <1>13, <1>14

-----------------------------------------------------------------------------
(* What the fields of a zone say of the listing.                           *)

\* The end of the listing goes on forever; the instructions before a listing line; the lines
\* a zone has when it is open.
Cap(n) == IF n < End THEN n ELSE End
Instr(a) == Cardinality({m \in 0 .. a - 1 : m \notin Labels})
Work(z) == z.workHigh - z.workLow

\* The labels of a zone are the ones of the listing at its lines.
Labelled(z, o) ==
    \A k \in Words :
        /\ k \in DOMAIN z.labels <=>
              z.low <= k /\ o[z.low] + (k - z.low) \in Labels /\ o[z.low] + (k - z.low) < o[z.high]
        /\ k \in DOMAIN z.labels => z.labels[k] = o[z.low] + (k - z.low)

\* Where a zone keeps the comment of a listing line, and that it keeps all of them.
Place(z, o, l) == Plus(l - 1, z.low - o[z.low])
Noted(z, o, n) ==
    \A l \in 1 .. End - 1 :
        /\ Place(z, o, l) \in DOMAIN z.comments <=> o[z.low] <= l /\ l < o[z.high] /\ l \in DOMAIN n
        /\ Place(z, o, l) \in DOMAIN z.comments => z.comments[Place(z, o, l)] = n[l]

\* What holds of every zone, of one with nothing inside, and of one with zones inside.
AnyOK(z, o) ==
    /\ z.low <= z.high /\ z.high <= 2 * End /\ z.workLow <= z.workHigh /\ z.workHigh <= End
    /\ z.low = 0 \/ o[z.low - 1] < End
    /\ z.named => z.low < z.high /\ o[z.high - 1] < End
    /\ z.asm = Instr(o[z.low])
    /\ Labelled(z, o)

Straight(z, o) == \A x \in z.low .. z.high : o[x] = Cap(o[z.low] + (x - z.low))
Spread(z, o) ==
    IF z.collapsed
    THEN z.named /\ z.high = z.low + 1 /\ z.workLow < z.workHigh /\ o[z.high] = o[z.low] + Work(z)
    ELSE z.high - z.low = Work(z) /\ Straight(z, o)
Leaf(z, o, n) == z.inner = <<>> /\ Spread(z, o) /\ Noted(z, o, n)

Part(y, z, o, n) == AnyOK(y, o) /\ Leaf(y, o, n) /\ (y.named => ~(y.low = z.low /\ y.high = z.high))
Parent(z, o, n) ==
    /\ z.inner # <<>> /\ z.named /\ ~z.collapsed /\ DOMAIN z.comments = {}
    /\ Chain(z.inner, z.low, z.high)
    /\ \A j \in 1 .. Len(z.inner) : Part(z.inner[j], z, o, n)

\* An orderly listing at a line, and at two.
LEMMA OriginIs ==
    ASSUME NEW o, Orderly(o), NEW x \in 0 .. Wrap
    PROVE  o[x] \in Nat /\ o[x] <= End /\ (x <= o[x] \/ o[x] = End) /\ o[0] = 0
BY EndIs DEF Orderly

LEMMA OriginsGrow ==
    ASSUME NEW o, Orderly(o), NEW x \in 0 .. Wrap, NEW y \in 0 .. Wrap
    PROVE  /\ x < y => o[x] < o[y] \/ o[y] = End
           /\ x <= y => o[x] <= o[y]
<1>1. o[x] \in Nat /\ o[x] <= End /\ o[y] \in Nat /\ o[y] <= End
    BY OriginIs
<1>2. x < y => o[x] < o[y] \/ o[y] = End
    BY DEF Orderly
<1>3. x <= y => x < y \/ x = y
    BY EndIs
<1> QED BY <1>1, <1>2, <1>3

LEMMA AnyBounds ==
    ASSUME NEW I, NEW z \in ZonesWith(I), NEW o, Orderly(o), AnyOK(z, o)
    PROVE  /\ z.low \in Nat /\ z.high \in Nat /\ z.low <= z.high /\ z.low <= End /\ z.high <= 2 * End
           /\ z.low \in 0 .. Wrap /\ z.high \in 0 .. Wrap
           /\ o[z.low] \in Nat /\ o[z.high] \in Nat /\ o[z.low] <= o[z.high] /\ o[z.high] <= End
           /\ z.low <= o[z.low] /\ Work(z) \in Nat /\ Work(z) <= End
<1>1. z.low \in Nat /\ z.high \in Nat /\ z.low <= z.high /\ z.high <= 2 * End /\ Work(z) \in Nat /\ Work(z) <= End
    BY ZoneFields, EndIs DEF AnyOK, Work
<1>2. z.low \in 0 .. Wrap /\ z.high \in 0 .. Wrap
    BY <1>1, EndIs
<1>3. z.low <= End
    <2>1. CASE z.low = 0
        BY <2>1, EndIs
    <2>2. CASE z.low # 0
        <3>1. o[z.low - 1] < End /\ z.low - 1 \in 0 .. Wrap
            BY <1>1, <1>2, <2>2, EndIs DEF AnyOK
        <3>2. z.low - 1 <= o[z.low - 1] /\ o[z.low - 1] \in Nat
            BY <3>1, OriginIs, EndIs
        <3> QED BY <1>1, <3>1, <3>2, EndIs
    <2> QED BY <2>1, <2>2
<1>4. o[z.low] \in Nat /\ o[z.high] \in Nat /\ o[z.high] <= End /\ (z.low <= o[z.low] \/ o[z.low] = End)
    BY <1>2, OriginIs
<1>5. o[z.low] <= o[z.high]
    BY <1>1, <1>2, OriginsGrow
<1> QED BY <1>1, <1>2, <1>3, <1>4, <1>5

(* A zone says the same where the listing is the same up to its end.       *)
SameTo(o, q, n) == \A x \in 0 .. Wrap : x <= n => q[x] = o[x]

\* A zone says the same where the listing behind it did not change.
LEMMA StaysAny ==
    ASSUME NEW I, NEW z \in ZonesWith(I), NEW o, Orderly(o), NEW q, NEW n, AnyOK(z, o), SameTo(o, q, z.high)
    PROVE  /\ AnyOK(z, q)
           /\ Spread(z, o) => Spread(z, q)
           /\ Noted(z, o, n) => Noted(z, q, n)
           /\ Leaf(z, o, n) => Leaf(z, q, n)
<1>1. /\ z.low \in Nat /\ z.high \in Nat /\ z.low <= z.high /\ z.low \in 0 .. Wrap /\ z.high \in 0 .. Wrap
    BY AnyBounds
<1>2. q[z.low] = o[z.low] /\ q[z.high] = o[z.high]
    BY <1>1 DEF SameTo
<1>3. z.low # 0 => q[z.low - 1] = o[z.low - 1]
    <2>1. z.low # 0 => z.low - 1 \in 0 .. Wrap /\ z.low - 1 <= z.high
        BY <1>1, EndIs
    <2> QED BY <2>1 DEF SameTo
<1>4. z.low < z.high => q[z.high - 1] = o[z.high - 1]
    <2>1. z.low < z.high => z.high - 1 \in 0 .. Wrap /\ z.high - 1 <= z.high
        BY <1>1, EndIs
    <2> QED BY <2>1 DEF SameTo
<1>5. \A x \in z.low .. z.high : q[x] = o[x]
    BY <1>1, EndIs DEF SameTo
<1>6. Labelled(z, o) => Labelled(z, q)
    BY <1>2 DEF Labelled
<1>7. AnyOK(z, q)
    BY <1>2, <1>3, <1>4, <1>6 DEF AnyOK
<1>8. Straight(z, o) => Straight(z, q)
    BY <1>2, <1>5 DEF Straight
<1>9. Spread(z, o) => Spread(z, q)
    BY <1>2, <1>8 DEF Spread
<1>10. Noted(z, o, n) => Noted(z, q, n)
    BY <1>2 DEF Noted, Place
<1> QED BY <1>7, <1>9, <1>10 DEF Leaf

(* Lines up to p stay where they are, and those from h on go d lines on.   *)
Slides(o, q, p, h, d) ==
    /\ p \in Nat /\ h \in Nat /\ d \in Int /\ -End <= d /\ d <= End
    /\ p < h /\ p < h + d /\ h <= 2 * End
    /\ \A x \in 0 .. Wrap : x <= p => q[x] = o[x]
    /\ \A x \in 0 .. Wrap : h <= x /\ x <= 2 * End => q[x + d] = o[x]
    /\ q[h + d - 1] < End

\* Moving twice is moving by the sum.
LEMMA PlusPlus ==
    ASSUME NEW a \in Int, NEW b \in Int, NEW d \in Int, -End <= b, b <= End, 0 <= a, a < End, -End <= d, d <= End
    PROVE  Plus(Plus(a, b), d) = Plus(a, b + d)
<1>1. End \in Nat /\ Wrap \in Nat /\ Wrap = 4 * End /\ End > 0
    BY EndIs
<1>2. -Wrap <= a + b /\ a + b < 2 * Wrap /\ -Wrap <= a + (b + d) /\ a + (b + d) < 2 * Wrap /\ b + d \in Int
    BY <1>1
<1>3. /\ Plus(a, b) \in Words
      /\ a + b < 0 => Plus(a, b) = a + b + Wrap
      /\ 0 <= a + b /\ a + b < Wrap => Plus(a, b) = a + b
      /\ Wrap <= a + b => Plus(a, b) = a + b - Wrap
    BY <1>2, PlusIs
<1>4. /\ Plus(a, b + d) \in Words
      /\ a + (b + d) < 0 => Plus(a, b + d) = a + (b + d) + Wrap
      /\ 0 <= a + (b + d) /\ a + (b + d) < Wrap => Plus(a, b + d) = a + (b + d)
      /\ Wrap <= a + (b + d) => Plus(a, b + d) = a + (b + d) - Wrap
    BY <1>2, PlusIs
<1> DEFINE k == Plus(a, b)
<1>5. k \in Int /\ 0 <= k /\ k < Wrap
    BY <1>1, <1>3 DEF Words
<1>6. -Wrap <= k + d /\ k + d < 2 * Wrap
    BY <1>1, <1>5
<1> HIDE DEF k
<1>7. /\ Plus(k, d) \in Words
      /\ k + d < 0 => Plus(k, d) = k + d + Wrap
      /\ 0 <= k + d /\ k + d < Wrap => Plus(k, d) = k + d
      /\ Wrap <= k + d => Plus(k, d) = k + d - Wrap
    BY <1>5, <1>6, PlusIs
<1>8. Plus(k, d) = Plus(a, b + d)
    BY <1>1, <1>3, <1>4, <1>5, <1>7 DEF k, Words
<1> QED BY <1>8 DEF k

LEMMA PlusBack ==
    ASSUME NEW k \in Words, NEW d \in Int, -End <= d, d <= End
    PROVE  /\ Plus(k, -d) \in Words /\ Plus(Plus(k, -d), d) = k
           /\ k - d < 0 => Plus(k, -d) = k - d + Wrap
           /\ 0 <= k - d /\ k - d < Wrap => Plus(k, -d) = k - d
           /\ Wrap <= k - d => Plus(k, -d) = k - d - Wrap
<1>0. End \in Nat /\ End > 0 /\ Wrap = 4 * End /\ Wrap \in Nat
    BY EndIs
<1> DEFINE e == -d
<1>1. e \in -Wrap .. Wrap /\ e \in Int /\ -e = d /\ k + e = k - d
    BY <1>0 DEF Words
<1>2. k \in Int /\ 0 <= k /\ k < Wrap
    BY <1>0 DEF Words
<1> HIDE DEF e
<1>3. Plus(Plus(k, e), -e) = k
    BY <1>1, PlusOneToOne
<1>4. -Wrap <= k + e /\ k + e < 2 * Wrap
    BY <1>0, <1>1, <1>2
<1>5. /\ Plus(k, e) \in Words
      /\ k + e < 0 => Plus(k, e) = k + e + Wrap
      /\ 0 <= k + e /\ k + e < Wrap => Plus(k, e) = k + e
      /\ Wrap <= k + e => Plus(k, e) = k + e - Wrap
    BY <1>1, <1>2, <1>4, PlusIs
<1>6. /\ Plus(k, e) \in Words /\ Plus(Plus(k, e), d) = k
      /\ k - d < 0 => Plus(k, e) = k - d + Wrap
      /\ 0 <= k - d /\ k - d < Wrap => Plus(k, e) = k - d
      /\ Wrap <= k - d => Plus(k, e) = k - d - Wrap
    <2>1. Plus(Plus(k, e), d) = k
        BY <1>1, <1>3
    <2> QED BY <1>0, <1>1, <1>2, <1>5, <2>1
<1> QED BY <1>6 DEF e

(* A zone behind moves.                                                    *)
LEMMA MovesPlace ==
    ASSUME NEW I, NEW z \in ZonesWith(I), NEW o, Orderly(o), NEW q, NEW p, NEW h, NEW d,
           Slides(o, q, p, h, d), AnyOK(z, o), h <= z.low
    PROVE  /\ Moved(z, d) \in ZonesWith(I) /\ d \in -Wrap .. Wrap
           /\ Moved(z, d).low = z.low + d /\ Moved(z, d).high = z.high + d
           /\ z.low + d \in Nat /\ z.low + d > p /\ z.high + d \in Nat /\ z.high + d <= 3 * End
           /\ q[z.low + d] = o[z.low] /\ q[z.high + d] = o[z.high]
<1>1. /\ z.low \in Nat /\ z.high \in Nat /\ z.low <= z.high /\ z.low <= End /\ z.high <= 2 * End
      /\ z.low \in 0 .. Wrap /\ z.high \in 0 .. Wrap
    BY AnyBounds
<1>2. /\ p \in Nat /\ h \in Nat /\ d \in Int /\ -End <= d /\ d <= End /\ p < h + d
    BY DEF Slides
<1>3. d \in -Wrap .. Wrap
    BY <1>2, EndIs
<1>4. z.low + d \in Nat /\ z.low + d > p /\ z.high + d \in Nat /\ z.high + d <= 3 * End
    BY <1>1, <1>2, EndIs
<1>5. Plus(z.low, d) = z.low + d /\ Plus(z.high, d) = z.high + d
    <2>1. -Wrap <= z.low + d /\ z.low + d < Wrap /\ -Wrap <= z.high + d /\ z.high + d < Wrap /\ Wrap \in Nat
        BY <1>1, <1>2, <1>4, EndIs
    <2> QED BY <1>1, <1>2, <1>4, <2>1, PlusIs
<1>6. Moved(z, d) \in ZonesWith(I) /\ Moved(z, d).low = z.low + d /\ Moved(z, d).high = z.high + d
    BY <1>3, <1>5, MovedIs
<1>7. q[z.low + d] = o[z.low] /\ q[z.high + d] = o[z.high]
    <2>1. h <= z.high /\ z.low <= 2 * End
        BY <1>1, <1>2, EndIs
    <2> QED BY <1>1, <2>1 DEF Slides
<1> QED BY <1>3, <1>4, <1>6, <1>7

LEMMA MovesLabels ==
    ASSUME NEW I, NEW z \in ZonesWith(I), NEW o, Orderly(o), NEW q, NEW p, NEW h, NEW d,
           Slides(o, q, p, h, d), AnyOK(z, o), h <= z.low
    PROVE  Labelled(Moved(z, d), q)
<1> DEFINE m == Moved(z, d)
<1>0. End \in Nat /\ End > 0 /\ Wrap = 4 * End /\ Wrap \in Nat
    BY EndIs
<1>1. /\ d \in -Wrap .. Wrap
      /\ m.low = z.low + d /\ m.high = z.high + d
      /\ z.low + d \in Nat /\ z.low + d > p
      /\ q[z.low + d] = o[z.low] /\ q[z.high + d] = o[z.high]
    BY MovesPlace
<1>2. /\ z.low \in Nat /\ z.low <= End /\ o[z.low] \in Nat /\ o[z.high] \in Nat /\ o[z.high] <= End
      /\ z.low <= o[z.low]
    BY AnyBounds
<1>3. p \in Nat /\ d \in Int /\ -End <= d /\ d <= End
    BY DEF Slides
<1>4. m.labels = Shift(z.labels, d) /\ z.labels \in Maps(Labels)
    BY <1>1, MovedIs, ZoneFields
<1>5. /\ \A j \in Words : Plus(j, d) \in DOMAIN Shift(z.labels, d) <=> j \in DOMAIN z.labels
      /\ \A j \in DOMAIN z.labels : Shift(z.labels, d)[Plus(j, d)] = z.labels[j]
    BY <1>1, <1>4, ShiftIs
<1>6. ASSUME NEW k \in Words
      PROVE  /\ k \in DOMAIN m.labels <=>
                   m.low <= k /\ q[m.low] + (k - m.low) \in Labels /\ q[m.low] + (k - m.low) < q[m.high]
             /\ k \in DOMAIN m.labels => m.labels[k] = q[m.low] + (k - m.low)
    <2> DEFINE j == Plus(k, -d)
    <2>1. k \in Int /\ 0 <= k /\ k < Wrap
        BY <1>0 DEF Words
    <2>2. j \in Words /\ Plus(j, d) = k
        BY <1>3, PlusBack
    <2>3. /\ k - d < 0 => j = k - d + Wrap
          /\ 0 <= k - d /\ k - d < Wrap => j = k - d
          /\ Wrap <= k - d => j = k - d - Wrap
        BY <1>3, PlusBack
    <2>4. j \in Int /\ 0 <= j /\ j < Wrap
        BY <2>2, <1>0 DEF Words
    <2> HIDE DEF j, m
    <2>5. k \in DOMAIN m.labels <=> j \in DOMAIN z.labels
        BY <1>4, <1>5, <2>2
    <2>6. j \in DOMAIN z.labels => m.labels[k] = z.labels[j]
        BY <1>4, <1>5, <2>2
    <2>7. /\ j \in DOMAIN z.labels <=>
                z.low <= j /\ o[z.low] + (j - z.low) \in Labels /\ o[z.low] + (j - z.low) < o[z.high]
          /\ j \in DOMAIN z.labels => z.labels[j] = o[z.low] + (j - z.low)
        BY <2>2 DEF AnyOK, Labelled
    <2>8. CASE 0 <= k - d /\ k - d < Wrap
        <3>1. j = k - d
            BY <2>3, <2>8
        <3>2. /\ m.low <= k <=> z.low <= j
              /\ q[m.low] + (k - m.low) = o[z.low] + (j - z.low)
              /\ q[m.high] = o[z.high]
            BY <1>1, <1>2, <1>3, <2>1, <2>4, <3>1
        <3> QED BY <2>5, <2>6, <2>7, <3>2
    <2>9. CASE ~(0 <= k - d /\ k - d < Wrap)
        <3>1. ~(z.low <= j /\ o[z.low] + (j - z.low) < o[z.high])
            BY <1>0, <1>1, <1>2, <1>3, <2>1, <2>3, <2>4, <2>9
        <3>2. ~(m.low <= k /\ q[m.low] + (k - m.low) < q[m.high])
            BY <1>0, <1>1, <1>2, <1>3, <2>1, <2>9
        <3> QED BY <2>5, <2>6, <2>7, <3>1, <3>2
    <2> QED BY <2>8, <2>9
<1> QED BY <1>6 DEF Labelled

LEMMA MovesNotes ==
    ASSUME NEW I, NEW z \in ZonesWith(I), NEW o, Orderly(o), NEW q, NEW p, NEW h, NEW d,
           Slides(o, q, p, h, d), AnyOK(z, o), h <= z.low, NEW n, Noted(z, o, n)
    PROVE  Noted(Moved(z, d), q, n)
<1> DEFINE m == Moved(z, d)
<1>0. End \in Nat /\ End > 0 /\ Wrap = 4 * End /\ Wrap \in Nat
    BY EndIs
<1>1. /\ d \in -Wrap .. Wrap
      /\ m.low = z.low + d /\ m.high = z.high + d
      /\ q[z.low + d] = o[z.low] /\ q[z.high + d] = o[z.high]
    BY MovesPlace
<1>2. /\ z.low \in Nat /\ z.low <= End /\ o[z.low] \in Nat /\ o[z.high] \in Nat /\ o[z.high] <= End
      /\ z.low <= o[z.low] /\ o[z.low] <= o[z.high]
    BY AnyBounds
<1>3. p \in Nat /\ d \in Int /\ -End <= d /\ d <= End
    BY DEF Slides
<1>4. m.comments = Shift(z.comments, d) /\ z.comments \in Maps(Notes)
    BY <1>1, MovedIs, ZoneFields
<1>5. /\ \A j \in Words : Plus(j, d) \in DOMAIN Shift(z.comments, d) <=> j \in DOMAIN z.comments
      /\ \A j \in DOMAIN z.comments : Shift(z.comments, d)[Plus(j, d)] = z.comments[j]
    BY <1>1, <1>4, ShiftIs
<1> HIDE DEF m
<1>6. ASSUME NEW l \in 1 .. End - 1
      PROVE  /\ Place(m, q, l) \in DOMAIN m.comments <=> q[m.low] <= l /\ l < q[m.high] /\ l \in DOMAIN n
             /\ Place(m, q, l) \in DOMAIN m.comments => m.comments[Place(m, q, l)] = n[l]
    <2> DEFINE j == Place(z, o, l)
    <2>1. Place(m, q, l) = Plus(j, d) /\ j \in Words
        <3> DEFINE b == z.low - o[z.low]
        <3>1. b \in Int /\ -End <= b /\ b <= End /\ l - 1 \in Int /\ 0 <= l - 1 /\ l - 1 < End
            BY <1>0, <1>2
        <3>2. m.low - q[m.low] = b + d
            BY <1>1, <1>2, <1>3
        <3>3. j = Plus(l - 1, b) /\ Place(m, q, l) = Plus(l - 1, b + d)
            BY <3>2 DEF Place
        <3> HIDE DEF b, j
        <3>4. Plus(Plus(l - 1, b), d) = Plus(l - 1, b + d)
            BY <1>3, <3>1, PlusPlus
        <3>5. j \in Words
            BY <3>1, <3>3, PlusAny
        <3> QED BY <3>3, <3>4, <3>5
    <2>2. /\ j \in DOMAIN z.comments <=> o[z.low] <= l /\ l < o[z.high] /\ l \in DOMAIN n
          /\ j \in DOMAIN z.comments => z.comments[j] = n[l]
        BY DEF Noted
    <2> HIDE DEF j
    <2>3. Plus(j, d) \in DOMAIN m.comments <=> j \in DOMAIN z.comments
        BY <1>4, <1>5, <2>1
    <2>4. j \in DOMAIN z.comments => m.comments[Plus(j, d)] = z.comments[j]
        BY <1>4, <1>5
    <2> QED BY <1>1, <2>1, <2>2, <2>3, <2>4
<1>7. Noted(m, q, n)
    BY <1>6 DEF Noted
<1> QED BY <1>7 DEF m

LEMMA MovesLeaf ==
    ASSUME NEW I, NEW z \in ZonesWith(I), NEW o, Orderly(o), NEW q, NEW p, NEW h, NEW d,
           Slides(o, q, p, h, d), AnyOK(z, o), h <= z.low, NEW n, Leaf(z, o, n), Orderly(q)
    PROVE  AnyOK(Moved(z, d), q) /\ Leaf(Moved(z, d), q, n)
<1> DEFINE m == Moved(z, d)
<1>0. End \in Nat /\ End > 0 /\ Wrap = 4 * End /\ Wrap \in Nat
    BY EndIs
<1>1. /\ d \in -Wrap .. Wrap
      /\ m.low = z.low + d /\ m.high = z.high + d
      /\ z.low + d \in Nat /\ z.low + d > p
      /\ q[z.low + d] = o[z.low] /\ q[z.high + d] = o[z.high]
    BY MovesPlace
<1>2. /\ z.low \in Nat /\ z.high \in Nat /\ z.low <= z.high /\ z.low <= End /\ z.high <= 2 * End
      /\ Work(z) \in Nat /\ Work(z) <= End /\ o[z.low] \in Nat /\ o[z.high] \in Nat
    BY AnyBounds
<1>3. p \in Nat /\ h \in Nat /\ d \in Int /\ -End <= d /\ d <= End /\ p < h
      /\ (\A x \in 0 .. Wrap : h <= x /\ x <= 2 * End => q[x + d] = o[x]) /\ q[h + d - 1] < End
    BY DEF Slides
<1>4. m.collapsed = z.collapsed /\ m.workLow = z.workLow /\ m.workHigh = z.workHigh /\ m.named = z.named
      /\ m.asm = z.asm /\ m.inner = z.inner
    BY <1>1, MovedIs DEF SameButPlace
<1> HIDE DEF m
<1>5. Spread(m, q)
    <2>1. CASE z.collapsed
        BY <1>1, <1>2, <1>3, <1>4, <2>1, SMTT(60) DEF Leaf, Spread, Work
    <2>2. CASE ~z.collapsed
        <3>1. z.high - z.low = Work(z) /\ Straight(z, o)
            BY <2>2 DEF Leaf, Spread
        <3>2. ASSUME NEW x \in m.low .. m.high
              PROVE  q[x] = Cap(q[m.low] + (x - m.low))
            <4>1. x - d \in z.low .. z.high /\ x - d \in 0 .. Wrap /\ h <= x - d /\ x - d <= 2 * End
                  /\ (x - d) + d = x /\ (x - d) - z.low = x - m.low
                BY <1>0, <1>1, <1>2, <1>3
            <4>2. q[(x - d) + d] = o[x - d]
                BY <1>3, <4>1
            <4>3. o[x - d] = Cap(o[z.low] + ((x - d) - z.low))
                BY <3>1, <4>1 DEF Straight
            <4> QED BY <1>1, <4>1, <4>2, <4>3
        <3>3. m.high - m.low = Work(m)
            BY <1>1, <1>2, <1>3, <1>4, <3>1 DEF Work
        <3> QED BY <1>4, <2>2, <3>2, <3>3 DEF Spread, Straight
    <2> QED BY <2>1, <2>2
<1>6. m.low = 0 \/ q[m.low - 1] < End
    <2>1. CASE z.low = h
        BY <1>1, <1>3, <2>1
    <2>2. CASE z.low # h
        <3>1. z.low # 0 /\ h <= z.low - 1 /\ z.low - 1 <= 2 * End /\ z.low - 1 \in 0 .. Wrap
              /\ m.low - 1 = (z.low - 1) + d
            BY <1>0, <1>1, <1>2, <1>3, <2>2
        <3>2. q[(z.low - 1) + d] = o[z.low - 1]
            BY <1>3, <3>1
        <3> QED BY <3>1, <3>2 DEF AnyOK
    <2> QED BY <2>1, <2>2
<1>7. m.named => m.low < m.high /\ q[m.high - 1] < End
    <2> SUFFICES ASSUME z.named
                 PROVE  m.low < m.high /\ q[m.high - 1] < End
        BY <1>4
    <2>1. z.low < z.high /\ o[z.high - 1] < End
        BY DEF AnyOK
    <2>2. h <= z.high - 1 /\ z.high - 1 <= 2 * End /\ z.high - 1 \in 0 .. Wrap
          /\ m.high - 1 = (z.high - 1) + d
        BY <1>0, <1>1, <1>2, <1>3, <2>1
    <2>3. q[(z.high - 1) + d] = o[z.high - 1]
        BY <1>3, <2>2
    <2> QED BY <1>1, <1>2, <1>3, <2>1, <2>2, <2>3
<1>8. m.low <= m.high /\ m.high <= 2 * End
    <2>1. z.high <= z.low + End
        BY <1>0, <1>2, SMTT(60) DEF Leaf, Spread
    <2>2. m.low <= End
        <3>1. CASE m.low = 0
            BY <3>1, <1>0
        <3>2. CASE m.low # 0
            <4>1. m.low - 1 \in 0 .. Wrap /\ q[m.low - 1] < End
                BY <1>0, <1>1, <1>2, <1>3, <1>6, <3>2
            <4>2. q[m.low - 1] \in Nat /\ m.low - 1 <= q[m.low - 1]
                BY <1>0, <4>1, OriginIs
            <4> QED BY <1>0, <1>1, <4>1, <4>2
        <3> QED BY <3>1, <3>2
    <2> QED BY <1>0, <1>1, <1>2, <1>3, <2>1, <2>2
<1>9. AnyOK(m, q)
    <2>1. Labelled(m, q)
        BY MovesLabels DEF m
    <2>2. m.asm = Instr(q[m.low])
        BY <1>1, <1>4 DEF AnyOK
    <2>3. m.workLow <= m.workHigh /\ m.workHigh <= End
        BY <1>4 DEF AnyOK
    <2> QED BY <1>6, <1>7, <1>8, <2>1, <2>2, <2>3 DEF AnyOK
<1>10. Leaf(m, q, n)
    <2>1. Noted(m, q, n)
        BY MovesNotes DEF Leaf, m
    <2> QED BY <1>4, <1>5, <2>1 DEF Leaf
<1> QED BY <1>9, <1>10 DEF m

-----------------------------------------------------------------------------
(* The zone that is folded.                                                *)

\* How much a fold takes away or gives.
LEMMA ShrinksIs ==
    ASSUME NEW I, NEW z \in ZonesWith(I), NEW o, Orderly(o), AnyOK(z, o), NEW collapse \in BOOLEAN
    PROVE  /\ Shrinks(z, collapse) \in Int /\ -End <= Shrinks(z, collapse) /\ Shrinks(z, collapse) <= End
           /\ collapse => Shrinks(z, collapse) = 1 - Work(z)
           /\ ~collapse => Shrinks(z, collapse) = Work(z) - 1
<1>1. Work(z) \in Nat /\ Work(z) <= End /\ z.workLow \in Nat /\ z.workHigh \in Nat
    BY AnyBounds, ZoneFields
<1> QED BY <1>1, EndIs DEF Shrinks, Work

\* The folded zone says of the new listing what it said of the old.
LEMMA ToggledStays ==
    ASSUME NEW I, NEW z \in ZonesWith(I), NEW o, Orderly(o), NEW q, Orderly(q), NEW n, AnyOK(z, o), Leaf(z, o, n),
           NEW collapse \in BOOLEAN, Foldable(z, collapse),
           Slides(o, q, z.low, z.high, Shrinks(z, collapse)),
           ~collapse => \A x \in 0 .. Work(z) : q[z.low + x] = o[z.low] + x
    PROVE  LET t == Toggled(z, Shrinks(z, collapse))
           IN  /\ t \in ZonesWith(I) /\ AnyOK(t, q) /\ Leaf(t, q, n)
               /\ t.low = z.low /\ t.high = z.high + Shrinks(z, collapse) /\ t.named /\ t.collapsed = collapse
               /\ q[t.low] = o[z.low] /\ q[t.high] = o[z.high]
<1> DEFINE d == Shrinks(z, collapse)
           t == Toggled(z, d)
<1>0. End \in Nat /\ End > 0 /\ Wrap = 4 * End /\ Wrap \in Nat
    BY EndIs
<1>1. d \in Int /\ -End <= d /\ d <= End /\ (collapse => d = 1 - Work(z)) /\ (~collapse => d = Work(z) - 1)
    BY ShrinksIs
<1>2. /\ z.low \in Nat /\ z.high \in Nat /\ z.low <= z.high /\ z.low <= End /\ z.high <= 2 * End
      /\ z.low \in 0 .. Wrap /\ z.high \in 0 .. Wrap
      /\ o[z.low] \in Nat /\ o[z.high] \in Nat /\ o[z.high] <= End /\ Work(z) \in Nat /\ Work(z) <= End
    BY AnyBounds
<1>3. z.inner = <<>> /\ z.named /\ z.collapsed = ~collapse
    BY ZoneFields DEF Foldable
<1>4. t \in ZonesWith(I) /\ t.low = z.low /\ t.high = Plus(z.high, d) /\ t.labels = z.labels
      /\ t.comments = z.comments /\ t.collapsed = ~z.collapsed /\ t.workLow = z.workLow /\ t.workHigh = z.workHigh
      /\ t.named = z.named /\ t.asm = z.asm /\ t.inner = z.inner
    BY <1>1, ToggledIs DEF SameButPlace
<1>5. /\ z.low < z.high + d /\ q[z.high + d - 1] < End
      /\ (\A x \in 0 .. Wrap : x <= z.low => q[x] = o[x])
      /\ (\A x \in 0 .. Wrap : z.high <= x /\ x <= 2 * End => q[x + d] = o[x])
    BY DEF Slides
<1> HIDE DEF d, t
<1>6. t.high = z.high + d
    <2>1. -Wrap <= z.high + d /\ z.high + d < Wrap /\ 0 <= z.high + d
        BY <1>0, <1>1, <1>2, <1>5
    <2> QED BY <1>0, <1>1, <1>2, <1>4, <2>1, PlusIs
<1>7. q[t.low] = o[z.low] /\ q[t.high] = o[z.high]
    BY <1>2, <1>4, <1>5, <1>6
<1>8. Spread(z, o) /\ Noted(z, o, n) /\ Labelled(z, o)
    BY DEF Leaf, AnyOK
<1>9. Spread(t, q)
    <2>1. CASE collapse
        <3>1. z.high - z.low = Work(z) /\ Straight(z, o) /\ o[z.high - 1] < End /\ z.low < z.high
            BY <1>3, <1>8, <2>1 DEF Spread, AnyOK
        <3>2. t.high = z.low + 1
            BY <1>1, <1>2, <1>6, <2>1, <3>1
        <3>3. o[z.high] = o[z.low] + Work(z)
            <4>1. z.high - 1 \in z.low .. z.high /\ z.high \in z.low .. z.high
                BY <1>2, <3>1
            <4>2. o[z.high - 1] = Cap(o[z.low] + (z.high - 1 - z.low)) /\ o[z.high] = Cap(o[z.low] + (z.high - z.low))
                BY <3>1, <4>1 DEF Straight
            <4> QED BY <1>0, <1>2, <3>1, <4>2 DEF Cap
        <3>4. z.workLow < z.workHigh
            BY <1>2, <3>1, ZoneFields DEF Work
        <3>5. Work(t) = Work(z)
            BY <1>4 DEF Work
        <3> QED BY <1>3, <1>4, <1>7, <2>1, <3>2, <3>3, <3>4, <3>5 DEF Spread
    <2>2. CASE ~collapse
        <3>1. z.high = z.low + 1 /\ z.workLow < z.workHigh /\ o[z.high] = o[z.low] + Work(z)
            BY <1>3, <1>8, <2>2 DEF Spread
        <3>2. t.high = z.low + Work(z) /\ Work(t) = Work(z)
            BY <1>1, <1>2, <1>4, <1>6, <2>2, <3>1 DEF Work
        <3>3. ASSUME NEW x \in t.low .. t.high
              PROVE  q[x] = Cap(q[t.low] + (x - t.low))
            <4>1. x - z.low \in 0 .. Work(z) /\ x = z.low + (x - z.low)
                BY <1>2, <1>4, <3>2
            <4>2. q[x] = o[z.low] + (x - z.low)
                BY <2>2, <4>1
            <4> DEFINE y == x - z.low
            <4>3. y \in Int /\ 0 <= y /\ y <= Work(z)
                BY <1>2, <4>1
            <4>4. q[t.low] + (x - t.low) = o[z.low] + y /\ q[x] = o[z.low] + y
                BY <1>4, <1>7, <4>2
            <4> HIDE DEF y
            <4>5. o[z.low] + y <= End /\ o[z.low] + y \in Int
                BY <1>0, <1>2, <3>1, <4>3
            <4>6. Cap(o[z.low] + y) = o[z.low] + y
                BY <1>0, <4>5 DEF Cap
            <4> QED BY <4>4, <4>6
        <3>4. t.high - t.low = Work(t)
            BY <1>2, <1>4, <3>2
        <3> QED BY <1>3, <1>4, <2>2, <3>3, <3>4 DEF Spread, Straight
    <2> QED BY <2>1, <2>2
<1>10. Noted(t, q, n)
    BY <1>4, <1>7, <1>8 DEF Noted, Place
<1>11. Labelled(t, q)
    BY <1>4, <1>7, <1>8 DEF Labelled
<1>12. t.low = 0 \/ q[t.low - 1] < End
    <2>1. z.low # 0 => z.low - 1 \in 0 .. Wrap /\ z.low - 1 <= z.low
        BY <1>0, <1>2
    <2> QED BY <1>4, <1>5, <2>1 DEF AnyOK
<1>13. t.high <= 2 * End
    <2>1. Work(t) = Work(z) /\ t.high \in Int
        BY <1>1, <1>2, <1>4, <1>6 DEF Work
    <2>2. CASE t.collapsed
        <3>1. t.high = t.low + 1
            BY <1>9, <2>2 DEF Spread
        <3> QED BY <1>0, <1>2, <1>4, <3>1
    <2>3. CASE ~t.collapsed
        <3>1. t.high - t.low = Work(z)
            BY <1>9, <2>1, <2>3 DEF Spread
        <3> QED BY <1>0, <1>2, <1>4, <2>1, <3>1
    <2> QED BY <2>2, <2>3
<1>14. AnyOK(t, q)
    <2>1. t.low < t.high /\ t.low <= t.high /\ q[t.high - 1] < End
        BY <1>1, <1>2, <1>4, <1>5, <1>6
    <2>2. t.workLow <= t.workHigh /\ t.workHigh <= End
        BY <1>4 DEF AnyOK
    <2>3. t.asm = Instr(q[t.low])
        BY <1>4, <1>7 DEF AnyOK
    <2> QED BY <1>11, <1>12, <1>13, <2>1, <2>2, <2>3 DEF AnyOK
<1> QED BY <1>3, <1>4, <1>6, <1>7, <1>9, <1>10, <1>14 DEF Leaf, t, d

(* What the listing in sight becomes.                                      *)
Hides(S, T, a, b) == T = {l \in S : ~(a < l /\ l < b)}

\* What comes behind a zone slides when the zone is collapsed, and when it is expanded.
LEMMA CollapseSlides ==
    ASSUME NEW R, NEW Q, Folds(R), Folds(Q), NEW I, NEW z \in ZonesWith(I), NEW n,
           AnyOK(z, Origins(R)), Leaf(z, Origins(R), n), Foldable(z, TRUE),
           Hides(Seen(R), Seen(Q), Origins(R)[z.low], Origins(R)[z.high])
    PROVE  Slides(Origins(R), Origins(Q), z.low, z.high, Shrinks(z, TRUE))
<1> DEFINE o == Origins(R)
           q == Origins(Q)
           d == Shrinks(z, TRUE)
           a == o[z.low]
           b == o[z.high]
<1>0. End \in Nat /\ End > 0 /\ Wrap = 4 * End /\ Wrap \in Nat
    BY EndIs
<1>o. Orderly(o) /\ (\A x \in 0 .. Wrap : o[x] < End => o[x] \in Seen(R))
    BY OriginsOrderly
<1> HIDE DEF o, q, d
<1>1. d \in Int /\ -End <= d /\ d <= End /\ d = 1 - Work(z)
    BY <1>o, ShrinksIs DEF o, d
<1>2. /\ z.low \in Nat /\ z.high \in Nat /\ z.low <= z.high /\ z.low <= End /\ z.high <= 2 * End
      /\ z.low \in 0 .. Wrap /\ z.high \in 0 .. Wrap
      /\ a \in Nat /\ b \in Nat /\ b <= End /\ Work(z) \in Nat
    BY <1>o, AnyBounds DEF o
<1>3. z.high - z.low = Work(z) /\ Straight(z, o) /\ o[z.high - 1] < End /\ z.low < z.high
    BY ZoneFields DEF Foldable, Leaf, Spread, AnyOK, o
<1>4. b = a + Work(z)
    <2>1. z.high - 1 \in z.low .. z.high /\ z.high \in z.low .. z.high
        BY <1>2, <1>3
    <2>2. o[z.high - 1] = Cap(o[z.low] + (z.high - 1 - z.low)) /\ o[z.high] = Cap(o[z.low] + (z.high - z.low))
        BY <1>3, <2>1 DEF Straight
    <2> QED BY <1>0, <1>2, <1>3, <2>2 DEF Cap
<1>5. a < b
    BY <1>2, <1>3, <1>4
<1>6. ASSUME NEW l \in a .. b - 1
      PROVE  l \in Seen(R)
    <2>1. z.low + (l - a) \in z.low .. z.high /\ z.low + (l - a) \in 0 .. Wrap
        BY <1>0, <1>2, <1>3, <1>4
    <2>2. o[z.low + (l - a)] = Cap(a + ((z.low + (l - a)) - z.low))
        BY <1>3, <2>1 DEF Straight
    <2>3. o[z.low + (l - a)] = l /\ l < End
        BY <1>0, <1>2, <2>1, <2>2 DEF Cap
    <2> QED BY <1>o, <2>1, <2>3
<1>7. Squeezed(o, q, z.low, b - a - 1)
    <2>1. Seen(Q) = {l \in Seen(R) : ~(a < l /\ l < b)}
        BY DEF Hides, o
    <2>2. Origins(R)[z.low] = a
        BY DEF o
    <2> HIDE DEF a, b
    <2>3. Squeezed(Origins(R), Origins(Q), z.low, b - a - 1)
        BY <1>2, <1>5, <1>6, <2>1, <2>2, OriginsSqueezed
    <2> QED BY <2>3 DEF o, q
<1>8. \A x \in 0 .. Wrap : x <= z.low => q[x] = o[x]
    BY <1>7 DEF Squeezed
<1>9. ASSUME NEW x \in 0 .. Wrap, z.high <= x, x <= 2 * End
      PROVE  q[x + d] = o[x]
    <2>1. x + d \in 0 .. Wrap /\ x + d > z.low /\ (x + d) + (b - a - 1) = x /\ x <= Wrap
        BY <1>0, <1>1, <1>2, <1>3, <1>4, <1>9
    <2> QED BY <1>7, <2>1 DEF Squeezed
<1>10. z.high + d - 1 = z.low /\ q[z.low] = a
    BY <1>1, <1>2, <1>3, <1>8
<1>11. Slides(o, q, z.low, z.high, d)
    <2>1. a < End
        BY <1>0, <1>2, <1>5
    <2> QED BY <1>1, <1>2, <1>3, <1>8, <1>9, <1>10, <2>1 DEF Slides
<1> QED BY <1>11 DEF o, q, d

LEMMA ExpandSlides ==
    ASSUME NEW R, NEW Q, Folds(R), Folds(Q), NEW I, NEW z \in ZonesWith(I), NEW n,
           AnyOK(z, Origins(R)), Leaf(z, Origins(R), n), Foldable(z, FALSE),
           Hides(Seen(Q), Seen(R), Origins(R)[z.low], Origins(R)[z.high]),
           \A l \in Origins(R)[z.low] .. Origins(R)[z.high] - 1 : l \in Seen(Q)
    PROVE  /\ Slides(Origins(R), Origins(Q), z.low, z.high, Shrinks(z, FALSE))
           /\ \A x \in 0 .. Work(z) : Origins(Q)[z.low + x] = Origins(R)[z.low] + x
<1> DEFINE o == Origins(R)
           q == Origins(Q)
           d == Shrinks(z, FALSE)
           a == o[z.low]
           b == o[z.high]
           S == Seen(Q)
           T == Seen(R)
           W == Work(z)
<1>0. End \in Nat /\ End > 0 /\ Wrap = 4 * End /\ Wrap \in Nat
    BY EndIs
<1>o. Orderly(o)
    BY OriginsOrderly
<1>s. /\ S \in Sights /\ T \in Sights
      /\ \A x \in 0 .. Wrap : o[x] = Nth(T, x) /\ q[x] = Nth(S, x)
      /\ T = {l \in S : ~(a < l /\ l < b)} /\ (\A l \in a .. b - 1 : l \in S)
    BY SeenIs DEF Hides, Origins
<1> HIDE DEF o, q, d, S, T, W
<1>1. d \in Int /\ -End <= d /\ d <= End /\ d = W - 1
    BY <1>o, ShrinksIs DEF o, d, W
<1>2. /\ z.low \in Nat /\ z.high \in Nat /\ z.low <= z.high /\ z.low <= End /\ z.high <= 2 * End
      /\ z.low \in 0 .. Wrap /\ z.high \in 0 .. Wrap
      /\ a \in Nat /\ b \in Nat /\ b <= End /\ W \in Nat /\ W <= End
    BY <1>o, AnyBounds DEF o, W
<1>3. z.high = z.low + 1 /\ W > 0 /\ b = a + W
    <2>1. z.high = z.low + 1 /\ z.workLow < z.workHigh /\ o[z.high] = o[z.low] + Work(z)
        BY ZoneFields DEF Foldable, Leaf, Spread, o
    <2>2. z.workLow \in Nat /\ z.workHigh \in Nat
        BY ZoneFields
    <2>3. W > 0
        BY <2>1, <2>2 DEF W, Work
    <2>4. b = a + W
        BY <2>1 DEF W
    <2> QED BY <2>1, <2>3, <2>4
<1>4. a < b /\ a < End
    BY <1>0, <1>2, <1>3
<1>5. a \in T /\ a \in S /\ Rank(T, a) = z.low
    <2>1. a = Nth(T, z.low)
        BY <1>2, <1>s
    <2>2. a \in T /\ Rank(T, a) = z.low
        <3>1. Nth(T, z.low) < End => Nth(T, z.low) \in T /\ Rank(T, Nth(T, z.low)) = z.low
            BY <1>2, <1>s, NthIs
        <3> HIDE DEF a
        <3> QED BY <1>4, <2>1, <3>1
    <2> QED BY <1>s, <2>2
<1>6. Rank(S, a) = z.low
    <2>1. \A m \in S : m \in Nat
        BY <1>0, <1>s DEF Sights
    <2>2. {m \in S : m < a} = {m \in T : m < a}
        <3>1. \A m \in S : m < a => m \in T
            BY <1>2, <1>s, <2>1
        <3>2. \A m \in T : m \in S
            BY <1>s
        <3> QED BY <3>1, <3>2
    <2> QED BY <1>5, <2>2 DEF Rank
<1>7. 0 .. W \subseteq {i \in Nat : i <= W => Rank(S, a + i) = z.low + i}
    <2> DEFINE B == {i \in Nat : i <= W => Rank(S, a + i) = z.low + i}
    <2>1. 0 \in B
        BY <1>2, <1>6
    <2>2. ASSUME NEW i \in 1 .. W, i - 1 \in B
          PROVE  i \in B
        <3>1. Rank(S, a + (i - 1)) = z.low + (i - 1)
            BY <1>2, <2>2
        <3>2. a + (i - 1) \in a .. b - 1 /\ a + (i - 1) \in Nat /\ (a + (i - 1)) + 1 = a + i
            BY <1>2, <1>3
        <3>3. Rank(S, (a + (i - 1)) + 1) = Rank(S, a + (i - 1)) + 1
            <4>1. a + (i - 1) \in S
                BY <1>s, <3>2
            <4> QED BY <1>s, <3>2, <4>1, RankNext
        <3>4. Rank(S, a + i) = z.low + i
            BY <1>2, <3>1, <3>2, <3>3
        <3> QED BY <3>4
    <2> HIDE DEF B
    <2>3. 0 .. W \subseteq B
        BY <1>2, <2>1, <2>2, UpTo
    <2> QED BY <2>3 DEF B
<1>8. ASSUME NEW x \in 0 .. W, x < W
      PROVE  q[z.low + x] = a + x
    <2>1. a + x \in S /\ z.low + x \in 0 .. Wrap /\ z.low + x \in Nat
        <3>1. a + x \in a .. b - 1
            BY <1>2, <1>3, <1>8
        <3> QED BY <1>0, <1>2, <1>s, <3>1
    <2>2. Rank(S, a + x) = z.low + x
        BY <1>2, <1>7
    <2>3. Nth(S, z.low + x) = a + x
        BY <1>s, <2>1, <2>2, NthIs
    <2> QED BY <1>s, <2>1, <2>3
<1>9. q[z.low] = a
    <2>1. 0 \in 0 .. W /\ 0 < W /\ z.low + 0 = z.low /\ a + 0 = a
        BY <1>2, <1>3
    <2>2. q[z.low + 0] = a + 0
        BY <1>8, <2>1
    <2> QED BY <2>1, <2>2
<1>10. Squeezed(q, o, z.low, b - a - 1)
    <2>1. Origins(Q)[z.low] = a
        BY <1>9 DEF q
    <2>2. Seen(R) = {l \in Seen(Q) : ~(a < l /\ l < b)} /\ (\A l \in a .. b - 1 : l \in Seen(Q))
        BY <1>s DEF S, T
    <2> HIDE DEF a, b
    <2>3. Squeezed(Origins(Q), Origins(R), z.low, b - a - 1)
        BY <1>2, <1>4, <2>1, <2>2, OriginsSqueezed
    <2> QED BY <2>3 DEF o, q
<1>11. \A x \in 0 .. Wrap : x <= z.low => q[x] = o[x]
    BY <1>10 DEF Squeezed
<1>12. ASSUME NEW x \in 0 .. Wrap, z.high <= x, x <= 2 * End
       PROVE  q[x + d] = o[x]
    <2>1. x > z.low /\ x + (b - a - 1) = x + d /\ x + (b - a - 1) <= Wrap
        BY <1>0, <1>1, <1>2, <1>3, <1>12
    <2> QED BY <1>10, <2>1 DEF Squeezed
<1>13. q[z.low + W] = a + W
    <2>1. z.high <= z.high /\ z.high + d = z.low + W
        BY <1>1, <1>2, <1>3
    <2> QED BY <1>2, <1>3, <1>12, <2>1
<1>14. \A x \in 0 .. W : q[z.low + x] = a + x
    <2>1. \A x \in 0 .. W : x < W \/ x = W
        BY <1>2
    <2> QED BY <1>8, <1>13, <2>1
<1>15. q[z.high + d - 1] < End
    <2>1. W - 1 \in 0 .. W /\ W - 1 < W /\ z.high + d - 1 = z.low + (W - 1)
        BY <1>1, <1>2, <1>3
    <2>2. q[z.low + (W - 1)] = a + (W - 1)
        BY <1>8, <2>1
    <2> QED BY <1>0, <1>2, <1>3, <2>1, <2>2
<1>16. Slides(o, q, z.low, z.high, d)
    <2>1. z.low < z.high + d /\ z.low < z.high
        BY <1>1, <1>2, <1>3
    <2> QED BY <1>1, <1>2, <1>11, <1>12, <1>15, <2>1 DEF Slides
<1> QED BY <1>14, <1>16 DEF o, q, d, W

-----------------------------------------------------------------------------
(* The zones of a listing: each has its spot.                              *)

\* A list of zones that is the listing; its zones by their places; and the ranges of R are
\* those of its named zones.
Sound(z, o, n) == AnyOK(z, o) /\ (Leaf(z, o, n) \/ Parent(z, o, n))
Laid(zs, o, n) ==
    /\ zs # <<>> /\ Chain(zs, 0, zs[Len(zs)].high) /\ o[zs[Len(zs)].high] = End
    /\ \A i \in 1 .. Len(zs) : Sound(zs[i], o, n)

Spots(zs) == {c \in Nat \X Nat : c[1] \in 1 .. Len(zs) /\ c[2] \in 0 .. Len(zs[c[1]].inner)}
Spot(zs, c) == IF c[2] = 0 THEN zs[c[1]] ELSE zs[c[1]].inner[c[2]]

RangeOf(z, o) == [from |-> o[z.low], to |-> o[z.high], folded |-> z.collapsed]
IsSpan(r, zs, o) == \E c \in Spots(zs) : Spot(zs, c).named /\ r = RangeOf(Spot(zs, c), o)
Spanned(R, zs, o) == \A r : r \in R <=> IsSpan(r, zs, o)

LEMMA ChainBounds ==
    ASSUME NEW zs \in Seq(ZoneType), NEW low, NEW high, Chain(zs, low, high),
           \A i \in 1 .. Len(zs) : zs[i].low <= zs[i].high, NEW j \in 1 .. Len(zs)
    PROVE  low <= zs[j].low /\ zs[j].high <= high /\ Ordered(zs)
<1>1. Ordered(zs)
    BY ChainOrdered
<1>2. 1 \in 1 .. Len(zs) /\ Len(zs) \in 1 .. Len(zs)
    OBVIOUS
<1>3. zs[1].low = low /\ zs[Len(zs)].high = high
    BY DEF Chain
<1>4. /\ zs[j].low \in Nat /\ zs[j].high \in Nat /\ zs[1].low \in Nat /\ zs[1].high \in Nat
      /\ zs[Len(zs)].low \in Nat /\ zs[Len(zs)].high \in Nat
    BY <1>2, ZoneIs
<1>5. low <= zs[j].low
    <2>1. CASE j = 1
        BY <1>3, <1>4, <2>1
    <2>2. CASE j # 1
        <3>1. 1 < j
            BY <2>2
        <3>2. zs[1].high <= zs[j].low /\ zs[1].low <= zs[1].high
            BY <1>1, <1>2, <3>1 DEF Ordered
        <3> QED BY <1>3, <1>4, <3>2
    <2> QED BY <2>1, <2>2
<1>6. zs[j].high <= high
    <2>1. CASE j = Len(zs)
        BY <1>3, <1>4, <2>1
    <2>2. CASE j # Len(zs)
        <3>1. j < Len(zs)
            BY <2>2
        <3>2. zs[j].high <= zs[Len(zs)].low /\ zs[Len(zs)].low <= zs[Len(zs)].high
            BY <1>1, <1>2, <3>1 DEF Ordered
        <3> QED BY <1>3, <1>4, <3>2
    <2> QED BY <2>1, <2>2
<1> QED BY <1>1, <1>5, <1>6

LEMMA InnerBounds ==
    ASSUME NEW z \in ZoneType, NEW o, NEW n, Parent(z, o, n)
    PROVE  /\ z.inner \in Seq(LeafType) /\ z.inner \in Seq(ZoneType) /\ Ordered(z.inner)
           /\ \A j \in 1 .. Len(z.inner) :
                /\ z.inner[j] \in LeafType /\ z.inner[j] \in ZoneType
                /\ AnyOK(z.inner[j], o) /\ Leaf(z.inner[j], o, n)
                /\ z.low <= z.inner[j].low /\ z.inner[j].high <= z.high
<1>1. z.inner \in Seq(LeafType) /\ z.inner \in Seq(ZoneType)
    BY LeafLists DEF ZoneType, ZonesWith
<1>2. Chain(z.inner, z.low, z.high) /\ \A j \in 1 .. Len(z.inner) : Part(z.inner[j], z, o, n)
    BY DEF Parent
<1>3. \A j \in 1 .. Len(z.inner) : AnyOK(z.inner[j], o) /\ Leaf(z.inner[j], o, n)
    BY <1>2 DEF Part
<1>4. \A j \in 1 .. Len(z.inner) : z.inner[j].low <= z.inner[j].high
    BY <1>3 DEF AnyOK
<1>5. Ordered(z.inner)
    BY <1>1, <1>2, <1>4, ChainOrdered
<1>6. \A j \in 1 .. Len(z.inner) : z.low <= z.inner[j].low /\ z.inner[j].high <= z.high
    BY <1>1, <1>2, <1>4, ChainBounds
<1>7. \A j \in 1 .. Len(z.inner) : z.inner[j] \in LeafType /\ z.inner[j] \in ZoneType
    BY <1>1
<1> QED BY <1>1, <1>3, <1>5, <1>6, <1>7

\* What a listing says of each of its zones.
LEMMA LaidIs ==
    ASSUME NEW zs \in Seq(ZoneType), NEW o, NEW n, Laid(zs, o, n)
    PROVE  /\ Ordered(zs) /\ InnerOrdered(zs) /\ Len(zs) \in 1 .. Len(zs)
           /\ \A i \in 1 .. Len(zs) : zs[i] \in ZoneType /\ AnyOK(zs[i], o)
                                      /\ (zs[i].inner = <<>> => Leaf(zs[i], o, n))
                                      /\ (zs[i].inner # <<>> => Parent(zs[i], o, n))
<1>1. \A i \in 1 .. Len(zs) : zs[i] \in ZoneType /\ Sound(zs[i], o, n)
    BY DEF Laid
<1>2. \A i \in 1 .. Len(zs) : zs[i].low <= zs[i].high
    BY <1>1 DEF Sound, AnyOK
<1>3. Ordered(zs)
    BY <1>2, ChainOrdered DEF Laid
<1>4. \A i \in 1 .. Len(zs) : AnyOK(zs[i], o) /\ (zs[i].inner = <<>> => Leaf(zs[i], o, n))
                              /\ (zs[i].inner # <<>> => Parent(zs[i], o, n))
    BY <1>1 DEF Sound, Leaf, Parent
<1>5. ASSUME NEW i \in 1 .. Len(zs)
      PROVE  Ordered(zs[i].inner)
    <2>1. CASE zs[i].inner = <<>>
        BY <2>1 DEF Ordered
    <2>2. CASE zs[i].inner # <<>>
        BY <1>1, <1>4, <2>2, InnerBounds
    <2> QED BY <2>1, <2>2
<1>6. Len(zs) \in 1 .. Len(zs)
    BY DEF Laid
<1> QED BY <1>1, <1>3, <1>4, <1>5, <1>6 DEF InnerOrdered

LEMMA SpotIs ==
    ASSUME NEW zs \in Seq(ZoneType), NEW o, Orderly(o), NEW n, Laid(zs, o, n), NEW c \in Spots(zs)
    PROVE  LET z == Spot(zs, c)
           IN  /\ c[1] \in 1 .. Len(zs) /\ c[2] \in 0 .. Len(zs[c[1]].inner)
               /\ z \in ZoneType /\ AnyOK(z, o)
               /\ z.inner = <<>> => Leaf(z, o, n)
               /\ c[2] # 0 => z \in LeafType /\ z.inner = <<>> /\ Parent(zs[c[1]], o, n)
               /\ zs[c[1]].low <= z.low /\ z.high <= zs[c[1]].high
<1> DEFINE z == Spot(zs, c)
<1>1. c[1] \in 1 .. Len(zs) /\ c[2] \in 0 .. Len(zs[c[1]].inner)
    BY DEF Spots
<1>2. zs[c[1]] \in ZoneType /\ AnyOK(zs[c[1]], o) /\ (zs[c[1]].inner = <<>> => Leaf(zs[c[1]], o, n))
      /\ (zs[c[1]].inner # <<>> => Parent(zs[c[1]], o, n))
    BY <1>1, LaidIs
<1>3. CASE c[2] = 0
    <2>1. z = zs[c[1]]
        BY <1>3 DEF Spot
    <2>2. zs[c[1]].low \in Nat /\ zs[c[1]].high \in Nat
        BY <1>1, ZoneIs
    <2> HIDE DEF z
    <2>3. c[2] # 0 => z \in LeafType /\ z.inner = <<>> /\ Parent(zs[c[1]], o, n)
        BY <1>3
    <2>4. zs[c[1]].low <= z.low /\ z.high <= zs[c[1]].high
        BY <2>1, <2>2
    <2> QED BY <1>1, <1>2, <2>1, <2>3, <2>4 DEF z
<1>4. CASE c[2] # 0
    <2>1. z = zs[c[1]].inner[c[2]]
        BY <1>4 DEF Spot
    <2>2. zs[c[1]].inner \in Seq(LeafType)
        BY <1>2 DEF ZoneType, ZonesWith
    <2>3. zs[c[1]].inner # <<>> /\ c[2] \in 1 .. Len(zs[c[1]].inner)
        BY <1>1, <1>4, <2>2
    <2>4. Parent(zs[c[1]], o, n)
        BY <1>2, <2>3
    <2> HIDE DEF z
    <2>5. z \in LeafType /\ z \in ZoneType /\ AnyOK(z, o) /\ Leaf(z, o, n)
          /\ zs[c[1]].low <= z.low /\ z.high <= zs[c[1]].high
        BY <1>2, <2>1, <2>3, <2>4, InnerBounds
    <2>6. z.inner = <<>>
        BY <2>5 DEF Leaf
    <2> QED BY <1>1, <2>4, <2>5, <2>6 DEF z
<1> QED BY <1>3, <1>4

(* Two zones lie apart, unless one is inside the other.                    *)
LEMMA SpotsLie ==
    ASSUME NEW zs \in Seq(ZoneType), NEW o, Orderly(o), NEW n, Laid(zs, o, n),
           NEW c \in Spots(zs), NEW t \in Spots(zs), c # t, Spot(zs, t).inner = <<>>
    PROVE  \/ Spot(zs, c).high <= Spot(zs, t).low
           \/ Spot(zs, t).high <= Spot(zs, c).low
           \/ c[1] = t[1] /\ c[2] = 0 /\ t[2] # 0
<1> DEFINE y == Spot(zs, c)
           z == Spot(zs, t)
           i == c[1]
           k == t[1]
<1>1. /\ i \in 1 .. Len(zs) /\ c[2] \in 0 .. Len(zs[i].inner) /\ y \in ZoneType /\ AnyOK(y, o)
      /\ zs[i].low <= y.low /\ y.high <= zs[i].high
    BY SpotIs
<1>2. /\ k \in 1 .. Len(zs) /\ t[2] \in 0 .. Len(zs[k].inner) /\ z \in ZoneType /\ AnyOK(z, o)
      /\ zs[k].low <= z.low /\ z.high <= zs[k].high
    BY SpotIs
<1>3. /\ y.low \in Nat /\ y.high \in Nat /\ z.low \in Nat /\ z.high \in Nat
      /\ zs[i].low \in Nat /\ zs[i].high \in Nat /\ zs[k].low \in Nat /\ zs[k].high \in Nat
    <2>1. y.low \in Nat /\ y.high \in Nat /\ z.low \in Nat /\ z.high \in Nat
        BY <1>1, <1>2, ZoneFields DEF ZoneType
    <2>2. zs[i].low \in Nat /\ zs[i].high \in Nat /\ zs[k].low \in Nat /\ zs[k].high \in Nat
        BY <1>1, <1>2, ZoneIs
    <2> QED BY <2>1, <2>2
<1>4. CASE i # k
    <2>1. zs[i].high <= zs[k].low \/ zs[k].high <= zs[i].low
        <3>1. Ordered(zs) /\ (i < k \/ k < i)
            BY <1>1, <1>2, <1>4, LaidIs
        <3> HIDE DEF i, k
        <3>2. CASE i < k
            BY <1>1, <1>2, <3>1, <3>2 DEF Ordered
        <3>3. CASE k < i
            BY <1>1, <1>2, <3>1, <3>3 DEF Ordered
        <3> QED BY <3>1, <3>2, <3>3
    <2>2. \/ y.high <= z.low
          \/ z.high <= y.low
        <3>1. zs[i].low <= y.low /\ y.high <= zs[i].high
            BY <1>1
        <3>2. zs[k].low <= z.low /\ z.high <= zs[k].high
            BY <1>2
        <3> DEFINE il == zs[i].low  ih == zs[i].high  kl == zs[k].low  kh == zs[k].high
                   yl == y.low  yh == y.high  zl == z.low  zh == z.high
        <3>3. il <= yl /\ yh <= ih /\ kl <= zl /\ zh <= kh /\ (ih <= kl \/ kh <= il)
            BY <3>1, <3>2, <2>1
        <3>4. il \in Nat /\ ih \in Nat /\ kl \in Nat /\ kh \in Nat /\ yl \in Nat /\ yh \in Nat /\ zl \in Nat /\ zh \in Nat
            BY <1>3
        <3>5. yh <= zl \/ zh <= yl
            <4> HIDE DEF il, ih, kl, kh, yl, yh, zl, zh
            <4> QED BY <3>3, <3>4
        <3> QED BY <3>5
    <2> QED BY <2>2
<1>5. CASE i = k
    <2>1. c \in Nat \X Nat /\ t \in Nat \X Nat
        BY DEF Spots
    <2>2. c[2] # t[2]
        BY <1>5, <2>1
    <2>3. CASE t[2] = 0
        <3>1. z = zs[k] /\ zs[k].inner = <<>>
            BY <2>3 DEF Spot
        <3>2. c[2] = 0
            BY <1>1, <1>5, <3>1
        <3> QED BY <2>2, <2>3, <3>2
    <2>4. CASE t[2] # 0 /\ c[2] = 0
        BY <1>5, <2>4
    <2>5. CASE t[2] # 0 /\ c[2] # 0
        <3>1. Parent(zs[k], o, n)
            BY <2>5, SpotIs
        <3>2. Ordered(zs[k].inner)
            BY <1>2, <3>1, InnerBounds
        <3>3. y = zs[k].inner[c[2]] /\ z = zs[k].inner[t[2]]
            BY <1>5, <2>5 DEF Spot
        <3>4. c[2] \in 1 .. Len(zs[k].inner) /\ t[2] \in 1 .. Len(zs[k].inner) /\ (c[2] < t[2] \/ t[2] < c[2])
            BY <1>1, <1>2, <1>5, <2>2, <2>5
        <3>5. y.high <= z.low \/ z.high <= y.low
            <4> HIDE DEF y, z
            <4> QED BY <3>2, <3>3, <3>4 DEF Ordered
        <3> QED BY <3>5
    <2> QED BY <2>3, <2>4, <2>5
<1> QED BY <1>4, <1>5

\* Named zones differ in where they begin or end.
LEMMA SpanTells ==
    ASSUME NEW I, NEW y \in ZonesWith(I), NEW J, NEW z \in ZonesWith(J), NEW o, Orderly(o),
           AnyOK(y, o), AnyOK(z, o), y.named, z.named
    PROVE  /\ o[y.low] = o[z.low] => y.low = z.low
           /\ o[y.high] = o[z.high] => y.high = z.high
<1> DEFINE a == y.low  b == y.high  c == z.low  d == z.high
<1>1. a \in Nat /\ b \in Nat /\ b \in 0 .. Wrap /\ a \in 0 .. Wrap /\ a < b /\ o[b - 1] < End
    BY AnyBounds DEF AnyOK
<1>2. c \in Nat /\ d \in Nat /\ c \in 0 .. Wrap /\ d \in 0 .. Wrap /\ c < d /\ o[d - 1] < End
    BY AnyBounds DEF AnyOK
<1> HIDE DEF a, b, c, d
<1>3. b - 1 \in 0 .. Wrap /\ d - 1 \in 0 .. Wrap
    BY <1>1, <1>2, EndIs
<1>4. o[a] \in Nat /\ o[c] \in Nat /\ o[b] \in Nat /\ o[d] \in Nat /\ o[b - 1] \in Nat /\ o[d - 1] \in Nat
    BY <1>1, <1>2, <1>3, OriginIs
<1>5. o[a] < End /\ o[c] < End
    <2>1. o[a] <= o[b - 1]
        BY <1>1, <1>3, OriginsGrow
    <2>2. o[c] <= o[d - 1]
        BY <1>2, <1>3, OriginsGrow
    <2> QED BY <1>1, <1>2, <1>4, <2>1, <2>2, EndIs
<1>6. o[a] = o[c] => a = c
    <2>1. a < c => o[a] < o[c] \/ o[c] = End
        BY <1>1, <1>2, OriginsGrow
    <2>2. c < a => o[c] < o[a] \/ o[a] = End
        BY <1>1, <1>2, OriginsGrow
    <2> QED BY <1>1, <1>2, <1>4, <1>5, <2>1, <2>2, EndIs
<1>7. o[b] = o[d] => b = d
    <2>1. ASSUME b < d, o[b] = o[d]
          PROVE  FALSE
        <3>1. o[b] <= o[d - 1]
            BY <1>1, <1>2, <1>3, <2>1, OriginsGrow
        <3>2. o[b] < o[d] \/ o[d] = End
            BY <1>1, <1>2, <2>1, OriginsGrow
        <3> QED BY <1>2, <1>4, <2>1, <3>1, <3>2, EndIs
    <2>2. ASSUME d < b, o[b] = o[d]
          PROVE  FALSE
        <3>1. o[d] <= o[b - 1]
            BY <1>1, <1>2, <1>3, <2>2, OriginsGrow
        <3>2. o[d] < o[b] \/ o[b] = End
            BY <1>1, <1>2, <2>2, OriginsGrow
        <3> QED BY <1>1, <1>4, <2>2, <3>1, <3>2, EndIs
    <2> QED BY <1>1, <1>2, <2>1, <2>2
<1> QED BY <1>6, <1>7 DEF a, b, c, d

LEMMA SpotType ==
    ASSUME NEW zs \in Seq(ZoneType), NEW c \in Spots(zs)
    PROVE  Spot(zs, c) \in ZoneType
<1>1. c[1] \in 1 .. Len(zs) /\ c[2] \in 0 .. Len(zs[c[1]].inner)
    BY DEF Spots
<1>2. zs[c[1]] \in ZoneType
    BY <1>1
<1>3. CASE c[2] = 0
    BY <1>2, <1>3 DEF Spot
<1>4. CASE c[2] # 0
    <2>1. zs[c[1]].inner \in Seq(LeafType)
        BY <1>2 DEF ZoneType, ZonesWith
    <2>2. c[2] \in 1 .. Len(zs[c[1]].inner)
        BY <1>1, <1>4, <2>1
    <2>3. zs[c[1]].inner[c[2]] \in LeafType
        BY <2>1, <2>2
    <2> QED BY <1>4, <2>3, LeavesAreZones DEF Spot
<1> QED BY <1>3, <1>4

\* What the zones of a listing span are parts of it.
LEMMA SpansFold ==
    ASSUME NEW zs \in Seq(ZoneType), NEW R, Spanned(R, zs, Origins(R))
    PROVE  Folds(R) /\ Orderly(Origins(R))
<1>1. Seen(R) \in Sights
    BY DEF Seen, Sights
<1>2. ASSUME NEW x \in 0 .. Wrap
      PROVE  Origins(R)[x] \in Nat
    <2>1. x \in Nat
        BY <1>2, EndIs
    <2>2. Nth(Seen(R), x) \in 0 .. End
        BY <1>1, <2>1, NthIs
    <2> QED BY <1>2, <2>2, EndIs DEF Origins
<1>3. ASSUME NEW r \in R
      PROVE  r.from \in Nat
    <2>1. PICK c \in Spots(zs) : r = RangeOf(Spot(zs, c), Origins(R))
        BY <1>3 DEF Spanned, IsSpan
    <2>2. Spot(zs, c).low \in 0 .. Wrap
        BY SpotType DEF ZoneType, ZonesWith, Coords
    <2> QED BY <1>2, <2>1, <2>2 DEF RangeOf
<1>4. Folds(R)
    BY <1>3 DEF Folds
<1> QED BY <1>4, OriginsOrderly

\* A zone with zones inside stays sound where the listing did not change.
LEMMA StaysParent ==
    ASSUME NEW z \in ZoneType, NEW o, Orderly(o), NEW q, NEW n, Parent(z, o, n), SameTo(o, q, z.high)
    PROVE  Parent(z, q, n)
<1>1. ASSUME NEW j \in 1 .. Len(z.inner)
      PROVE  Part(z.inner[j], z, q, n)
    <2> DEFINE y == z.inner[j]
    <2>1. y \in ZoneType /\ AnyOK(y, o) /\ Leaf(y, o, n) /\ y.high <= z.high
        BY <1>1, InnerBounds
    <2>2. y.named => ~(y.low = z.low /\ y.high = z.high)
        BY <1>1 DEF Parent, Part
    <2>3. y.high \in Nat /\ z.high \in Nat
        BY <2>1, ZoneFields DEF ZoneType
    <2> HIDE DEF y
    <2>4. SameTo(o, q, y.high)
        BY <2>1, <2>3, EndIs DEF SameTo
    <2>5. y \in ZonesWith(Seq(LeafType))
        BY <2>1 DEF ZoneType
    <2>6. AnyOK(y, q) /\ Leaf(y, q, n)
        BY <2>1, <2>4, <2>5, StaysAny
    <2>7. Part(y, z, q, n)
        BY <2>2, <2>6 DEF Part
    <2> QED BY <2>7 DEF y
<1> QED BY <1>1 DEF Parent

LEMMA MovedZero ==
    ASSUME NEW z \in ZoneType, z.low < Wrap, z.high < Wrap
    PROVE  Moved(z, 0) = z
<1>1. 0 \in -Wrap .. Wrap /\ z \in ZonesWith(Seq(LeafType))
    BY EndIs DEF ZoneType
<1>2. z.low \in Nat /\ z.high \in Nat /\ z.labels \in Maps(Labels) /\ z.comments \in Maps(Notes)
    BY <1>1, ZoneFields
<1>3. Plus(z.low, 0) = z.low /\ Plus(z.high, 0) = z.high
    <2>1. z.low + 0 = z.low /\ z.high + 0 = z.high
        BY <1>2
    <2>2. -Wrap <= z.low + 0 /\ z.low + 0 < 2 * Wrap /\ -Wrap <= z.high + 0 /\ z.high + 0 < 2 * Wrap
        BY <1>2, EndIs
    <2> QED BY <1>2, <2>1, <2>2, PlusIs
<1>4. ASSUME NEW X, NEW f \in Maps(X)
      PROVE  Shift(f, 0) = f
    <2>1. ASSUME NEW j \in Words
          PROVE  Plus(j, 0) = j
        <3>1. j \in Int /\ 0 <= j + 0 /\ j + 0 < Wrap /\ j + 0 = j /\ -Wrap <= j + 0 /\ j + 0 < 2 * Wrap
            BY EndIs DEF Words
        <3> QED BY <3>1, PlusIs
    <2>2. /\ Shift(f, 0) \in Maps(X)
          /\ \A j \in Words : Plus(j, 0) \in DOMAIN Shift(f, 0) <=> j \in DOMAIN f
          /\ \A j \in DOMAIN f : Shift(f, 0)[Plus(j, 0)] = f[j]
        BY <1>1, ShiftIs
    <2>3. DOMAIN f \subseteq Words /\ DOMAIN Shift(f, 0) \subseteq Words
        BY <2>2, MapIs
    <2>4. DOMAIN Shift(f, 0) = DOMAIN f /\ \A j \in DOMAIN f : Shift(f, 0)[j] = f[j]
        BY <2>1, <2>2, <2>3
    <2> QED BY <2>2, <2>4, SameMap
<1>5. Shift(z.labels, 0) = z.labels /\ Shift(z.comments, 0) = z.comments
    BY <1>2, <1>4
<1> DEFINE m == Moved(z, 0)
<1>6. /\ m \in ZonesWith(Seq(LeafType)) /\ m.low = Plus(z.low, 0) /\ m.high = Plus(z.high, 0)
      /\ m.labels = Shift(z.labels, 0) /\ m.comments = Shift(z.comments, 0)
      /\ m.collapsed = z.collapsed /\ SameButPlace(m, z)
    BY <1>1, MovedIs
<1> HIDE DEF m
<1>7. m = z
    BY <1>1, <1>3, <1>5, <1>6, SameZone DEF SameButPlace
<1> QED BY <1>7 DEF m

-----------------------------------------------------------------------------
(* Folding one zone of a list.                                             *)

\* The zone i of zs became y: its end, and what comes behind it, moved by d.
Fold(zs, i, y, o, q, p, h, d) ==
    /\ i \in 1 .. Len(zs) /\ Ordered(zs) /\ \A k \in 1 .. Len(zs) : AnyOK(zs[k], o)
    /\ Slides(o, q, p, h, d) /\ zs[i].low <= p /\ h <= zs[i].high
    /\ y \in ZoneType /\ y.low = zs[i].low /\ y.high = zs[i].high + d

SameSpan(m, z, o, q) == m.named = z.named /\ RangeOf(m, q) = RangeOf(z, o)

\* What Fold says of one zone of the list.
LEMMA FoldIs ==
    ASSUME NEW zs \in Seq(ZoneType), NEW o, Orderly(o), NEW q, NEW i, NEW y, NEW p, NEW h, NEW d,
           Fold(zs, i, y, o, q, p, h, d), NEW k \in 1 .. Len(zs)
    PROVE  /\ i \in 1 .. Len(zs) /\ p \in Nat /\ h \in Nat /\ d \in Int
           /\ zs[k] \in ZonesWith(Seq(LeafType)) /\ AnyOK(zs[k], o)
           /\ zs[k].low \in Nat /\ zs[k].high \in Nat /\ zs[k].low <= zs[k].high /\ zs[k].high <= 2 * End
           /\ zs[i].low \in Nat /\ zs[i].high \in Nat /\ zs[i].low <= p /\ h <= zs[i].high
           /\ k < i => zs[k].high <= p
           /\ i < k => h <= zs[k].low
<1>1. /\ i \in 1 .. Len(zs) /\ AnyOK(zs[k], o) /\ zs[i].low <= p /\ h <= zs[i].high
      /\ p \in Nat /\ h \in Nat /\ d \in Int
    BY DEF Fold, Slides
<1>2. zs[k] \in ZonesWith(Seq(LeafType)) /\ zs[i] \in ZonesWith(Seq(LeafType))
    BY <1>1 DEF ZoneType
<1>3. zs[k].low \in Nat /\ zs[k].high \in Nat /\ zs[i].low \in Nat /\ zs[i].high \in Nat
    BY <1>2, ZoneFields
<1>4. zs[k].low <= zs[k].high /\ zs[k].high <= 2 * End
    BY <1>1 DEF AnyOK
<1>5. (k < i => zs[k].high <= zs[i].low) /\ (i < k => zs[i].high <= zs[k].low)
    BY <1>1 DEF Fold, Ordered
<1>6. k < i => zs[k].high <= p
    <2> DEFINE a == zs[k].high  b == zs[i].low
    <2>1. a \in Nat /\ b \in Nat /\ b <= p /\ (k < i => a <= b)
        BY <1>1, <1>3, <1>5
    <2> HIDE DEF a, b
    <2>2. k < i => a <= p
        BY <1>1, <2>1
    <2> QED BY <2>2 DEF a
<1>7. i < k => h <= zs[k].low
    <2> DEFINE a == zs[k].low  b == zs[i].high
    <2>1. a \in Nat /\ b \in Nat /\ h <= b /\ (i < k => b <= a)
        BY <1>1, <1>3, <1>5
    <2> HIDE DEF a, b
    <2>2. i < k => h <= a
        BY <1>1, <2>1
    <2> QED BY <2>2 DEF a
<1> QED BY <1>1, <1>2, <1>3, <1>4, <1>6, <1>7

\* Zones before the fold stay, zones behind it move, and both stay sound.
LEMMA FoldedBefore ==
    ASSUME NEW zs \in Seq(ZoneType), NEW o, Orderly(o), NEW q, NEW i, NEW y, NEW p, NEW h, NEW d,
           Fold(zs, i, y, o, q, p, h, d), NEW k \in 1 .. Len(zs), k < i, NEW n
    PROVE  /\ Folded(zs, i, y, d)[k] = zs[k] /\ SameTo(o, q, zs[k].high)
           /\ AnyOK(zs[k], q) /\ SameSpan(zs[k], zs[k], o, q)
           /\ Leaf(zs[k], o, n) => Leaf(zs[k], q, n)
           /\ Parent(zs[k], o, n) => Parent(zs[k], q, n)
<1>1. /\ i \in 1 .. Len(zs) /\ p \in Nat /\ zs[k] \in ZonesWith(Seq(LeafType)) /\ AnyOK(zs[k], o)
      /\ zs[k].low \in Nat /\ zs[k].high \in Nat /\ zs[k].low <= zs[k].high /\ zs[k].high <= 2 * End
      /\ zs[k].high <= p
    BY FoldIs
<1>2. \A x \in 0 .. Wrap : x <= p => q[x] = o[x]
    BY DEF Fold, Slides
<1>3. SameTo(o, q, zs[k].high)
    BY <1>1, <1>2, EndIs DEF SameTo
<1>4. AnyOK(zs[k], q) /\ (Leaf(zs[k], o, n) => Leaf(zs[k], q, n))
    BY <1>1, <1>3, StaysAny
<1>5. Parent(zs[k], o, n) => Parent(zs[k], q, n)
    BY <1>1, <1>3, StaysParent DEF ZoneType
<1>6. SameSpan(zs[k], zs[k], o, q)
    <2>1. zs[k].low \in 0 .. Wrap /\ zs[k].high \in 0 .. Wrap
        BY <1>1, EndIs
    <2>2. q[zs[k].low] = o[zs[k].low] /\ q[zs[k].high] = o[zs[k].high]
        BY <1>1, <1>3, <2>1 DEF SameTo
    <2> QED BY <2>2 DEF SameSpan, RangeOf
<1>7. Folded(zs, i, y, d)[k] = zs[k]
    BY DEF Folded
<1> QED BY <1>3, <1>4, <1>5, <1>6, <1>7

LEMMA FoldedBehindIs ==
    ASSUME NEW zs \in Seq(ZoneType), NEW o, Orderly(o), NEW q, NEW i, NEW y, NEW p, NEW h, NEW d,
           Fold(zs, i, y, o, q, p, h, d), NEW k \in 1 .. Len(zs), i < k
    PROVE  LET m == Folded(zs, i, y, d)[k]
           IN  /\ m = Moved(zs[k], d) /\ m \in ZoneType /\ m.inner = zs[k].inner
               /\ m.low = zs[k].low + d /\ m.high = zs[k].high + d
               /\ SameSpan(m, zs[k], o, q)
<1> DEFINE z == zs[k]
           m == Moved(z, d)
<1>1. /\ i \in 1 .. Len(zs) /\ p \in Nat /\ h \in Nat /\ z \in ZonesWith(Seq(LeafType)) /\ AnyOK(z, o)
      /\ z.low \in Nat /\ z.high \in Nat /\ z.low <= z.high /\ z.high <= 2 * End
      /\ h <= z.low
    BY FoldIs
<1>2. Slides(o, q, p, h, d)
    BY DEF Fold
<1>4. Folded(zs, i, y, d)[k] = m
    <2>1. CASE d = 0
        <3>1. z.low < Wrap /\ z.high < Wrap
            BY <1>1, EndIs
        <3>2. Moved(z, 0) = z
            BY <1>1, <3>1, MovedZero DEF ZoneType
        <3> QED BY <2>1, <3>2 DEF Folded
    <2>2. CASE d # 0
        BY <2>2, <1>1 DEF Folded
    <2> QED BY <2>1, <2>2
<1> HIDE DEF z
<1>5. /\ m \in ZonesWith(Seq(LeafType)) /\ d \in -Wrap .. Wrap
      /\ m.low = z.low + d /\ m.high = z.high + d
      /\ q[z.low + d] = o[z.low] /\ q[z.high + d] = o[z.high]
    BY <1>1, <1>2, MovesPlace
<1>6. m.collapsed = z.collapsed /\ SameButPlace(m, z)
    BY <1>1, <1>5, MovedIs
<1> HIDE DEF m
<1>8. SameSpan(m, z, o, q)
    BY <1>5, <1>6 DEF SameSpan, RangeOf, SameButPlace
<1>9. m \in ZoneType /\ m.inner = z.inner
    BY <1>5, <1>6 DEF ZoneType, SameButPlace
<1> QED BY <1>4, <1>5, <1>8, <1>9 DEF m, z

LEMMA FoldedBehind ==
    ASSUME NEW zs \in Seq(ZoneType), NEW o, Orderly(o), NEW q, Orderly(q), NEW i, NEW y, NEW p, NEW h, NEW d,
           Fold(zs, i, y, o, q, p, h, d), NEW k \in 1 .. Len(zs), i < k, NEW n, Leaf(zs[k], o, n)
    PROVE  LET m == Folded(zs, i, y, d)[k]
           IN  /\ m \in ZoneType /\ m.inner = zs[k].inner
               /\ m.low = zs[k].low + d /\ m.high = zs[k].high + d
               /\ AnyOK(m, q) /\ Leaf(m, q, n) /\ SameSpan(m, zs[k], o, q)
<1> DEFINE z == zs[k]
           m == Folded(zs, i, y, d)[k]
<1>1. z \in ZonesWith(Seq(LeafType)) /\ AnyOK(z, o) /\ h <= z.low
    BY FoldIs
<1>2. Slides(o, q, p, h, d) /\ Leaf(z, o, n)
    BY DEF Fold
<1>3. /\ m = Moved(z, d) /\ m \in ZoneType /\ m.inner = z.inner /\ m.low = z.low + d /\ m.high = z.high + d
      /\ SameSpan(m, z, o, q)
    BY FoldedBehindIs
<1> HIDE DEF z, m
<1>4. AnyOK(Moved(z, d), q) /\ Leaf(Moved(z, d), q, n)
    BY <1>1, <1>2, MovesLeaf
<1> QED BY <1>3, <1>4 DEF z, m

LEMMA FoldedAtItself ==
    ASSUME NEW zs \in Seq(ZoneType), NEW i \in 1 .. Len(zs), NEW y, NEW d
    PROVE  Folded(zs, i, y, d)[i] = y /\ Len(Folded(zs, i, y, d)) = Len(zs)
    BY DEF Folded

\* The list stays a chain.
LEMMA FoldedChain ==
    ASSUME NEW zs \in Seq(ZoneType), NEW o, Orderly(o), NEW q, Orderly(q), NEW i, NEW y, NEW p, NEW h, NEW d,
           Fold(zs, i, y, o, q, p, h, d), NEW low, NEW high, Chain(zs, low, high)
    PROVE  Folded(zs, i, y, d) \in Seq(ZoneType) /\ Chain(Folded(zs, i, y, d), low, high + d)
<1> DEFINE list == Folded(zs, i, y, d)
<1>1. i \in 1 .. Len(zs) /\ y \in ZoneType /\ y.low = zs[i].low /\ y.high = zs[i].high + d
    BY DEF Fold
<1>2. \A k \in 1 .. Len(zs) : k < i => list[k] = zs[k]
    BY <1>1 DEF Folded
<1>3. \A k \in 1 .. Len(zs) : i < k => list[k] \in ZoneType /\ list[k].low = zs[k].low + d /\ list[k].high = zs[k].high + d
    BY FoldedBehindIs
<1>4. list[i] = y /\ Len(list) = Len(zs)
    BY <1>1, FoldedAtItself
<1>5. list \in Seq(ZoneType)
    <2>1. list = [k \in 1 .. Len(zs) |-> list[k]]
        BY DEF Folded
    <2> HIDE DEF list
    <2>2. \A k \in 1 .. Len(zs) : list[k] \in ZoneType
        BY <1>1, <1>2, <1>3, <1>4
    <2>3. list \in [1 .. Len(zs) -> ZoneType]
        BY <2>1, <2>2
    <2> QED BY <2>3
<1> HIDE DEF list
<1>6. zs[1].low = low /\ zs[Len(zs)].high = high /\ \A k \in 1 .. Len(zs) - 1 : zs[k].high = zs[k + 1].low
    BY DEF Chain
<1>7. 1 \in 1 .. Len(zs) /\ Len(zs) \in 1 .. Len(zs)
    BY <1>1
<1>8. list[1].low = low
    <2>1. CASE i = 1
        BY <2>1, <1>1, <1>4, <1>6
    <2>2. CASE i # 1
        BY <2>2, <1>1, <1>2, <1>6, <1>7
    <2> QED BY <2>1, <2>2
<1>9. list[Len(zs)].high = high + d
    <2>1. CASE i = Len(zs)
        BY <2>1, <1>1, <1>4, <1>6
    <2>2. CASE i # Len(zs)
        BY <2>2, <1>1, <1>3, <1>6, <1>7
    <2> QED BY <2>1, <2>2
<1>10. ASSUME NEW k \in 1 .. Len(zs) - 1
       PROVE  list[k].high = list[k + 1].low
    <2>1. k \in 1 .. Len(zs) /\ k + 1 \in 1 .. Len(zs) /\ zs[k].high = zs[k + 1].low
        BY <1>6
    <2>2. CASE k + 1 < i
        BY <1>1, <1>2, <2>1, <2>2
    <2>3. CASE k + 1 = i
        BY <1>1, <1>2, <1>4, <2>1, <2>3
    <2>4. CASE k = i
        BY <1>1, <1>3, <1>4, <2>1, <2>4
    <2>5. CASE i < k
        <3>1. i < k + 1
            BY <1>1, <2>1, <2>5
        <3>2. list[k].high = zs[k].high + d /\ list[k + 1].low = zs[k + 1].low + d
            BY <1>3, <2>1, <2>5, <3>1
        <3> QED BY <2>1, <3>2
    <2> QED BY <1>1, <2>2, <2>3, <2>4, <2>5
<1> QED BY <1>4, <1>5, <1>8, <1>9, <1>10 DEF list, Chain

\* A list of the listing stays one.
LEMMA FoldedLaid ==
    ASSUME NEW zs \in Seq(ZoneType), NEW o, Orderly(o), NEW q, Orderly(q), NEW i, NEW y, NEW p, NEW h, NEW d,
           Fold(zs, i, y, o, q, p, h, d), NEW n, Laid(zs, o, n), Sound(y, q, n),
           \A k \in 1 .. Len(zs) : i < k => zs[k].inner = <<>>
    PROVE  Folded(zs, i, y, d) \in Seq(ZoneType) /\ Laid(Folded(zs, i, y, d), q, n)
<1> DEFINE list == Folded(zs, i, y, d)
<1>1. i \in 1 .. Len(zs) /\ y \in ZoneType /\ y.low = zs[i].low /\ y.high = zs[i].high + d
    BY DEF Fold
<1>2. \A k \in 1 .. Len(zs) : AnyOK(zs[k], o) /\ (zs[k].inner = <<>> => Leaf(zs[k], o, n))
                              /\ (zs[k].inner # <<>> => Parent(zs[k], o, n))
    BY LaidIs
<1>3. \A k \in 1 .. Len(zs) : i < k => Leaf(zs[k], o, n)
    BY <1>2
<1>4. Chain(zs, 0, zs[Len(zs)].high) /\ o[zs[Len(zs)].high] = End
    BY DEF Laid
<1>5. list \in Seq(ZoneType) /\ Chain(list, 0, zs[Len(zs)].high + d)
    BY <1>4, FoldedChain
<1>6. list[i] = y /\ Len(list) = Len(zs)
    BY <1>1, FoldedAtItself
<1>7. ASSUME NEW k \in 1 .. Len(zs)
      PROVE  Sound(list[k], q, n)
    <2>1. CASE k = i
        BY <1>6, <2>1
    <2>2. CASE k < i
        BY <1>2, <2>2, FoldedBefore DEF Sound
    <2>3. CASE i < k
        BY <1>3, <2>3, FoldedBehind DEF Sound
    <2> QED BY <1>1, <2>1, <2>2, <2>3
<1>8. q[zs[Len(zs)].high + d] = End
    <2>1. Len(zs) \in 1 .. Len(zs)
        BY <1>1
    <2>2. zs[Len(zs)].high \in Nat /\ zs[Len(zs)].high <= 2 * End /\ zs[i].high \in Nat /\ h <= zs[i].high /\ h \in Nat
        BY <2>1, FoldIs
    <2>3. Ordered(zs) /\ (i < Len(zs) => zs[i].high <= zs[Len(zs)].low /\ zs[Len(zs)].low <= zs[Len(zs)].high)
        BY <1>1, <2>1, LaidIs DEF Ordered
    <2>4. zs[Len(zs)].low \in Nat
        BY <2>1, FoldIs
    <2> DEFINE a == zs[Len(zs)].high  b == zs[i].high  c == zs[Len(zs)].low
    <2>5. a \in Nat /\ b \in Nat /\ c \in Nat /\ a <= 2 * End /\ h <= b /\ h \in Nat /\ (i < Len(zs) => b <= c /\ c <= a)
          /\ (i = Len(zs) => a = b)
        BY <2>2, <2>3, <2>4
    <2>6. i < Len(zs) \/ i = Len(zs)
        BY <1>1
    <2>7. o[a] = End
        BY <1>4
    <2>8. \A x \in 0 .. Wrap : h <= x /\ x <= 2 * End => q[x + d] = o[x]
        BY DEF Fold, Slides
    <2> HIDE DEF a, b, c
    <2>9. h <= a /\ a \in 0 .. Wrap
        BY <2>5, <2>6, EndIs
    <2>10. q[a + d] = End
        BY <2>5, <2>7, <2>8, <2>9
    <2> QED BY <2>10 DEF a
<1> HIDE DEF list
<1>9. list[Len(list)].high = zs[Len(zs)].high + d
    BY <1>5, <1>6 DEF Chain
<1>10. list # <<>>
    BY <1>1, <1>5, <1>6
<1> QED BY <1>5, <1>6, <1>7, <1>8, <1>9, <1>10 DEF Laid, list

LEMMA LeafOf ==
    ASSUME NEW z \in ZoneType, z.inner = <<>>
    PROVE  z \in LeafType
<1>1. z.inner \in {<<>>}
    OBVIOUS
<1> QED BY <1>1 DEF ZoneType, LeafType, ZonesWith

-----------------------------------------------------------------------------
(* Folding a zone inside a zone.                                           *)

\* The zones inside one whose zone j is folded.
LEMMA HeldList ==
    ASSUME NEW z \in ZoneType, NEW o, Orderly(o), NEW q, Orderly(q), NEW n, AnyOK(z, o), Parent(z, o, n),
           NEW j, NEW y \in LeafType, NEW d,
           Fold(z.inner, j, y, o, q, z.inner[j].low, z.inner[j].high, d), AnyOK(y, q), Leaf(y, q, n), z.inner[j].named
    PROVE  LET list == Folded(z.inner, j, y, d)
           IN  /\ list \in Seq(LeafType) /\ Len(list) = Len(z.inner) /\ list # <<>>
               /\ Chain(list, z.low, z.high + d)
               /\ \A m \in 1 .. Len(z.inner) : AnyOK(list[m], q) /\ Leaf(list[m], q, n)
               /\ \A m \in 1 .. Len(z.inner) : m # j => SameSpan(list[m], z.inner[m], o, q)
               /\ list[j] = y
               /\ \A m \in 1 .. Len(z.inner) : m < j => list[m].high <= z.inner[j].low
               /\ \A m \in 1 .. Len(z.inner) : j < m => z.inner[j].high + d <= list[m].low
<1> DEFINE p == z.inner[j].low
           h == z.inner[j].high
           zs == z.inner
           list == Folded(zs, j, y, d)
<1>1. zs \in Seq(ZoneType) /\ \A m \in 1 .. Len(zs) : AnyOK(zs[m], o) /\ Leaf(zs[m], o, n)
    BY InnerBounds
<1>2. Chain(zs, z.low, z.high) /\ zs # <<>>
    BY DEF Parent
<1>3. Fold(zs, j, y, o, q, p, h, d)
    OBVIOUS
<1>4. j \in 1 .. Len(zs)
    BY <1>3 DEF Fold
<1> HIDE DEF zs, p, h
<1>5. list \in Seq(ZoneType) /\ Chain(list, z.low, z.high + d)
    BY <1>1, <1>2, <1>3, FoldedChain
<1>6. list[j] = y /\ Len(list) = Len(zs)
    BY <1>1, <1>4, FoldedAtItself
<1>7. \A m \in 1 .. Len(zs) : m < j => AnyOK(list[m], q) /\ Leaf(list[m], q, n) /\ SameSpan(list[m], zs[m], o, q)
                                      /\ list[m] = zs[m]
    BY <1>1, <1>3, FoldedBefore
<1>8. \A m \in 1 .. Len(zs) : j < m => AnyOK(list[m], q) /\ Leaf(list[m], q, n) /\ SameSpan(list[m], zs[m], o, q)
                                      /\ list[m].low = zs[m].low + d
    BY <1>1, <1>3, FoldedBehind
<1>a. \A m \in 1 .. Len(zs) : (m < j => zs[m].high <= p) /\ (j < m => h <= zs[m].low) /\ zs[m].low \in Nat /\ h \in Nat /\ d \in Int
    BY <1>1, <1>3, FoldIs
<1> HIDE DEF list
<1>9. \A m \in 1 .. Len(zs) : AnyOK(list[m], q) /\ Leaf(list[m], q, n)
    <2> SUFFICES ASSUME NEW m \in 1 .. Len(zs)
                 PROVE  AnyOK(list[m], q) /\ Leaf(list[m], q, n)
        OBVIOUS
    <2>1. m < j \/ m = j \/ j < m
        BY <1>4
    <2> QED BY <1>6, <1>7, <1>8, <2>1
<1>10. \A m \in 1 .. Len(zs) : m # j => SameSpan(list[m], zs[m], o, q)
    <2> SUFFICES ASSUME NEW m \in 1 .. Len(zs), m # j
                 PROVE  SameSpan(list[m], zs[m], o, q)
        OBVIOUS
    <2>1. m < j \/ j < m
        BY <1>4
    <2> QED BY <1>7, <1>8, <2>1
<1>11. list \in Seq(LeafType)
    <2>1. \A m \in 1 .. Len(list) : list[m] \in LeafType
        <3> SUFFICES ASSUME NEW m \in 1 .. Len(list)
                     PROVE  list[m] \in LeafType
            OBVIOUS
        <3>1. list[m] \in ZoneType
            BY <1>5
        <3>2. list[m].inner = <<>>
            BY <1>6, <1>9 DEF Leaf
        <3> QED BY <3>1, <3>2, LeafOf
    <2>2. list = [m \in 1 .. Len(list) |-> list[m]]
        BY <1>5
    <2>3. list \in [1 .. Len(list) -> LeafType]
        BY <2>1, <2>2
    <2>4. Len(list) \in Nat
        BY <1>5
    <2> QED BY <2>3, <2>4
<1>12. list # <<>>
    BY <1>1, <1>2, <1>6, <1>11
<1>13. \A m \in 1 .. Len(zs) : m < j => list[m].high <= p
    BY <1>7, <1>a
<1>14. \A m \in 1 .. Len(zs) : j < m => h + d <= list[m].low
    <2> SUFFICES ASSUME NEW m \in 1 .. Len(zs), j < m
                 PROVE  h + d <= list[m].low
        OBVIOUS
    <2>1. list[m].low = zs[m].low + d /\ h <= zs[m].low /\ zs[m].low \in Nat /\ h \in Nat /\ d \in Int
        BY <1>8, <1>a
    <2> DEFINE a == zs[m].low
    <2>2. h + d <= a + d
        <3> HIDE DEF a
        <3> QED BY <2>1 DEF a
    <2> QED BY <2>1, <2>2
<1> QED BY <1>5, <1>6, <1>9, <1>10, <1>11, <1>12, <1>13, <1>14 DEF list, zs, p, h

\* The zone around it stays sound.
LEMMA HeldSound ==
    ASSUME NEW z \in ZoneType, NEW o, Orderly(o), NEW q, Orderly(q), NEW n, AnyOK(z, o), Parent(z, o, n),
           NEW j, NEW y \in LeafType, NEW d,
           Fold(z.inner, j, y, o, q, z.inner[j].low, z.inner[j].high, d), AnyOK(y, q), Leaf(y, q, n), z.inner[j].named
    PROVE  LET m == Held(z, Folded(z.inner, j, y, d), d)
           IN  /\ m \in ZoneType /\ m.low = z.low /\ m.high = z.high + d /\ AnyOK(m, q)
               /\ m.inner = Folded(z.inner, j, y, d)
               /\ Parent(m, q, n) /\ SameSpan(m, z, o, q)
<1> DEFINE p == z.inner[j].low
           h == z.inner[j].high
           list == Folded(z.inner, j, y, d)
           m == Held(z, list, d)
<1>0. End \in Nat /\ End > 0 /\ Wrap = 4 * End /\ Wrap \in Nat
    BY EndIs
<1>1. /\ list \in Seq(LeafType) /\ Len(list) = Len(z.inner) /\ list # <<>>
      /\ Chain(list, z.low, z.high + d)
      /\ \A k \in 1 .. Len(z.inner) : AnyOK(list[k], q) /\ Leaf(list[k], q, n)
      /\ \A k \in 1 .. Len(z.inner) : k # j => SameSpan(list[k], z.inner[k], o, q)
      /\ list[j] = y
      /\ \A k \in 1 .. Len(z.inner) : k < j => list[k].high <= p
      /\ \A k \in 1 .. Len(z.inner) : j < k => h + d <= list[k].low
    BY HeldList
<1>2. z \in ZonesWith(Seq(LeafType))
    BY DEF ZoneType
<1>3. /\ z.low \in Nat /\ z.high \in Nat /\ z.low <= z.high /\ z.low <= End /\ z.high <= 2 * End
      /\ z.low \in 0 .. Wrap /\ z.high \in 0 .. Wrap
      /\ o[z.low] \in Nat /\ o[z.high] \in Nat /\ o[z.low] <= o[z.high] /\ o[z.high] <= End
    BY <1>2, AnyBounds
<1>4. z.named /\ z.low < z.high /\ o[z.high - 1] < End /\ DOMAIN z.comments = {} /\ ~z.collapsed
    BY DEF Parent, AnyOK
<1>5. /\ p \in Nat /\ h \in Nat /\ d \in Int /\ -End <= d /\ d <= End
      /\ p < h /\ p < h + d /\ h <= 2 * End
      /\ \A x \in 0 .. Wrap : x <= p => q[x] = o[x]
      /\ \A x \in 0 .. Wrap : h <= x /\ x <= 2 * End => q[x + d] = o[x]
      /\ q[h + d - 1] < End
    BY DEF Fold, Slides
<1> HIDE DEF p, h
<1>6. j \in 1 .. Len(z.inner) /\ z.inner[j].low <= p /\ h <= z.inner[j].high /\ y.low = z.inner[j].low
      /\ y.high = z.inner[j].high + d
    BY DEF Fold, p, h, p, h
<1>7. /\ z.low <= z.inner[j].low /\ z.inner[j].high <= z.high /\ z.inner[j] \in ZoneType
      /\ Ordered(z.inner) /\ z.inner \in Seq(ZoneType)
    BY <1>6, InnerBounds
<1>8. z.low <= p /\ h <= z.high
    <2> DEFINE a == z.inner[j].low  b == z.inner[j].high
    <2>1. a \in Nat /\ b \in Nat /\ z.low <= a /\ b <= z.high /\ a <= p /\ h <= b
        BY <1>6, <1>7, ZoneFields DEF ZoneType
    <2> HIDE DEF a, b
    <2> QED BY <1>3, <1>5, <2>1
<1>9. /\ m \in ZoneType /\ m.low = z.low /\ m.high = Plus(z.high, d)
      /\ m.labels = z.labels /\ m.comments = z.comments
      /\ m.collapsed = z.collapsed /\ m.inner = list
      /\ m.workLow = z.workLow /\ m.workHigh = z.workHigh
      /\ m.named = z.named /\ m.asm = z.asm
    BY <1>1, <1>5, HeldIs, SMTT(60)
<1> HIDE DEF m, list
<1>10. m.high = z.high + d
    <2>1. -Wrap <= z.high + d /\ 0 <= z.high + d /\ z.high + d < Wrap
        BY <1>0, <1>3, <1>5, <1>8
    <2> QED BY <1>0, <1>3, <1>5, <1>9, <2>1, PlusIs
<1>11. q[z.low] = o[z.low] /\ q[z.high + d] = o[z.high]
    BY <1>3, <1>5, <1>8
<1>12. SameSpan(m, z, o, q)
    BY <1>9, <1>10, <1>11 DEF SameSpan, RangeOf
<1>13. q[m.high - 1] < End
    <2>1. CASE h = z.high
        BY <1>5, <1>10, <2>1
    <2>2. CASE h # z.high
        <3>1. z.high - 1 \in 0 .. Wrap /\ h <= z.high - 1 /\ z.high - 1 <= 2 * End /\ (z.high - 1) + d = m.high - 1
            BY <1>0, <1>3, <1>4, <1>5, <1>8, <1>10, <2>2
        <3>2. q[(z.high - 1) + d] = o[z.high - 1]
            BY <1>5, <3>1
        <3> QED BY <1>4, <3>1, <3>2
    <2> QED BY <2>1, <2>2
<1>14. m.low < m.high
    BY <1>3, <1>5, <1>8, <1>9, <1>10
<1>15. m.high <= End
    <2>1. m.high - 1 \in 0 .. Wrap
        BY <1>0, <1>3, <1>5, <1>8, <1>10
    <2>2. q[m.high - 1] \in Nat /\ (m.high - 1 <= q[m.high - 1] \/ q[m.high - 1] = End)
        BY <2>1, OriginIs
    <2> QED BY <1>0, <1>3, <1>5, <1>10, <1>13, <2>2
<1>16. AnyOK(m, q)
    <2>1. Labelled(m, q)
        <3>1. Labelled(z, o)
            BY DEF AnyOK
        <3> QED BY <1>9, <1>10, <1>11, <3>1 DEF Labelled
    <2>2. m.asm = Instr(q[m.low])
        BY <1>9, <1>11 DEF AnyOK
    <2>3. m.workLow <= m.workHigh /\ m.workHigh <= End
        BY <1>9 DEF AnyOK
    <2>4. m.low = 0 \/ q[m.low - 1] < End
        <3>1. z.low = 0 \/ o[z.low - 1] < End
            BY DEF AnyOK
        <3>2. z.low # 0 => z.low - 1 \in 0 .. Wrap /\ z.low - 1 <= p
            BY <1>0, <1>3, <1>5, <1>8
        <3> QED BY <1>5, <1>9, <3>1, <3>2
    <2>5. m.low <= m.high /\ m.high <= 2 * End
        BY <1>0, <1>3, <1>9, <1>10, <1>14, <1>15, <1>5
    <2> QED BY <1>13, <1>14, <2>1, <2>2, <2>3, <2>4, <2>5 DEF AnyOK
<1>17. ASSUME NEW k \in 1 .. Len(list)
       PROVE  Part(list[k], m, q, n)
    <2>1. k \in 1 .. Len(z.inner) /\ AnyOK(list[k], q) /\ Leaf(list[k], q, n)
        BY <1>1, <1>17
    <2>2. list[k].named => ~(list[k].low = m.low /\ list[k].high = m.high)
        <3>1. list[k].low \in Nat /\ list[k].high \in Nat
            BY <1>1, <1>17, ZoneFields DEF LeafType
        <3>2. CASE k = j
            <4>1. list[k] = y
                BY <1>1, <3>2
            <4>2. ~(z.inner[j].low = z.low /\ z.inner[j].high = z.high)
                BY <1>6 DEF Parent, Part
            <4>3. z.inner[j].high \in Nat
                BY <1>7, ZoneFields DEF ZoneType
            <4> DEFINE a == z.inner[j].high  b == z.high
            <4>4. ~(y.low = z.low /\ a = b) /\ y.high = a + d /\ m.high = b + d /\ m.low = z.low /\ a \in Nat /\ b \in Nat /\ d \in Int
                BY <1>3, <1>5, <1>6, <1>9, <1>10, <4>2, <4>3
            <4> HIDE DEF a, b
            <4> QED BY <4>1, <4>4
        <3>3. CASE k < j
            <4>1. list[k].high <= p
                BY <1>1, <2>1, <3>3
            <4>2. p < z.high + d
                BY <1>3, <1>5, <1>8
            <4>3. list[k].high # m.high
                BY <1>3, <1>5, <1>10, <3>1, <4>1, <4>2
            <4> QED BY <4>3
        <3>4. CASE j < k
            <4>1. h + d <= list[k].low
                BY <1>1, <2>1, <3>4
            <4>2. list[k].low # m.low
                BY <1>3, <1>5, <1>8, <1>9, <3>1, <4>1
            <4> QED BY <4>2
        <3> QED BY <1>6, <2>1, <3>2, <3>3, <3>4
    <2> QED BY <2>1, <2>2 DEF Part
<1>18. Parent(m, q, n)
    BY <1>1, <1>4, <1>9, <1>10, <1>17 DEF Parent
<1> QED BY <1>9, <1>10, <1>12, <1>16, <1>18 DEF m, list

-----------------------------------------------------------------------------
(* Folding keeps the listing.                                              *)

\* A zone with nothing inside spans a part of its own.
LEMMA SpotsDiffer ==
    ASSUME NEW zs \in Seq(ZoneType), NEW o, Orderly(o), NEW n, Laid(zs, o, n),
           NEW c \in Spots(zs), NEW t \in Spots(zs), c # t, Spot(zs, t).inner = <<>>,
           Spot(zs, c).named, Spot(zs, t).named
    PROVE  /\ ~(o[Spot(zs, c).low] = o[Spot(zs, t).low] /\ o[Spot(zs, c).high] = o[Spot(zs, t).high])
           /\ RangeOf(Spot(zs, c), o) # RangeOf(Spot(zs, t), o)
<1> DEFINE y == Spot(zs, c)
           z == Spot(zs, t)
<1>1. y \in ZoneType /\ AnyOK(y, o) /\ z \in ZoneType /\ AnyOK(z, o)
    BY SpotIs
<1>2. y.low \in Nat /\ y.high \in Nat /\ z.low \in Nat /\ z.high \in Nat
    BY <1>1, ZoneFields DEF ZoneType
<1>3. y.low < y.high /\ z.low < z.high
    BY <1>1 DEF AnyOK
<1>4. \/ y.high <= z.low
      \/ z.high <= y.low
      \/ c[1] = t[1] /\ c[2] = 0 /\ t[2] # 0
    BY SpotsLie
<1>a. RangeOf(y, o) = RangeOf(z, o) => o[y.low] = o[z.low] /\ o[y.high] = o[z.high]
    BY DEF RangeOf
<1> SUFFICES ASSUME o[y.low] = o[z.low], o[y.high] = o[z.high]
             PROVE  FALSE
    BY <1>a
<1>5. o[y.low] = o[z.low] /\ o[y.high] = o[z.high]
    OBVIOUS
<1>6. y.low = z.low /\ y.high = z.high
    <2>1. y.named /\ z.named
        OBVIOUS
    <2> HIDE DEF y, z
    <2> QED BY <1>1, <1>5, <2>1, SpanTells DEF ZoneType
<1>7. c[1] = t[1] /\ c[2] = 0 /\ t[2] # 0
    <2> HIDE DEF y, z
    <2> QED BY <1>2, <1>3, <1>4, <1>6
<1>8. t[1] \in 1 .. Len(zs) /\ t[2] \in 0 .. Len(zs[t[1]].inner) /\ Parent(zs[t[1]], o, n)
    BY <1>7, SpotIs
<1>9. y = zs[t[1]] /\ z = zs[t[1]].inner[t[2]]
    BY <1>7 DEF Spot
<1>10. t[2] \in 1 .. Len(zs[t[1]].inner)
    <2>1. t[2] \in Nat
        BY SMTT(60) DEF Spots
    <2> QED BY <1>7, <1>8, <2>1
<1>11. Part(z, y, o, n)
    BY <1>8, <1>9, <1>10 DEF Parent
<1> QED BY <1>6, <1>11 DEF Part

\* One range is exchanged for another when one zone changes.
LEMMA SpansSwap ==
    ASSUME NEW zs, NEW l, NEW o, NEW q, NEW R, Spots(l) = Spots(zs), NEW t \in Spots(zs),
           Spot(zs, t).named, Spot(l, t).named,
           \A c \in Spots(zs) : c # t => SameSpan(Spot(l, c), Spot(zs, c), o, q),
           \A c \in Spots(zs) : c # t /\ Spot(zs, c).named => RangeOf(Spot(zs, c), o) # RangeOf(Spot(zs, t), o),
           Spanned(R, zs, o)
    PROVE  Spanned((R \ {RangeOf(Spot(zs, t), o)}) \cup {RangeOf(Spot(l, t), q)}, l, q)
<1> DEFINE was == RangeOf(Spot(zs, t), o)
           is == RangeOf(Spot(l, t), q)
<1>1. ASSUME NEW r, IsSpan(r, l, q)
      PROVE  r \in (R \ {was}) \cup {is}
    <2>1. PICK c \in Spots(l) : Spot(l, c).named /\ r = RangeOf(Spot(l, c), q)
        BY <1>1 DEF IsSpan
    <2>2. CASE c = t
        BY <2>1, <2>2
    <2>3. CASE c # t
        <3>1. Spot(zs, c).named /\ r = RangeOf(Spot(zs, c), o) /\ c \in Spots(zs)
            BY <2>1, <2>3 DEF SameSpan
        <3>2. r \in R
            BY <3>1 DEF Spanned, IsSpan
        <3> QED BY <2>3, <3>1, <3>2
    <2> QED BY <2>2, <2>3
<1>2. IsSpan(is, l, q)
    BY DEF IsSpan
<1>3. ASSUME NEW r \in R, r # was
      PROVE  IsSpan(r, l, q)
    <2>1. PICK c \in Spots(zs) : Spot(zs, c).named /\ r = RangeOf(Spot(zs, c), o)
        BY <1>3 DEF Spanned, IsSpan
    <2>2. c # t
        BY <1>3, <2>1
    <2>3. Spot(l, c).named /\ r = RangeOf(Spot(l, c), q)
        BY <2>1, <2>2 DEF SameSpan
    <2> QED BY <2>1, <2>3 DEF IsSpan
<1> HIDE DEF was, is
<1>4. \A r : r \in (R \ {was}) \cup {is} <=> IsSpan(r, l, q)
    BY <1>1, <1>2, <1>3
<1> QED BY <1>4 DEF Spanned, was, is

\* The ranges when the one of the zone z is folded or unfolded.
Refold(R, r, collapse) == (R \ {r}) \cup {[r EXCEPT !.folded = collapse]}

LEMMA RefoldIs ==
    ASSUME NEW z, NEW o, NEW collapse
    PROVE  /\ [RangeOf(z, o) EXCEPT !.folded = collapse].from = o[z.low]
           /\ [RangeOf(z, o) EXCEPT !.folded = collapse].to = o[z.high]
           /\ [RangeOf(z, o) EXCEPT !.folded = collapse].folded = collapse
           /\ [RangeOf(z, o) EXCEPT !.folded = collapse] = [from |-> o[z.low], to |-> o[z.high], folded |-> collapse]
    BY DEF RangeOf

\* What a collapsed range hides, and an expanded one shows.
LEMMA SeenCollapsed ==
    ASSUME NEW R, NEW z, NEW o, z.collapsed = FALSE
    PROVE  Hides(Seen(R), Seen(Refold(R, RangeOf(z, o), TRUE)), o[z.low], o[z.high])
<1> DEFINE r == RangeOf(z, o)
           s == [r EXCEPT !.folded = TRUE]
           Q == Refold(R, r, TRUE)
<1>1. s.from = o[z.low] /\ s.to = o[z.high] /\ s.folded = TRUE
    BY RefoldIs, ZenonT(60)
<1>2. ~r.folded
    BY DEF RangeOf
<1> HIDE DEF r, s
<1>3. Q = (R \ {r}) \cup {s}
    BY DEF Refold, s
<1> HIDE DEF Q
<1>4. ASSUME NEW l \in 0 .. End - 1
      PROVE  (\E x \in Q : x.folded /\ x.from < l /\ l < x.to)
               <=> (\E x \in R : x.folded /\ x.from < l /\ l < x.to) \/ (o[z.low] < l /\ l < o[z.high])
    BY <1>1, <1>2, <1>3
<1>5. Seen(Q) = {l \in Seen(R) : ~(o[z.low] < l /\ l < o[z.high])}
    BY <1>4 DEF Seen
<1> QED BY <1>5 DEF Hides, Q, r

LEMMA SeenExpanded ==
    ASSUME NEW R, NEW z, NEW o, z.collapsed, RangeOf(z, o) \in R
    PROVE  /\ Hides(Seen(Refold(R, RangeOf(z, o), FALSE)), Seen(R), o[z.low], o[z.high])
           /\ \A l \in 0 .. End - 1 :
                (\A x \in R : x # RangeOf(z, o) /\ x.folded => ~(x.from < l /\ l < x.to))
                => l \in Seen(Refold(R, RangeOf(z, o), FALSE))
<1> DEFINE r == RangeOf(z, o)
           s == [r EXCEPT !.folded = FALSE]
           Q == Refold(R, r, FALSE)
<1>1. s.from = o[z.low] /\ s.to = o[z.high] /\ s.folded = FALSE
    BY RefoldIs, ZenonT(60)
<1>2. r.folded /\ r.from = o[z.low] /\ r.to = o[z.high] /\ r \in R
    BY DEF RangeOf
<1> HIDE DEF r, s
<1>3. Q = (R \ {r}) \cup {s}
    BY DEF Refold, s
<1> HIDE DEF Q
<1>4. ASSUME NEW l \in 0 .. End - 1
      PROVE  (\E x \in R : x.folded /\ x.from < l /\ l < x.to)
               <=> (\E x \in Q : x.folded /\ x.from < l /\ l < x.to) \/ (o[z.low] < l /\ l < o[z.high])
    BY <1>1, <1>2, <1>3
<1>5. Seen(R) = {l \in Seen(Q) : ~(o[z.low] < l /\ l < o[z.high])}
    BY <1>4 DEF Seen
<1>6. ASSUME NEW l \in 0 .. End - 1, \A x \in R : x # r /\ x.folded => ~(x.from < l /\ l < x.to)
      PROVE  l \in Seen(Q)
    BY <1>1, <1>3, <1>6 DEF Seen
<1> QED BY <1>5, <1>6 DEF Hides, Q, r

LEMMA RefoldFolds ==
    ASSUME NEW R, Folds(R), NEW r \in R, NEW collapse
    PROVE  Folds(Refold(R, r, collapse)) /\ Orderly(Origins(Refold(R, r, collapse)))
<1>1. [r EXCEPT !.folded = collapse].from \in Nat
    BY DEF Folds
<1>2. Folds(Refold(R, r, collapse))
    BY <1>1 DEF Folds, Refold
<1> QED BY <1>2, OriginsOrderly

\* Folding a zone slides what comes behind it.
LEMMA FoldSlides ==
    ASSUME NEW zs \in Seq(ZoneType), NEW R, Spanned(R, zs, Origins(R)), NEW n, Laid(zs, Origins(R), n),
           NEW t \in Spots(zs), NEW collapse \in BOOLEAN, Foldable(Spot(zs, t), collapse)
    PROVE  LET z == Spot(zs, t)
               o == Origins(R)
               Q == Refold(R, RangeOf(z, o), collapse)
           IN  /\ Orderly(o) /\ Orderly(Origins(Q)) /\ Folds(Q)
               /\ Slides(o, Origins(Q), z.low, z.high, Shrinks(z, collapse))
               /\ ~collapse => \A x \in 0 .. Work(z) : Origins(Q)[z.low + x] = o[z.low] + x
<1> DEFINE z == Spot(zs, t)
           o == Origins(R)
           r == RangeOf(z, o)
           Q == Refold(R, r, collapse)
<1>1. Folds(R) /\ Orderly(o)
    BY SpansFold
<1>2. z \in ZonesWith(Seq(LeafType)) /\ AnyOK(z, o) /\ (z.inner = <<>> => Leaf(z, o, n))
    BY <1>1, SpotIs DEF ZoneType
<1>3. z.inner = <<>> /\ z.named /\ z.collapsed # collapse /\ z.collapsed \in BOOLEAN
    BY <1>2, ZoneFields DEF Foldable
<1>4. r \in R
    BY <1>3 DEF Spanned, IsSpan
<1> HIDE DEF r
<1>5. Folds(Q) /\ Orderly(Origins(Q))
    BY <1>1, <1>4, RefoldFolds
<1> HIDE DEF z
<1>6. Leaf(z, o, n)
    BY <1>2, <1>3
<1>7. CASE collapse
    <2>1. collapse = TRUE /\ z.collapsed = FALSE
        BY <1>3, <1>7
    <2>2. Hides(Seen(R), Seen(Q), o[z.low], o[z.high])
        BY <2>1, SeenCollapsed DEF r
    <2>3. Foldable(z, TRUE)
        BY <1>3, <2>1 DEF Foldable
    <2> HIDE DEF Q, o
    <2>4. Slides(o, Origins(Q), z.low, z.high, Shrinks(z, TRUE))
        BY <1>1, <1>2, <1>5, <1>6, <2>2, <2>3, CollapseSlides DEF o
    <2>5. Slides(o, Origins(Q), z.low, z.high, Shrinks(z, collapse))
        BY <2>1, <2>4
    <2> QED BY <1>1, <1>5, <1>7, <2>5 DEF Q, r, o, z
<1>8. CASE ~collapse
    <2>1. collapse = FALSE /\ z.collapsed
        BY <1>3, <1>8
    <2>2. /\ Hides(Seen(Q), Seen(R), o[z.low], o[z.high])
          /\ \A l \in 0 .. End - 1 :
                (\A x \in R : x # r /\ x.folded => ~(x.from < l /\ l < x.to)) => l \in Seen(Q)
        BY <1>4, <2>1, SeenExpanded DEF r
    <2>3. Foldable(z, FALSE)
        BY <1>3, <2>1 DEF Foldable
    <2> HIDE DEF Q
    <2>4. /\ z.low \in 0 .. Wrap /\ z.high \in 0 .. Wrap /\ o[z.low] \in Nat /\ o[z.high] \in Nat /\ o[z.high] <= End
        BY <1>1, <1>2, AnyBounds
    <2>5. \A l \in o[z.low] .. o[z.high] - 1 : l \in Seen(Q)
        <3> SUFFICES ASSUME NEW l \in o[z.low] .. o[z.high] - 1
                     PROVE  l \in Seen(Q)
            OBVIOUS
        <3>1. l \in 0 .. End - 1 /\ o[z.low] <= l /\ l < o[z.high]
            BY <2>4, EndIs
        <3>2. ASSUME NEW x \in R, x # r, x.folded, x.from < l, l < x.to
              PROVE  FALSE
            <4>1. PICK c \in Spots(zs) : Spot(zs, c).named /\ x = RangeOf(Spot(zs, c), o)
                BY <3>2 DEF Spanned, IsSpan
            <4> DEFINE y == Spot(zs, c)
            <4>2. c # t
                BY <3>2, <4>1 DEF r, z
            <4>3. y.collapsed /\ x.from = o[y.low] /\ x.to = o[y.high]
                BY <3>2, <4>1 DEF RangeOf
            <4>4. \/ y.high <= z.low
                  \/ z.high <= y.low
                  \/ c[1] = t[1] /\ c[2] = 0 /\ t[2] # 0
                BY <1>1, <1>3, <4>2, SpotsLie DEF z
            <4>5. ~(c[1] = t[1] /\ c[2] = 0 /\ t[2] # 0)
                <5> SUFFICES ASSUME c[1] = t[1], c[2] = 0, t[2] # 0
                             PROVE  FALSE
                    OBVIOUS
                <5>1. Parent(zs[t[1]], o, n)
                    BY <1>1, SpotIs
                <5>2. y = zs[t[1]]
                    BY DEF Spot
                <5> HIDE DEF y
                <5> QED BY <4>3, <5>1, <5>2 DEF Parent
            <4>6. y \in ZonesWith(Seq(LeafType)) /\ AnyOK(y, o)
                BY <1>1, SpotIs DEF ZoneType
            <4> HIDE DEF y, o
            <4>7. /\ y.low \in 0 .. Wrap /\ y.high \in 0 .. Wrap /\ o[y.low] \in Nat /\ o[y.high] \in Nat
                BY <1>1, <4>6, AnyBounds
            <4>8. y.high <= z.low => o[y.high] <= o[z.low]
                BY <1>1, <2>4, <4>7, OriginsGrow
            <4>9. z.high <= y.low => o[z.high] <= o[y.low]
                BY <1>1, <2>4, <4>7, OriginsGrow
            <4> QED BY <2>4, <3>1, <3>2, <4>3, <4>4, <4>5, <4>7, <4>8, <4>9, SMTT(60)
        <3> QED BY <2>2, <3>1, <3>2
    <2> HIDE DEF o
    <2>6. /\ Slides(o, Origins(Q), z.low, z.high, Shrinks(z, FALSE))
          /\ \A x \in 0 .. Work(z) : Origins(Q)[z.low + x] = o[z.low] + x
        BY <1>1, <1>2, <1>5, <1>6, <2>2, <2>3, <2>5, ExpandSlides, ZenonT(60) DEF o
    <2>7. Slides(o, Origins(Q), z.low, z.high, Shrinks(z, collapse))
        BY <2>1, <2>6
    <2> QED BY <1>1, <1>5, <2>6, <2>7 DEF Q, r, o, z
<1> QED BY <1>7, <1>8

\* The other zones keep their ranges.
LEMMA FoldSpans ==
    ASSUME NEW zs \in Seq(ZoneType), NEW o, Orderly(o), NEW q, Orderly(q), NEW i, NEW y, NEW p, NEW h, NEW d,
           Fold(zs, i, y, o, q, p, h, d), NEW n, Laid(zs, o, n),
           \A k \in 1 .. Len(zs) : i < k => zs[k].inner = <<>>,
           Len(y.inner) = Len(zs[i].inner)
    PROVE  /\ Spots(Folded(zs, i, y, d)) = Spots(zs)
           /\ \A c \in Spots(zs) : c[1] # i => SameSpan(Spot(Folded(zs, i, y, d), c), Spot(zs, c), o, q)
<1> DEFINE l == Folded(zs, i, y, d)
<1>1. i \in 1 .. Len(zs) /\ p \in Nat /\ (\A x \in 0 .. Wrap : x <= p => q[x] = o[x])
    BY DEF Fold, Slides
<1>2. l[i] = y /\ Len(l) = Len(zs)
    BY <1>1, FoldedAtItself
<1>3. \A k \in 1 .. Len(zs) : zs[k] \in ZoneType /\ AnyOK(zs[k], o)
             /\ (zs[k].inner = <<>> => Leaf(zs[k], o, n)) /\ (zs[k].inner # <<>> => Parent(zs[k], o, n))
    BY LaidIs
<1>4. \A k \in 1 .. Len(zs) : k < i => l[k] = zs[k] /\ SameSpan(l[k], zs[k], o, q) /\ SameTo(o, q, zs[k].high)
                                         /\ (Leaf(zs[k], o, n) => Leaf(zs[k], q, n))
    BY <1>3, FoldedBefore
<1>5. \A k \in 1 .. Len(zs) : i < k => l[k].inner = zs[k].inner /\ SameSpan(l[k], zs[k], o, q)
    BY <1>3, FoldedBehind
<1> HIDE DEF l
<1>6. \A k \in 1 .. Len(zs) : Len(l[k].inner) = Len(zs[k].inner)
    <2> SUFFICES ASSUME NEW k \in 1 .. Len(zs)
                 PROVE  Len(l[k].inner) = Len(zs[k].inner)
        OBVIOUS
    <2>1. k < i \/ k = i \/ i < k
        BY <1>1
    <2> QED BY <1>2, <1>4, <1>5, <2>1
<1>7. Spots(l) = Spots(zs)
    BY <1>2, <1>6 DEF Spots
<1>8. ASSUME NEW c \in Spots(zs), c[1] # i
      PROVE  SameSpan(Spot(l, c), Spot(zs, c), o, q)
    <2> DEFINE k == c[1]
    <2>1. k \in 1 .. Len(zs) /\ c[2] \in 0 .. Len(zs[k].inner) /\ c[2] \in Nat
        BY DEF Spots
    <2>2. k < i \/ i < k
        BY <1>1, <1>8, <2>1
    <2>3. CASE c[2] = 0
        BY <1>4, <1>5, <2>1, <2>2, <2>3 DEF Spot
    <2>4. CASE c[2] # 0 /\ i < k
        BY <2>1, <2>4
    <2>5. CASE c[2] # 0 /\ k < i
        <3>1. l[k] = zs[k] /\ SameTo(o, q, zs[k].high)
            BY <1>4, <2>1, <2>5
        <3> DEFINE m == zs[k].inner[c[2]]
        <3>2. Spot(l, c) = m /\ Spot(zs, c) = m
            BY <2>5, <3>1 DEF Spot
        <3>3. Parent(zs[k], o, n) /\ zs[k] \in ZoneType
            BY <2>5, SpotIs
        <3>4. c[2] \in 1 .. Len(zs[k].inner)
            BY <2>1, <2>5
        <3>5. m \in ZoneType /\ AnyOK(m, o) /\ m.high <= zs[k].high
            BY <3>3, <3>4, InnerBounds
        <3> HIDE DEF m
        <3>6. m.low \in 0 .. Wrap /\ m.high \in 0 .. Wrap /\ m.low <= m.high /\ m.low \in Nat /\ m.high \in Nat
            BY <3>5, AnyBounds DEF ZoneType
        <3>7. zs[k].high \in Nat
            BY <2>1, ZoneIs
        <3>8. q[m.low] = o[m.low] /\ q[m.high] = o[m.high]
            BY <3>1, <3>5, <3>6, <3>7 DEF SameTo
        <3> QED BY <3>2, <3>8 DEF SameSpan, RangeOf
    <2> QED BY <2>2, <2>3, <2>4, <2>5
<1> QED BY <1>7, <1>8 DEF l

\* The list when its zone at t is folded or unfolded.
Refolded(zs, t, collapse) ==
    LET d == Shrinks(Spot(zs, t), collapse)
    IN  IF t[2] = 0 THEN FoldedAt(zs, t[1], collapse)
        ELSE Folded(zs, t[1], Held(zs[t[1]], FoldedAt(zs[t[1]].inner, t[2], collapse), d), d)

\* The list with a zone folded is the listing with its range folded.
LEMMA FoldKeeps ==
    ASSUME NEW zs \in Seq(ZoneType), NEW R, Spanned(R, zs, Origins(R)), NEW n, Laid(zs, Origins(R), n),
           NEW t \in Spots(zs), NEW collapse \in BOOLEAN, Foldable(Spot(zs, t), collapse),
           \A k \in 1 .. Len(zs) : t[1] < k => zs[k].inner = <<>>
    PROVE  LET Q == Refold(R, RangeOf(Spot(zs, t), Origins(R)), collapse)
               l == Refolded(zs, t, collapse)
           IN  l \in Seq(ZoneType) /\ Laid(l, Origins(Q), n) /\ Spanned(Q, l, Origins(Q))
<1> DEFINE z == Spot(zs, t)
           o == Origins(R)
           r == RangeOf(z, o)
           Q == Refold(R, r, collapse)
           q == Origins(Q)
           d == Shrinks(z, collapse)
           y == Toggled(z, d)
           i == t[1]
           j == t[2]
           l == Refolded(zs, t, collapse)
<1>1. /\ Orderly(o) /\ Orderly(q) /\ Slides(o, q, z.low, z.high, d)
      /\ ~collapse => \A x \in 0 .. Work(z) : q[z.low + x] = o[z.low] + x
    BY FoldSlides
<1>2. /\ i \in 1 .. Len(zs) /\ j \in 0 .. Len(zs[i].inner) /\ z \in ZoneType /\ AnyOK(z, o)
      /\ (z.inner = <<>> => Leaf(z, o, n)) /\ (j # 0 => z \in LeafType /\ Parent(zs[i], o, n))
    BY <1>1, SpotIs
<1>3. Foldable(z, collapse) /\ z.inner = <<>> /\ z.named
    BY DEF Foldable
<1> HIDE DEF o, q, z, d
<1>4. z \in LeafType
    BY <1>2, <1>3, LeafOf
<1>5. /\ y \in LeafType /\ AnyOK(y, q) /\ Leaf(y, q, n)
      /\ y.low = z.low /\ y.high = z.high + d /\ y.named /\ y.collapsed = collapse
      /\ q[y.low] = o[z.low] /\ q[y.high] = o[z.high]
    BY <1>1, <1>2, <1>3, <1>4, ToggledStays DEF d, LeafType
<1>6. RangeOf(y, q) = [r EXCEPT !.folded = collapse]
    <2>1. [r EXCEPT !.folded = collapse] = [from |-> o[z.low], to |-> o[z.high], folded |-> collapse]
        BY RefoldIs
    <2>2. RangeOf(y, q) = [from |-> o[z.low], to |-> o[z.high], folded |-> collapse]
        BY <1>5 DEF RangeOf
    <2> QED BY <2>1, <2>2
<1> HIDE DEF y
<1>7. y \in ZoneType /\ y.inner = <<>> /\ z.low \in Nat /\ z.high \in Nat /\ d \in Int
    <2>1. y \in ZoneType
        BY <1>5, LeavesAreZones
    <2>2. y.inner = <<>>
        BY <1>5 DEF Leaf
    <2>3. z.low \in Nat /\ z.high \in Nat
        BY <1>4, ZoneFields DEF LeafType
    <2>4. d \in Int
        BY <1>1 DEF Slides
    <2> QED BY <2>1, <2>2, <2>3, <2>4
<1>8. Ordered(zs) /\ (\A k \in 1 .. Len(zs) : AnyOK(zs[k], o)) /\ Laid(zs, o, n)
    BY <1>1, LaidIs DEF o
<1>9. CASE j = 0
    <2>1. z = zs[i]
        BY <1>9 DEF Spot, z
    <2>2. l = Folded(zs, i, y, d)
        BY <1>9, <2>1 DEF Refolded, FoldedAt, y, d, z
    <2>3. Fold(zs, i, y, o, q, z.low, z.high, d)
        BY <1>1, <1>2, <1>5, <1>7, <1>8, <2>1 DEF Fold
    <2>4. Sound(y, q, n)
        BY <1>5 DEF Sound
    <2>5. \A k \in 1 .. Len(zs) : i < k => zs[k].inner = <<>>
        OBVIOUS
    <2>6. Len(y.inner) = Len(zs[i].inner)
        BY <1>3, <1>7, <2>1
    <2> HIDE DEF i, l
    <2>7. l \in Seq(ZoneType) /\ Laid(l, q, n)
        BY <1>1, <1>8, <2>2, <2>3, <2>4, <2>5, FoldedLaid
    <2>8. Spots(l) = Spots(zs) /\ \A c \in Spots(zs) : c[1] # i => SameSpan(Spot(l, c), Spot(zs, c), o, q)
        BY <1>1, <1>8, <2>2, <2>3, <2>5, <2>6, FoldSpans
    <2>9. Spot(l, t) = y
        <3>1. l[i] = y
            BY <1>2, <2>2, FoldedAtItself
        <3> QED BY <1>9, <3>1 DEF Spot, i
    <2>10. \A c \in Spots(zs) : c # t => SameSpan(Spot(l, c), Spot(zs, c), o, q)
        <3> SUFFICES ASSUME NEW c \in Spots(zs), c # t
                     PROVE  c[1] # i
            BY <2>8
        <3>1. c \in Nat \X Nat /\ t \in Nat \X Nat /\ c[2] \in 0 .. Len(zs[c[1]].inner)
            BY DEF Spots
        <3>2. ASSUME c[1] = i
              PROVE  FALSE
            <4>1. c[2] \in 0 .. Len(zs[i].inner) /\ zs[i].inner = <<>>
                BY <1>3, <2>1, <3>1, <3>2
            <4>2. c[2] = 0
                BY <4>1
            <4> QED BY <1>9, <3>1, <3>2, <4>2 DEF i
        <3> QED BY <3>2
    <2>11. \A c \in Spots(zs) : c # t /\ Spot(zs, c).named => RangeOf(Spot(zs, c), o) # RangeOf(Spot(zs, t), o)
        BY <1>1, <1>3, <1>8, SpotsDiffer DEF z
    <2>12. Spanned((R \ {RangeOf(Spot(zs, t), o)}) \cup {RangeOf(Spot(l, t), q)}, l, q)
        BY <1>3, <1>5, <2>8, <2>9, <2>10, <2>11, SpansSwap DEF z, o
    <2>13. Spanned(Q, l, q)
        BY <1>6, <2>9, <2>12 DEF Refold, z
    <2> QED BY <2>7, <2>13 DEF q, l, o, z
<1>10. CASE j # 0
    <2> DEFINE w == zs[i]
               ys == w.inner
               list == Folded(ys, j, y, d)
               m == Held(w, list, d)
    <2>1. z = ys[j] /\ j \in 1 .. Len(ys) /\ Parent(w, o, n) /\ w \in ZoneType /\ AnyOK(w, o)
        BY <1>2, <1>8, <1>10 DEF Spot, z
    <2>2. l = Folded(zs, i, m, d)
        BY <1>10, <2>1 DEF Refolded, FoldedAt, y, d, z
    <2>3. Ordered(ys) /\ \A k \in 1 .. Len(ys) : AnyOK(ys[k], o)
        BY <2>1, InnerBounds, SMTT(60)
    <2> HIDE DEF w
    <2>4. Fold(ys, j, y, o, q, z.low, z.high, d)
        BY <1>1, <1>5, <1>7, <2>1, <2>3, SMTT(60) DEF Fold
    <2>5. ys[j].named
        BY <1>3, <2>1
    <2> HIDE DEF j
    <2>a. /\ w \in ZoneType /\ Orderly(o) /\ Orderly(q) /\ AnyOK(w, o) /\ Parent(w, o, n) /\ y \in LeafType
          /\ Fold(w.inner, j, y, o, q, w.inner[j].low, w.inner[j].high, d) /\ AnyOK(y, q) /\ Leaf(y, q, n) /\ w.inner[j].named
        BY <1>1, <1>5, <2>1, <2>4, <2>5
    <2>6. /\ m \in ZoneType /\ m.low = w.low /\ m.high = w.high + d /\ AnyOK(m, q)
          /\ m.inner = list /\ Parent(m, q, n) /\ SameSpan(m, w, o, q)
        BY <2>a, HeldSound
    <2>7. /\ list \in Seq(LeafType) /\ Len(list) = Len(ys) /\ list # <<>>
          /\ Chain(list, w.low, w.high + d)
          /\ \A k \in 1 .. Len(ys) : AnyOK(list[k], q) /\ Leaf(list[k], q, n)
          /\ \A k \in 1 .. Len(ys) : k # j => SameSpan(list[k], ys[k], o, q)
          /\ list[j] = y
          /\ \A k \in 1 .. Len(ys) : k < j => list[k].high <= w.inner[j].low
          /\ \A k \in 1 .. Len(ys) : j < k => w.inner[j].high + d <= list[k].low
        BY <2>a, HeldList
    <2> HIDE DEF list, m
    <2>8. w.low <= z.low /\ z.high <= w.high
        BY <2>1, InnerBounds
    <2>9. Fold(zs, i, m, o, q, z.low, z.high, d)
        BY <1>1, <1>2, <1>7, <1>8, <2>6, <2>8 DEF Fold, w
    <2>10. Sound(m, q, n)
        BY <2>6 DEF Sound
    <2>11. \A k \in 1 .. Len(zs) : i < k => zs[k].inner = <<>>
        OBVIOUS
    <2>12. Len(m.inner) = Len(zs[i].inner)
        BY <2>6, <2>7 DEF w
    <2> HIDE DEF i, l
    <2>13. l \in Seq(ZoneType) /\ Laid(l, q, n)
        BY <1>1, <1>8, <2>2, <2>9, <2>10, <2>11, FoldedLaid
    <2>14. Spots(l) = Spots(zs) /\ \A c \in Spots(zs) : c[1] # i => SameSpan(Spot(l, c), Spot(zs, c), o, q)
        BY <1>1, <1>8, <2>2, <2>9, <2>11, <2>12, FoldSpans
    <2>15. l[i] = m
        BY <1>2, <2>2, FoldedAtItself
    <2>16. Spot(l, t) = y
        BY <1>10, <2>6, <2>7, <2>15 DEF Spot, i, j
    <2>17. \A c \in Spots(zs) : c # t => SameSpan(Spot(l, c), Spot(zs, c), o, q)
        <3> SUFFICES ASSUME NEW c \in Spots(zs), c # t, c[1] = i
                     PROVE  SameSpan(Spot(l, c), Spot(zs, c), o, q)
            BY <2>14
        <3>1. c \in Nat \X Nat /\ t \in Nat \X Nat /\ c[2] \in 0 .. Len(zs[c[1]].inner)
            BY DEF Spots
        <3>2. c[2] # j
            BY <3>1 DEF i, j
        <3>3. CASE c[2] = 0
            BY <2>6, <2>15, <3>3 DEF Spot, w
        <3>4. CASE c[2] # 0
            <4>1. c[2] \in 1 .. Len(ys)
                BY <3>1, <3>4 DEF w
            <4>2. Spot(l, c) = list[c[2]] /\ Spot(zs, c) = ys[c[2]]
                BY <2>6, <2>15, <3>4 DEF Spot, w
            <4> QED BY <2>7, <3>2, <4>1, <4>2
        <3> QED BY <3>3, <3>4
    <2>18. \A c \in Spots(zs) : c # t /\ Spot(zs, c).named => RangeOf(Spot(zs, c), o) # RangeOf(Spot(zs, t), o)
        BY <1>1, <1>3, <1>8, SpotsDiffer DEF z
    <2>19. Spanned((R \ {RangeOf(Spot(zs, t), o)}) \cup {RangeOf(Spot(l, t), q)}, l, q)
        BY <1>3, <1>5, <2>14, <2>16, <2>17, <2>18, SpansSwap DEF z, o
    <2>20. Spanned(Q, l, q)
        BY <1>6, <2>16, <2>19 DEF Refold, z
    <2> QED BY <2>13, <2>20 DEF q, l, o, z
<1> QED BY <1>9, <1>10

-----------------------------------------------------------------------------
(* The ranges of the user around a line.                                   *)

AtRanges(R, l) == {r \in R : r.from <= l /\ l < r.to}

\* A named zone holds the lines its range holds.
LEMMA RangeSays ==
    ASSUME NEW I, NEW z \in ZonesWith(I), NEW o, Orderly(o), AnyOK(z, o), z.named, NEW line \in 0 .. Wrap
    PROVE  Within(z, line) <=> o[line] < End /\ o[z.low] <= o[line] /\ o[line] < o[z.high]
<1> DEFINE a == z.low  b == z.high
<1>1. /\ a \in Nat /\ b \in Nat /\ a \in 0 .. Wrap /\ b \in 0 .. Wrap /\ a < b /\ o[b - 1] < End
      /\ o[a] \in Nat /\ o[b] \in Nat /\ o[b] <= End
    BY AnyBounds DEF AnyOK
<1>2. b - 1 \in 0 .. Wrap /\ line \in Nat
    BY <1>1, EndIs
<1>3. o[line] \in Nat /\ o[b - 1] \in Nat
    BY <1>2, OriginIs
<1>4. Within(z, line) <=> a <= line /\ line < b
    BY DEF Within
<1> HIDE DEF a, b
<1>5. ASSUME a <= line, line < b
      PROVE  o[line] < End /\ o[a] <= o[line] /\ o[line] < o[b]
    <2>1. line <= b - 1
        BY <1>1, <1>2, <1>5
    <2>2. o[line] <= o[b - 1]
        BY <1>2, <2>1, OriginsGrow
    <2>3. o[a] <= o[line]
        BY <1>1, <1>5, OriginsGrow
    <2>4. o[line] < o[b] \/ o[b] = End
        BY <1>1, <1>5, OriginsGrow
    <2> QED BY <1>1, <1>3, <2>2, <2>3, <2>4, EndIs
<1>6. ASSUME o[line] < End, o[a] <= o[line], o[line] < o[b]
      PROVE  a <= line /\ line < b
    <2>1. line < a => o[line] < o[a] \/ o[a] = End
        BY <1>1, OriginsGrow
    <2>2. b <= line => o[b] <= o[line]
        BY <1>1, OriginsGrow
    <2> QED BY <1>1, <1>2, <1>3, <1>6, <2>1, <2>2, EndIs
<1>7. (a <= line /\ line < b) <=> (o[line] < End /\ o[a] <= o[line] /\ o[line] < o[b])
    BY <1>5, <1>6
<1> QED BY <1>4, <1>7 DEF a, b

\* The named zone with nothing inside around a line, and the zone around that.
LEMMA RangesHere ==
    ASSUME NEW zs \in Seq(ZoneType), NEW o, Orderly(o), NEW n, Laid(zs, o, n), NEW R, Spanned(R, zs, o),
           NEW t \in Spots(zs), Spot(zs, t).inner = <<>>, Spot(zs, t).named,
           NEW line \in 0 .. Wrap, Within(Spot(zs, t), line)
    PROVE  /\ o[line] < End
           /\ RangeOf(Spot(zs, t), o) \in AtRanges(R, o[line])
           /\ \A r \in AtRanges(R, o[line]) :
                 \/ r = RangeOf(Spot(zs, t), o)
                 \/ /\ t[2] # 0 /\ zs[t[1]].named /\ r = RangeOf(zs[t[1]], o)
                    /\ r.from <= o[Spot(zs, t).low] /\ o[Spot(zs, t).high] <= r.to
                    /\ ~(r.from = o[Spot(zs, t).low] /\ r.to = o[Spot(zs, t).high])
<1> DEFINE z == Spot(zs, t)
           s == RangeOf(z, o)
<1>1. z \in ZonesWith(Seq(LeafType)) /\ AnyOK(z, o) /\ z.named /\ Within(z, line)
    BY SpotIs DEF ZoneType
<1>2. o[line] < End /\ o[z.low] <= o[line] /\ o[line] < o[z.high]
    <2> HIDE DEF z
    <2> QED BY <1>1, RangeSays
<1>3. s.from = o[z.low] /\ s.to = o[z.high]
    BY DEF RangeOf
<1>4. s \in R
    BY <1>1 DEF Spanned, IsSpan
<1>5. s \in AtRanges(R, o[line])
    BY <1>2, <1>3, <1>4 DEF AtRanges
<1>6. ASSUME NEW r \in AtRanges(R, o[line]), r # s
      PROVE  /\ t[2] # 0 /\ zs[t[1]].named /\ r = RangeOf(zs[t[1]], o)
             /\ r.from <= o[z.low] /\ o[z.high] <= r.to
             /\ ~(r.from = o[z.low] /\ r.to = o[z.high])
    <2>1. r \in R /\ r.from <= o[line] /\ o[line] < r.to
        BY <1>6 DEF AtRanges
    <2>2. PICK c \in Spots(zs) : Spot(zs, c).named /\ r = RangeOf(Spot(zs, c), o)
        BY <2>1 DEF Spanned, IsSpan
    <2> DEFINE y == Spot(zs, c)
    <2>3. c # t
        BY <1>6, <2>2
    <2>4. y \in ZonesWith(Seq(LeafType)) /\ AnyOK(y, o) /\ y.named /\ r.from = o[y.low] /\ r.to = o[y.high]
        BY <2>2, SpotIs DEF ZoneType, RangeOf
    <2>5. \/ y.high <= z.low
          \/ z.high <= y.low
          \/ c[1] = t[1] /\ c[2] = 0 /\ t[2] # 0
        BY <2>3, SpotsLie
    <2>6. ~(o[y.low] = o[z.low] /\ o[y.high] = o[z.high])
        BY <1>1, <2>3, <2>4, SpotsDiffer
    <2> HIDE DEF y, z, s
    <2>7. Within(y, line)
        BY <1>2, <2>1, <2>4, RangeSays
    <2>8. y.low <= line /\ line < y.high /\ z.low <= line /\ line < z.high
        BY <1>1, <2>7 DEF Within
    <2>9. y.low \in Nat /\ y.high \in Nat /\ z.low \in Nat /\ z.high \in Nat /\ line \in Nat
        BY <1>1, <2>4, ZoneFields
    <2>10. c[1] = t[1] /\ c[2] = 0 /\ t[2] # 0
        BY <2>5, <2>8, <2>9, SMTT(60)
    <2>11. y = zs[t[1]] /\ y.low <= z.low /\ z.high <= y.high
        BY <2>10, SpotIs DEF Spot, y, z
    <2>12. y.low \in 0 .. Wrap /\ y.high \in 0 .. Wrap /\ z.low \in 0 .. Wrap /\ z.high \in 0 .. Wrap
        BY <1>1, <2>4, AnyBounds
    <2>13. o[y.low] <= o[z.low] /\ o[z.high] <= o[y.high]
        BY <2>11, <2>12, OriginsGrow
    <2> QED BY <2>2, <2>4, <2>6, <2>10, <2>11, <2>13 DEF y
<1> QED BY <1>2, <1>5, <1>6

\* That zone has the smallest range around the line, and the largest if it is an outer one.
LEMMA SmallestIs ==
    ASSUME NEW zs \in Seq(ZoneType), NEW o, Orderly(o), NEW n, Laid(zs, o, n), NEW R, Spanned(R, zs, o),
           NEW t \in Spots(zs), Spot(zs, t).inner = <<>>, Spot(zs, t).named,
           NEW line \in 0 .. Wrap, Within(Spot(zs, t), line)
    PROVE  Smallest(AtRanges(R, o[line])) = RangeOf(Spot(zs, t), o)
<1> DEFINE z == Spot(zs, t)
           s == RangeOf(z, o)
           rs == AtRanges(R, o[line])
           Small(r) == \A x \in rs : x.from <= r.from /\ r.to <= x.to
<1>1. /\ s \in rs
      /\ \A r \in rs : \/ r = s
                       \/ /\ r.from <= o[z.low] /\ o[z.high] <= r.to
                          /\ ~(r.from = o[z.low] /\ r.to = o[z.high])
    BY RangesHere
<1>2. s.from = o[z.low] /\ s.to = o[z.high]
    BY DEF RangeOf
<1>3. z.low \in 0 .. Wrap /\ z.high \in 0 .. Wrap
    <2>1. z \in ZoneType
        BY SpotType
    <2> QED BY <2>1 DEF ZoneType, ZonesWith, Coords
<1>4. o[z.low] \in Nat /\ o[z.high] \in Nat
    BY <1>3, OriginIs
<1>8. ASSUME NEW r \in rs
      PROVE  r.from \in Nat /\ r.to \in Nat
    <2>1. PICK c \in Spots(zs) : r = RangeOf(Spot(zs, c), o)
        BY <1>8 DEF AtRanges, Spanned, IsSpan
    <2>2. Spot(zs, c) \in ZoneType
        BY SpotType
    <2>3. Spot(zs, c).low \in 0 .. Wrap /\ Spot(zs, c).high \in 0 .. Wrap
        BY <2>2 DEF ZoneType, ZonesWith, Coords
    <2> QED BY <2>1, <2>3, OriginIs DEF RangeOf
<1> HIDE DEF rs, s, z
<1>5. s \in rs /\ Small(s)
    BY <1>1, <1>2, <1>4
<1>6. ASSUME NEW r \in rs, Small(r)
      PROVE  r = s
    <2>1. s.from <= r.from /\ r.to <= s.to
        BY <1>1, <1>6
    <2> SUFFICES ASSUME r # s
                 PROVE  FALSE
        OBVIOUS
    <2>2. /\ r.from <= o[z.low] /\ o[z.high] <= r.to
          /\ ~(r.from = o[z.low] /\ r.to = o[z.high])
        BY <1>1, <1>6
    <2> QED BY <1>2, <1>4, <1>8, <2>1, <2>2
<1>7. (CHOOSE r \in rs : Small(r)) = s
    BY <1>5, <1>6
<1> QED BY <1>7 DEF Smallest, s, rs, z

LEMMA LargestIs ==
    ASSUME NEW zs \in Seq(ZoneType), NEW o, Orderly(o), NEW n, Laid(zs, o, n), NEW R, Spanned(R, zs, o),
           NEW t \in Spots(zs), Spot(zs, t).inner = <<>>, Spot(zs, t).named, t[2] = 0,
           NEW line \in 0 .. Wrap, Within(Spot(zs, t), line)
    PROVE  Largest(AtRanges(R, o[line])) = RangeOf(Spot(zs, t), o)
<1> DEFINE z == Spot(zs, t)
           s == RangeOf(z, o)
           rs == AtRanges(R, o[line])
           Large(r) == \A x \in rs : r.from <= x.from /\ x.to <= r.to
<1>a. /\ o[line] < End
      /\ s \in rs
      /\ \A r \in rs :
            \/ r = s
            \/ /\ t[2] # 0 /\ zs[t[1]].named /\ r = RangeOf(zs[t[1]], o)
               /\ r.from <= o[z.low] /\ o[z.high] <= r.to
               /\ ~(r.from = o[z.low] /\ r.to = o[z.high])
    BY RangesHere, SMTT(60)
<1>1. s \in rs /\ \A r \in rs : r = s
    BY <1>a
<1>2. s.from = o[z.low] /\ s.to = o[z.high]
    BY DEF RangeOf
<1>3. z.low \in 0 .. Wrap /\ z.high \in 0 .. Wrap
    <2>1. z \in ZoneType
        BY SpotType
    <2> QED BY <2>1 DEF ZoneType, ZonesWith, Coords
<1>4. o[z.low] \in Nat /\ o[z.high] \in Nat
    BY <1>3, OriginIs
<1> HIDE DEF rs, s, z
<1>5. s \in rs /\ Large(s)
    BY <1>1, <1>2, <1>4
<1>6. (CHOOSE r \in rs : Large(r)) = s
    BY <1>1, <1>5
<1> QED BY <1>6 DEF Largest, s, rs, z

LEMMA HeldZero ==
    ASSUME NEW z \in ZoneType, z.high < Wrap, NEW list
    PROVE  Held(z, list, 0) = Filled(z, list)
<1>1. z.high \in Nat
    BY ZoneFields DEF ZoneType
<1>2. -Wrap <= z.high + 0 /\ z.high + 0 < 2 * Wrap /\ 0 <= z.high + 0 /\ z.high + 0 = z.high
    BY <1>1, EndIs
<1>3. Plus(z.high, 0) = z.high
    BY <1>1, <1>2, PlusIs
<1>4. [z EXCEPT !.inner = list, !.high = z.high] = [z EXCEPT !.inner = list]
    BY DEF ZoneType, ZonesWith
<1>5. Held(z, list, 0) = [z EXCEPT !.inner = list, !.high = z.high]
    BY <1>3 DEF Held, ZoneType, ZonesWith
<1> QED BY <1>4, <1>5 DEF Filled

-----------------------------------------------------------------------------
(* CollapseOrExtendZone.                                                   *)

\* A fold changes nothing or folds the zone around the line that can be.
Target(zs, t, line, collapse) ==
    /\ t \in Spots(zs) /\ t[1] = At(zs, line) /\ t[1] # 0
    /\ Within(zs[t[1]], line) /\ Within(Spot(zs, t), line) /\ Foldable(Spot(zs, t), collapse)

\* What the code makes of a line: the same list, or the one with that zone folded.
LEMMA FoldedOr ==
    ASSUME NEW zs \in Seq(ZoneType), Ordered(zs), InnerOrdered(zs), NEW line \in Nat, NEW collapse \in BOOLEAN,
           \A k \in 1 .. Len(zs) : zs[k].high < Wrap
    PROVE  LET r == GetRecursiveZoneByLine(line, collapse, zs)
           IN  \/ r.list = zs /\ r.by = 0
               \/ \E t : /\ Target(zs, t, line, collapse) /\ r.list = Refolded(zs, t, collapse)
                         /\ r.by = Shrinks(Spot(zs, t), collapse)
                         /\ r.failed <=> r.by = 0 /\ t[2] # 0
<1> DEFINE i == At(zs, line)
           z == zs[i]
           j == At(z.inner, line)
           d == Shrinks(z.inner[j], collapse)
           list == FoldedAt(z.inner, j, collapse)
           r == GetRecursiveZoneByLine(line, collapse, zs)
<1>1. r = IF i = 0 THEN Going(0, zs)
          ELSE IF Foldable(z, collapse) THEN Going(Shrinks(z, collapse), FoldedAt(zs, i, collapse))
          ELSE IF z.inner # <<>> /\ j # 0 /\ Foldable(z.inner[j], collapse)
          THEN IF d # 0 THEN Going(d, Folded(zs, i, Held(z, list, d), d))
               ELSE Failing(Folded(zs, i, Filled(z, list), 0))
          ELSE Failing(zs)
    BY OuterIs
<1>2. i # 0 => i \in 1 .. Len(zs) /\ Within(z, line)
    BY AtIs
<1>3. i # 0 => z \in ZoneType /\ z.inner \in Seq(LeafType) /\ z.inner \in Seq(ZoneType) /\ Ordered(z.inner)
    <2>1. i # 0 => z \in ZoneType /\ Ordered(z.inner)
        BY <1>2 DEF InnerOrdered
    <2>2. i # 0 => z.inner \in Seq(LeafType)
        BY <2>1 DEF ZoneType, ZonesWith
    <2> QED BY <2>1, <2>2, LeafLists
<1> HIDE DEF r, i
<1>4. CASE i # 0 /\ Foldable(z, collapse)
    <2>1. r = Going(Shrinks(z, collapse), FoldedAt(zs, i, collapse))
        BY <1>1, <1>4
    <2> DEFINE t == <<i, 0>>
    <2>2. t \in Nat \X Nat /\ t[1] = i /\ t[2] = 0
        BY <1>2, <1>4
    <2>3. Spot(zs, t) = z
        BY <2>2 DEF Spot
    <2>4. t \in Spots(zs)
        BY <1>2, <1>3, <1>4, <2>2 DEF Spots
    <2> HIDE DEF t
    <2>5. Target(zs, t, line, collapse)
        BY <1>2, <1>4, <2>2, <2>3, <2>4 DEF Target, i
    <2>6. Refolded(zs, t, collapse) = FoldedAt(zs, i, collapse)
        BY <2>2 DEF Refolded
    <2>7. r.list = Refolded(zs, t, collapse) /\ r.by = Shrinks(Spot(zs, t), collapse) /\ ~r.failed
        BY <2>1, <2>3, <2>6, GoingIs
    <2> QED BY <2>2, <2>5, <2>7 DEF r
<1>5. CASE i # 0 /\ ~Foldable(z, collapse) /\ z.inner # <<>> /\ j # 0 /\ Foldable(z.inner[j], collapse)
    <2>1. r = IF d # 0 THEN Going(d, Folded(zs, i, Held(z, list, d), d))
              ELSE Failing(Folded(zs, i, Filled(z, list), 0))
        BY <1>1, <1>5
    <2>2. j \in 1 .. Len(z.inner) /\ Within(z.inner[j], line)
        BY <1>3, <1>5, AtIs
    <2> DEFINE t == <<i, j>>
    <2>3. t \in Nat \X Nat /\ t[1] = i /\ t[2] = j
        BY <1>2, <1>5, <2>2
    <2>4. Spot(zs, t) = z.inner[j]
        BY <1>5, <2>3 DEF Spot
    <2>5. t \in Spots(zs)
        BY <1>2, <1>3, <1>5, <2>2, <2>3 DEF Spots
    <2> HIDE DEF t
    <2>6. Target(zs, t, line, collapse)
        BY <1>2, <1>5, <2>2, <2>3, <2>4, <2>5 DEF Target, i
    <2>7. Refolded(zs, t, collapse) = Folded(zs, i, Held(z, list, d), d)
        BY <1>5, <2>3, <2>4 DEF Refolded
    <2>8. d = 0 => Held(z, list, d) = Filled(z, list)
        <3> SUFFICES ASSUME d = 0
                     PROVE  Held(z, list, d) = Filled(z, list)
            OBVIOUS
        <3>1. z \in ZoneType /\ z.high < Wrap
            BY <1>2, <1>3, <1>5
        <3> HIDE DEF z
        <3>2. Held(z, list, 0) = Filled(z, list)
            BY <3>1, HeldZero
        <3> HIDE DEF list, d
        <3> QED BY <3>2
    <2> HIDE DEF d, list, j, z
    <2>9. CASE d # 0
        <3>1. r = Going(d, Folded(zs, i, Held(z, list, d), d))
            BY <2>1, <2>9
        <3>2. r.list = Refolded(zs, t, collapse) /\ r.by = d /\ ~r.failed
            BY <2>7, <3>1, GoingIs
        <3> QED BY <2>4, <2>6, <2>9, <3>2 DEF r, d
    <2>10. CASE d = 0
        <3>1. r = Failing(Folded(zs, i, Filled(z, list), 0))
            BY <2>1, <2>10
        <3>2. r.list = Refolded(zs, t, collapse) /\ r.by = d /\ r.failed
            BY <2>7, <2>8, <2>10, <3>1, FailingIs
        <3> QED BY <1>5, <2>3, <2>4, <2>6, <2>10, <3>2 DEF r, d
    <2> QED BY <2>9, <2>10
<1>6. CASE i = 0
    <2>1. r = Going(0, zs)
        BY <1>1, <1>6
    <2> QED BY <2>1, GoingIs DEF r
<1>7. CASE i # 0 /\ ~Foldable(z, collapse) /\ ~(z.inner # <<>> /\ j # 0 /\ Foldable(z.inner[j], collapse))
    <2>1. r = Failing(zs)
        BY <1>1, <1>7
    <2> QED BY <2>1, FailingIs DEF r
<1> QED BY <1>4, <1>5, <1>6, <1>7

\* The listing as one zone, and the tree of zones as the listing.
BareRoot(cs) == Zone(0, End, FALSE, 0, [l \in Labels |-> l], cs)

ZonesOK(zs, R, n, cs) ==
    /\ Spanned(R, zs, Origins(R))
    /\ zs # <<>> => Laid(zs, Origins(R), n)
    /\ zs = <<>> => Noted(BareRoot(cs), Origins(R), n)

\* Origin, line by line, is the function Origins.
LEMMA OriginSame ==
    ASSUME NEW line \in 0 .. Wrap
    PROVE  Origin(line) = Origins(ranges)[line] /\ RangesAt(line) = AtRanges(ranges, Origins(ranges)[line])
<1>1. Origin(line) = Origins(ranges)[line]
    <2>1. {l \in 0 .. End - 1 : ~Hidden(l)} = Seen(ranges)
        BY DEF Hidden, Seen
    <2> DEFINE S == {l \in 0 .. End - 1 : ~Hidden(l)}
    <2>3. Origin(line) = Nth(S, line)
        BY DEF Origin, Nth, Rank
    <2> HIDE DEF S
    <2>2. Origin(line) = Nth(Seen(ranges), line)
        BY <2>1, <2>3 DEF S
    <2> QED BY <2>2 DEF Origins
<1> QED BY <1>1 DEF RangesAt, AtRanges

\* No line of a tree comes near the wrap.
LEMMA SizesOK ==
    ASSUME NEW zs \in Seq(ZoneType), NEW o, Orderly(o), NEW n, Laid(zs, o, n)
    PROVE  /\ Ordered(zs) /\ InnerOrdered(zs)
           /\ \A k \in 1 .. Len(zs) : zs[k].high < Wrap
<1>1. Ordered(zs) /\ InnerOrdered(zs) /\ \A k \in 1 .. Len(zs) : zs[k] \in ZoneType /\ AnyOK(zs[k], o)
    BY LaidIs
<1>2. ASSUME NEW k \in 1 .. Len(zs)
      PROVE  zs[k].high < Wrap
    <2>1. zs[k].high <= 2 * End
        BY <1>1 DEF AnyOK
    <2>2. zs[k].high \in Nat
        BY ZoneIs
    <2> QED BY <2>1, <2>2, EndIs
<1> QED BY <1>1, <1>2

\* A fold by d: the view stays longer than nothing and shorter than two listings.
LEMMA ByIs ==
    ASSUME NEW I, NEW z \in ZonesWith(I), NEW o, Orderly(o), AnyOK(z, o), NEW n, z.inner = <<>> => Leaf(z, o, n),
           NEW collapse \in BOOLEAN, Foldable(z, collapse)
    PROVE  LET d == Shrinks(z, collapse) IN d \in Int /\ 1 - End <= d /\ d <= End /\ d \in -Wrap .. Wrap
<1>1. /\ Shrinks(z, collapse) \in Int /\ -End <= Shrinks(z, collapse) /\ Shrinks(z, collapse) <= End
      /\ (collapse => Shrinks(z, collapse) = 1 - Work(z))
      /\ (~collapse => Shrinks(z, collapse) = Work(z) - 1)
    BY ShrinksIs
<1>2. Work(z) \in Nat /\ Work(z) <= End /\ z.workLow \in Nat /\ z.workHigh \in Nat
    BY AnyBounds, ZoneFields
<1>3. Spread(z, o) /\ z.collapsed # collapse /\ z.collapsed \in BOOLEAN
    BY ZoneFields DEF Foldable, Leaf
<1>4. ~collapse => Work(z) >= 1
    BY <1>2, <1>3 DEF Spread, Work
<1> DEFINE d == Shrinks(z, collapse)
<1> HIDE DEF d
<1>5. 1 - End <= d
    BY <1>1, <1>2, <1>4, EndIs DEF d
<1>6. d \in -Wrap .. Wrap
    BY <1>1, EndIs DEF d
<1> QED BY <1>1, <1>5, <1>6 DEF d

LEMMA FoldedType ==
    ASSUME NEW I, NEW zs \in Seq(ZonesWith(I)), NEW i, NEW y \in ZonesWith(I), NEW d \in -Wrap .. Wrap
    PROVE  Folded(zs, i, y, d) \in Seq(ZonesWith(I))
<1>1. ASSUME NEW k \in 1 .. Len(zs)
      PROVE  Folded(zs, i, y, d)[k] \in ZonesWith(I)
    <2>1. zs[k] \in ZonesWith(I)
        OBVIOUS
    <2>2. Moved(zs[k], d) \in ZonesWith(I)
        BY <2>1, MovedIs
    <2> QED BY <2>1, <2>2 DEF Folded
<1>2. Folded(zs, i, y, d) = [k \in 1 .. Len(zs) |-> Folded(zs, i, y, d)[k]]
    BY DEF Folded
<1>3. Folded(zs, i, y, d) \in [1 .. Len(zs) -> ZonesWith(I)]
    BY <1>1, <1>2
<1>4. Len(zs) \in Nat
    OBVIOUS
<1> QED BY <1>3, <1>4

LEMMA RefoldedType ==
    ASSUME NEW zs \in Seq(ZoneType), NEW t \in Spots(zs), NEW collapse \in BOOLEAN, Foldable(Spot(zs, t), collapse),
           Shrinks(Spot(zs, t), collapse) \in -Wrap .. Wrap
    PROVE  Refolded(zs, t, collapse) \in Seq(ZoneType)
<1> DEFINE z == Spot(zs, t)
           d == Shrinks(z, collapse)
           i == t[1]
           j == t[2]
<1>1. i \in 1 .. Len(zs) /\ j \in 0 .. Len(zs[i].inner) /\ z \in ZoneType /\ zs[i] \in ZoneType
    BY SpotType DEF Spots
<1>2. d \in -Wrap .. Wrap /\ d \in Int
    BY EndIs
<1>3. zs[i].inner \in Seq(LeafType)
    BY <1>1 DEF ZoneType, ZonesWith
<1>4. CASE j = 0
    <2>1. Refolded(zs, t, collapse) = Folded(zs, i, Toggled(z, d), d)
        BY <1>4 DEF Refolded, FoldedAt, Spot
    <2> HIDE DEF d, z
    <2>2. Toggled(z, d) \in ZonesWith(Seq(LeafType))
        BY <1>1, <1>2, ToggledIs DEF ZoneType
    <2>3. Folded(zs, i, Toggled(z, d), d) \in Seq(ZonesWith(Seq(LeafType)))
        BY <1>2, <2>2, FoldedType DEF ZoneType
    <2> QED BY <2>1, <2>3 DEF ZoneType
<1>5. CASE j # 0
    <2> DEFINE list == Folded(zs[i].inner, j, Toggled(z, d), d)
    <2>1. Refolded(zs, t, collapse) = Folded(zs, i, Held(zs[i], list, d), d)
        BY <1>5 DEF Refolded, FoldedAt, Spot
    <2>2. z \in LeafType
        BY <1>1, <1>3, <1>5 DEF Spot
    <2> HIDE DEF d, z
    <2>3. Toggled(z, d) \in ZonesWith({<<>>})
        BY <1>2, <2>2, ToggledIs DEF LeafType
    <2>4. list \in Seq(ZonesWith({<<>>}))
        BY <1>2, <1>3, <2>3, FoldedType DEF LeafType
    <2>5. Held(zs[i], list, d) \in ZoneType
        BY <1>1, <1>2, <2>4, HeldIs DEF LeafType
    <2>6. Folded(zs, i, Held(zs[i], list, d), d) \in Seq(ZonesWith(Seq(LeafType)))
        BY <1>2, <2>5, FoldedType DEF ZoneType
    <2> QED BY <2>1, <2>6 DEF ZoneType
<1> QED BY <1>4, <1>5

\* What a fold gives is a listing, and not too long.
LEMMA FoldsType ==
    ASSUME NEW zs \in Seq(ZoneType), NEW R, NEW n, NEW cs, ZonesOK(zs, R, n, cs),
           NEW line \in 0 .. Wrap, NEW collapse \in BOOLEAN, NEW r, r = GetRecursiveZoneByLine(line, collapse, zs)
    PROVE  r.list \in Seq(ZoneType) /\ r.by \in Int /\ 1 - End <= r.by /\ r.by <= End
<1> DEFINE o == Origins(R)
<1>1. Spanned(R, zs, o) /\ (zs # <<>> => Laid(zs, o, n)) /\ Orderly(o)
    BY SpansFold DEF ZonesOK
<1>2. line \in Nat
    BY EndIs
<1>3. Ordered(zs) /\ InnerOrdered(zs) /\ \A k \in 1 .. Len(zs) : zs[k].high < Wrap
    <2>1. CASE zs = <<>>
        BY <2>1 DEF Ordered, InnerOrdered
    <2>2. CASE zs # <<>>
        BY <1>1, <2>2, SizesOK
    <2> QED BY <2>1, <2>2
<1>4. CASE r.list = zs /\ r.by = 0
    BY <1>4, EndIs
<1>5. CASE ~(r.list = zs /\ r.by = 0)
    <2>1. PICK t : /\ Target(zs, t, line, collapse) /\ r.list = Refolded(zs, t, collapse)
                   /\ r.by = Shrinks(Spot(zs, t), collapse)
        BY <1>2, <1>3, <1>5, FoldedOr
    <2>2. t \in Spots(zs) /\ t[1] \in 1 .. Len(zs) /\ Foldable(Spot(zs, t), collapse)
        BY <2>1 DEF Target, Spots
    <2>3. Laid(zs, o, n)
        BY <1>1, <2>2
    <2> DEFINE z == Spot(zs, t)
    <2>4. z \in ZonesWith(Seq(LeafType)) /\ AnyOK(z, o) /\ (z.inner = <<>> => Leaf(z, o, n))
        BY <1>1, <2>2, <2>3, SpotIs DEF ZoneType
    <2>5. LET d == Shrinks(z, collapse) IN d \in Int /\ 1 - End <= d /\ d <= End /\ d \in -Wrap .. Wrap
        <3> HIDE DEF z, o
        <3> QED BY <1>1, <2>2, <2>4, ByIs DEF z
    <2>6. r.list \in Seq(ZoneType)
        BY <2>1, <2>2, <2>5, RefoldedType
    <2> QED BY <2>1, <2>5, <2>6
<1> QED BY <1>4, <1>5

\* What a fold does to the listing.
LEMMA FoldsOne ==
    ASSUME NEW zs \in Seq(ZoneType), NEW R, NEW n, NEW cs, ZonesOK(zs, R, n, cs),
           NEW line \in 0 .. Wrap, NEW collapse \in BOOLEAN, NEW r, r = GetRecursiveZoneByLine(line, collapse, zs),
           r.list # zs
    PROVE  (\A z \in Range(zs) : line < z.low => z.inner = <<>>)
              => ZonesOK(r.list, Refold(R, Smallest(AtRanges(R, Origins(R)[line])), collapse), n, cs)
<1> DEFINE o == Origins(R)
<1>1. Spanned(R, zs, o) /\ (zs # <<>> => Laid(zs, o, n)) /\ Orderly(o)
    BY SpansFold DEF ZonesOK
<1>2. zs # <<>>
    <2> SUFFICES ASSUME zs = <<>>
                 PROVE  FALSE
        OBVIOUS
    <2>1. Ordered(zs) /\ InnerOrdered(zs) /\ \A k \in 1 .. Len(zs) : zs[k].high < Wrap
        BY DEF Ordered, InnerOrdered
    <2>2. line \in Nat /\ At(zs, line) = 0
        BY EndIs, AtNone
    <2>3. r.list = zs
        BY <2>1, <2>2, FoldedOr, ZenonT(60) DEF Target
    <2> QED BY <2>3
<1>3. Laid(zs, o, n)
    BY <1>1, <1>2
<1>4. Ordered(zs) /\ InnerOrdered(zs) /\ \A k \in 1 .. Len(zs) : zs[k].high < Wrap
    BY <1>1, <1>3, SizesOK
<1>5. line \in Nat
    BY EndIs
<1>6. PICK t : /\ Target(zs, t, line, collapse) /\ r.list = Refolded(zs, t, collapse)
               /\ r.by = Shrinks(Spot(zs, t), collapse)
    BY <1>4, <1>5, FoldedOr
<1>7. /\ t \in Spots(zs) /\ t[1] # 0 /\ t[1] \in 1 .. Len(zs) /\ Foldable(Spot(zs, t), collapse)
      /\ Within(zs[t[1]], line) /\ Within(Spot(zs, t), line)
    BY <1>6 DEF Target, Spots
<1> DEFINE z == Spot(zs, t)
<1>8. z \in ZonesWith(Seq(LeafType)) /\ AnyOK(z, o) /\ (z.inner = <<>> => Leaf(z, o, n)) /\ z.inner = <<>> /\ z.named
    BY <1>1, <1>3, <1>7, SpotIs DEF ZoneType, Foldable
<1>11. ASSUME \A w \in Range(zs) : line < w.low => w.inner = <<>>
       PROVE  ZonesOK(r.list, Refold(R, Smallest(AtRanges(R, o[line])), collapse), n, cs)
    <2>1. \A k \in 1 .. Len(zs) : t[1] < k => zs[k].inner = <<>>
        <3> SUFFICES ASSUME NEW k \in 1 .. Len(zs), t[1] < k
                     PROVE  zs[k].inner = <<>>
            OBVIOUS
        <3>1. line < zs[k].low
            BY <1>4, <1>5, <1>7, OneHolds
        <3>2. zs[k] \in Range(zs)
            BY DEF Range
        <3> QED BY <1>11, <3>1, <3>2
    <2> DEFINE Q == Refold(R, RangeOf(Spot(zs, t), Origins(R)), collapse)
               l == Refolded(zs, t, collapse)
    <2>2. l \in Seq(ZoneType) /\ Laid(l, Origins(Q), n) /\ Spanned(Q, l, Origins(Q))
        BY <1>1, <1>3, <1>7, <2>1, FoldKeeps
    <2>3. Smallest(AtRanges(R, o[line])) = RangeOf(z, o)
        BY <1>1, <1>3, <1>7, <1>8, SmallestIs
    <2> HIDE DEF l, Q
    <2>4. l # <<>>
        BY <2>2 DEF Laid
    <2>5. ZonesOK(l, Q, n, cs)
        BY <2>2, <2>4 DEF ZonesOK
    <2> QED BY <1>6, <2>3, <2>5 DEF l, Q
<1> QED BY <1>11

\* CollapseOrExtendZone keeps the listing.
LEMMA CollapseKeeps ==
    ASSUME zones \in Seq(ZoneType), plain, ZonesOK(zones, ranges, notes, comments),
           NEW line \in 0 .. Wrap, NEW collapse \in BOOLEAN, CollapseOrExtendZone(line, collapse),
           size \in Nat, size <= 2 * End
    PROVE  /\ zones' \in Seq(ZoneType) /\ size' \in Nat /\ size' <= 2 * End
           /\ plain' \in BOOLEAN
           /\ plain' => ZonesOK(zones', ranges', notes', comments')
           /\ UNCHANGED comments
<1> DEFINE r == GetRecursiveZoneByLine(line, collapse, zones)
           s == Smallest(AtRanges(ranges, Origins(ranges)[line]))
<1>0. RangesAt(line) = AtRanges(ranges, Origins(ranges)[line])
    BY OriginSame
<1>1. /\ zones' = r.list
      /\ IF Changed(r) THEN size' = End - 1 + r.by ELSE size' = size
      /\ IF r.list = zones THEN UNCHANGED history
         ELSE Remember(FoldsWell(line), Refold(ranges, s, collapse), notes)
      /\ UNCHANGED comments
    BY <1>0 DEF CollapseOrExtendZone, Refold
<1>4. r.list \in Seq(ZoneType) /\ r.by \in Int /\ 1 - End <= r.by /\ r.by <= End
    <2> HIDE DEF r
    <2>1. r = GetRecursiveZoneByLine(line, collapse, zones)
        BY DEF r
    <2> QED BY <2>1, FoldsType
<1>2. CASE r.list = zones
    <2>1. UNCHANGED <<zones, ranges, notes, plain, comments>>
        BY <1>1, <1>2 DEF history
    <2>2. size' \in Nat /\ size' <= 2 * End
        <3> HIDE DEF r
        <3> QED BY <1>1, <1>4, EndIs
    <2> QED BY <1>1, <2>1, <2>2
<1>3. CASE r.list # zones
    <2>1. (\A z \in Range(zones) : line < z.low => z.inner = <<>>)
             => ZonesOK(r.list, Refold(ranges, s, collapse), notes, comments)
        <3> HIDE DEF r
        <3>1. r = GetRecursiveZoneByLine(line, collapse, zones)
            BY DEF r
        <3> QED BY <1>3, <3>1, FoldsOne
    <2> HIDE DEF r, s
    <2>2. size' \in Nat /\ size' <= 2 * End
        BY <1>1, <1>4, EndIs
    <2>3. plain' \in BOOLEAN
        BY <1>1, <1>3 DEF Remember, Forget
    <2>4. ASSUME plain'
          PROVE  ZonesOK(zones', ranges', notes', comments')
        <3>1. FoldsWell(line) /\ ranges' = Refold(ranges, s, collapse) /\ notes' = notes
            BY <1>1, <1>3, <2>4 DEF Remember, Forget
        <3> QED BY <1>1, <2>1, <3>1 DEF FoldsWell
    <2> QED BY <1>1, <1>4, <2>2, <2>3, <2>4
<1> QED BY <1>2, <1>3

-----------------------------------------------------------------------------
(* Expanding undoes collapsing.                                            *)

LEMMA PlusUndone ==
    ASSUME NEW a \in Nat, a < Wrap, NEW d \in -Wrap .. Wrap
    PROVE  Plus(Plus(a, d), -d) = a
<1>1. a \in Words
    BY EndIs DEF Words
<1> QED BY <1>1, PlusOneToOne

\* Each change of a zone by d is undone by the same change by -d.
LEMMA MovedBack ==
    ASSUME NEW I, NEW z \in ZonesWith(I), z.low < Wrap, z.high < Wrap, NEW d \in -Wrap .. Wrap
    PROVE  Moved(Moved(z, d), -d) = z
<1> DEFINE e == -d
           m == Moved(z, d)
           b == Moved(m, e)
<1>1. e \in -Wrap .. Wrap
    BY EndIs
<1>2. /\ z.low \in Nat /\ z.high \in Nat /\ z.labels \in Maps(Labels) /\ z.comments \in Maps(Notes)
    BY ZoneFields
<1>3. Plus(Plus(z.low, d), e) = z.low /\ Plus(Plus(z.high, d), e) = z.high
    BY <1>2, PlusUndone
<1>4. Shift(Shift(z.labels, d), e) = z.labels /\ Shift(Shift(z.comments, d), e) = z.comments
    BY <1>2, ShiftBack
<1> HIDE DEF e
<1>5. /\ m \in ZonesWith(I) /\ m.low = Plus(z.low, d) /\ m.high = Plus(z.high, d)
      /\ m.labels = Shift(z.labels, d) /\ m.comments = Shift(z.comments, d)
      /\ m.collapsed = z.collapsed /\ SameButPlace(m, z)
    BY MovedIs
<1> HIDE DEF m
<1>6. /\ b \in ZonesWith(I) /\ b.low = Plus(m.low, e) /\ b.high = Plus(m.high, e)
      /\ b.labels = Shift(m.labels, e) /\ b.comments = Shift(m.comments, e)
      /\ b.collapsed = m.collapsed /\ SameButPlace(b, m)
    BY <1>1, <1>5, MovedIs
<1> HIDE DEF b
<1>7. b = z
    BY <1>3, <1>4, <1>5, <1>6, SameZone DEF SameButPlace
<1> QED BY <1>7 DEF b, m, e

LEMMA ToggledBack ==
    ASSUME NEW I, NEW z \in ZonesWith(I), z.high < Wrap, NEW d \in -Wrap .. Wrap
    PROVE  Toggled(Toggled(z, d), -d) = z
<1> DEFINE e == -d
           m == Toggled(z, d)
           b == Toggled(m, e)
<1>1. e \in Int /\ d \in Int
    BY EndIs
<1>2. z.high \in Nat /\ z.collapsed \in BOOLEAN
    BY ZoneFields
<1>3. Plus(Plus(z.high, d), e) = z.high
    BY <1>2, PlusUndone
<1> HIDE DEF e
<1>5. /\ m \in ZonesWith(I) /\ m.low = z.low /\ m.high = Plus(z.high, d)
      /\ m.labels = z.labels /\ m.comments = z.comments
      /\ m.collapsed = ~z.collapsed /\ SameButPlace(m, z)
    BY <1>1, ToggledIs
<1> HIDE DEF m
<1>6. /\ b \in ZonesWith(I) /\ b.low = m.low /\ b.high = Plus(m.high, e)
      /\ b.labels = m.labels /\ b.comments = m.comments
      /\ b.collapsed = ~m.collapsed /\ SameButPlace(b, m)
    BY <1>1, <1>5, ToggledIs
<1> HIDE DEF b
<1>7. b.collapsed = z.collapsed
    BY <1>2, <1>5, <1>6
<1>8. b = z
    BY <1>3, <1>5, <1>6, <1>7, SameZone DEF SameButPlace
<1> QED BY <1>8 DEF b, m, e

LEMMA HeldBack ==
    ASSUME NEW z \in ZoneType, z.high < Wrap, NEW d \in -Wrap .. Wrap, NEW list \in Seq(LeafType)
    PROVE  Held(Held(z, list, d), z.inner, -d) = z
<1> DEFINE e == -d
           m == Held(z, list, d)
           ys == z.inner
           b == Held(m, ys, e)
<1>1. e \in Int /\ d \in Int
    BY EndIs
<1>2. z \in ZonesWith(Seq(LeafType)) /\ z.high \in Nat /\ ys \in Seq(LeafType)
    BY ZoneFields DEF ZoneType
<1>3. Plus(Plus(z.high, d), e) = z.high
    BY <1>2, PlusUndone
<1> HIDE DEF e
<1>5. /\ m \in ZoneType /\ m.low = z.low /\ m.high = Plus(z.high, d)
      /\ m.labels = z.labels /\ m.comments = z.comments
      /\ m.collapsed = z.collapsed /\ m.inner = list
      /\ m.workLow = z.workLow /\ m.workHigh = z.workHigh
      /\ m.named = z.named /\ m.asm = z.asm
    BY <1>1, HeldIs
<1> HIDE DEF m, ys
<1>6. /\ b \in ZoneType /\ b.low = m.low /\ b.high = Plus(m.high, e)
      /\ b.labels = m.labels /\ b.comments = m.comments
      /\ b.collapsed = m.collapsed /\ b.inner = ys
      /\ b.workLow = m.workLow /\ b.workHigh = m.workHigh
      /\ b.named = m.named /\ b.asm = m.asm
    <2>1. m \in ZoneType /\ ys \in Seq(LeafType) /\ e \in Int
        BY <1>1, <1>2, <1>5
    <2> QED BY <2>1, HeldIs, ZenonT(60)
<1> HIDE DEF b
<1>7. b \in ZonesWith(Seq(LeafType))
    BY <1>6 DEF ZoneType
<1>8. b = z
    BY <1>2, <1>3, <1>5, <1>6, <1>7, SameZone DEF ys
<1> QED BY <1>8 DEF b, m, e, ys

\* So is the change of a list.
LEMMA FoldedBack ==
    ASSUME NEW I, NEW zs \in Seq(ZonesWith(I)), NEW i \in 1 .. Len(zs), NEW y, NEW d \in -Wrap .. Wrap, d # 0,
           \A k \in 1 .. Len(zs) : zs[k].low < Wrap /\ zs[k].high < Wrap
    PROVE  Folded(Folded(zs, i, y, d), i, zs[i], -d) = zs
<1> DEFINE e == -d
           l == Folded(zs, i, y, d)
           b == Folded(l, i, zs[i], e)
<1>1. e # 0
    BY EndIs
<1>2. \A k \in 1 .. Len(zs) : Moved(Moved(zs[k], d), e) = zs[k]
    <2> SUFFICES ASSUME NEW k \in 1 .. Len(zs)
                 PROVE  Moved(Moved(zs[k], d), -d) = zs[k]
        OBVIOUS
    <2>1. zs[k] \in ZonesWith(I) /\ zs[k].low < Wrap /\ zs[k].high < Wrap
        OBVIOUS
    <2> QED BY <2>1, MovedBack
<1> HIDE DEF e
<1>3. l = [k \in 1 .. Len(zs) |-> IF k < i THEN zs[k] ELSE IF k = i THEN y ELSE Moved(zs[k], d)]
    BY DEF Folded
<1> HIDE DEF l
<1>4. Len(l) = Len(zs)
    BY <1>3
<1>5. b = [k \in 1 .. Len(zs) |-> IF k < i THEN l[k] ELSE IF k = i THEN zs[i] ELSE Moved(l[k], e)]
    BY <1>1, <1>4 DEF Folded
<1> HIDE DEF b
<1>6. ASSUME NEW k \in 1 .. Len(zs)
      PROVE  b[k] = zs[k]
    BY <1>2, <1>3, <1>5
<1>7. b = [k \in 1 .. Len(zs) |-> zs[k]]
    BY <1>5, <1>6
<1>8. zs = [k \in 1 .. Len(zs) |-> zs[k]]
    OBVIOUS
<1> QED BY <1>7, <1>8 DEF b, l, e

\* A folded list is in order.
LEMMA FoldedOrdered ==
    ASSUME NEW zs \in Seq(ZoneType), NEW o, Orderly(o), NEW q, Orderly(q), NEW i, NEW y, NEW p, NEW h, NEW d,
           Fold(zs, i, y, o, q, p, h, d), NEW low, NEW high, Chain(zs, low, high), y.low <= y.high, Ordered(y.inner),
           InnerOrdered(zs)
    PROVE  /\ Folded(zs, i, y, d) \in Seq(ZoneType)
           /\ Ordered(Folded(zs, i, y, d)) /\ InnerOrdered(Folded(zs, i, y, d))
<1> DEFINE l == Folded(zs, i, y, d)
<1>1. l \in Seq(ZoneType) /\ Chain(l, low, high + d)
    BY FoldedChain
<1>2. i \in 1 .. Len(zs)
    BY DEF Fold
<1>3. l[i] = y /\ Len(l) = Len(zs)
    BY <1>2, FoldedAtItself
<1>4. \A k \in 1 .. Len(zs) : k < i => l[k] = zs[k]
    BY <1>2 DEF Folded
<1>5. \A k \in 1 .. Len(zs) : i < k => l[k].low = zs[k].low + d /\ l[k].high = zs[k].high + d /\ l[k].inner = zs[k].inner
    BY FoldedBehindIs
<1>6. \A k \in 1 .. Len(zs) : zs[k].low \in Nat /\ zs[k].high \in Nat /\ zs[k].low <= zs[k].high /\ d \in Int
    BY FoldIs
<1> HIDE DEF l
<1>7. ASSUME NEW k \in 1 .. Len(l)
      PROVE  l[k].low <= l[k].high /\ Ordered(l[k].inner)
    <2>1. k \in 1 .. Len(zs) /\ Ordered(zs[k].inner)
        BY <1>3, <1>7 DEF InnerOrdered
    <2>2. CASE k < i
        BY <1>4, <1>6, <2>1, <2>2
    <2>3. CASE k = i
        BY <1>3, <2>3
    <2>4. CASE i < k
        <3>1. l[k].low = zs[k].low + d /\ l[k].high = zs[k].high + d /\ l[k].inner = zs[k].inner
            BY <1>5, <2>1, <2>4
        <3> DEFINE a == zs[k].low  b == zs[k].high
        <3>2. a \in Nat /\ b \in Nat /\ a <= b /\ d \in Int /\ l[k].low = a + d /\ l[k].high = b + d
            BY <1>6, <2>1, <3>1
        <3> HIDE DEF a, b
        <3>3. l[k].low <= l[k].high
            BY <3>2
        <3> QED BY <2>1, <3>1, <3>3
    <2> QED BY <1>2, <2>1, <2>2, <2>3, <2>4
<1>8. Ordered(l)
    BY <1>1, <1>7, ChainOrdered
<1>9. InnerOrdered(l)
    BY <1>7 DEF InnerOrdered
<1> QED BY <1>1, <1>8, <1>9 DEF l

LEMMA ShrinksBack ==
    ASSUME NEW I, NEW z \in ZonesWith(I), NEW collapse \in BOOLEAN, NEW back \in BOOLEAN, collapse # back, NEW y,
           y.workLow = z.workLow, y.workHigh = z.workHigh
    PROVE  Shrinks(y, back) = -Shrinks(z, collapse)
<1>1. z.workLow \in Nat /\ z.workHigh \in Nat
    BY ZoneFields
<1> DEFINE w == z.workHigh - z.workLow - 1
<1>2. w \in Int
    BY <1>1
<1>3. Shrinks(y, back) = (IF back THEN -1 ELSE 1) * w /\ Shrinks(z, collapse) = (IF collapse THEN -1 ELSE 1) * w
    BY DEF Shrinks
<1> HIDE DEF w
<1> QED BY <1>2, <1>3

\* Folding the zone at t back, at its line, gives the list it was folded in.
LEMMA FoldUndone ==
    ASSUME NEW zs \in Seq(ZoneType), NEW R, Spanned(R, zs, Origins(R)), NEW n, Laid(zs, Origins(R), n),
           NEW t \in Spots(zs), NEW collapse \in BOOLEAN, NEW back \in BOOLEAN, collapse # back,
           Foldable(Spot(zs, t), collapse), Shrinks(Spot(zs, t), collapse) # 0
    PROVE  GetRecursiveZoneByLine(Spot(zs, t).low, back, Refolded(zs, t, collapse)).list = zs
<1> DEFINE z == Spot(zs, t)
           o == Origins(R)
           r == RangeOf(z, o)
           Q == Refold(R, r, collapse)
           q == Origins(Q)
           d == Shrinks(z, collapse)
           y == Toggled(z, d)
           i == t[1]
           j == t[2]
           l == Refolded(zs, t, collapse)
           g == GetRecursiveZoneByLine(z.low, back, l)
<1>1. /\ Orderly(o) /\ Orderly(q) /\ Slides(o, q, z.low, z.high, d)
      /\ ~collapse => \A x \in 0 .. Work(z) : q[z.low + x] = o[z.low] + x
    BY FoldSlides
<1>2. /\ i \in 1 .. Len(zs) /\ j \in 0 .. Len(zs[i].inner) /\ z \in ZoneType /\ AnyOK(z, o)
      /\ (z.inner = <<>> => Leaf(z, o, n)) /\ (j # 0 => z \in LeafType /\ Parent(zs[i], o, n))
    BY <1>1, SpotIs
<1>3. Foldable(z, collapse) /\ z.inner = <<>> /\ z.named /\ z.collapsed # collapse /\ d # 0
    BY DEF Foldable
<1>a. Ordered(zs) /\ InnerOrdered(zs) /\ (\A k \in 1 .. Len(zs) : zs[k].high < Wrap)
    BY <1>1, SizesOK
<1>b. \A k \in 1 .. Len(zs) : AnyOK(zs[k], o) /\ zs[k] \in ZoneType
    BY <1>1, LaidIs
<1>c. Chain(zs, 0, zs[Len(zs)].high) /\ zs # <<>>
    BY DEF Laid
<1> HIDE DEF o, q, z, d
<1>4. z \in LeafType
    BY <1>2, <1>3, LeafOf
<1>5. /\ y \in LeafType /\ AnyOK(y, q) /\ Leaf(y, q, n)
      /\ y.low = z.low /\ y.high = z.high + d /\ y.named /\ y.collapsed = collapse
      /\ q[y.low] = o[z.low] /\ q[y.high] = o[z.high]
    BY <1>1, <1>2, <1>3, <1>4, ToggledStays DEF d, LeafType
<1>6. d \in -Wrap .. Wrap
    <2>1. d \in Int /\ -End <= d /\ d <= End
        BY <1>1 DEF Slides
    <2> QED BY <2>1, EndIs
<1>7. y \in ZoneType /\ y.inner = <<>> /\ z.low \in Nat /\ z.high \in Nat /\ d \in Int /\ z.high < Wrap /\ z.low < z.high + d
    <2>1. y \in ZoneType
        BY <1>5, LeavesAreZones
    <2>2. y.inner = <<>>
        BY <1>5 DEF Leaf
    <2>3. z.low \in Nat /\ z.high \in Nat
        BY <1>4, ZoneFields DEF LeafType
    <2>4. d \in Int /\ z.low < z.high + d
        BY <1>1 DEF Slides
    <2>5. z.high <= 2 * End
        BY <1>2 DEF AnyOK
    <2> QED BY <2>1, <2>2, <2>3, <2>4, <2>5, EndIs
<1>8. y.workLow = z.workLow /\ y.workHigh = z.workHigh
    BY <1>4, <1>7, ToggledIs DEF LeafType, SameButPlace
<1>9. Shrinks(y, back) = -d
    BY <1>4, <1>8, ShrinksBack DEF d, LeafType
<1>10. Toggled(y, -d) = z
    BY <1>4, <1>6, <1>7, ToggledBack DEF LeafType
<1> HIDE DEF y
<1>11. Foldable(y, back) /\ Within(y, z.low) /\ y.low <= y.high
    <2>1. y.collapsed # back
        BY <1>5
    <2> QED BY <1>5, <1>7, <2>1 DEF Foldable, Within
<1>12. ASSUME NEW ys \in Seq(ZoneType), NEW k \in 1 .. Len(ys), ys[k] = z,
              \A e \in 1 .. Len(ys) : ys[e].low < Wrap /\ ys[e].high < Wrap
       PROVE  FoldedAt(Folded(ys, k, y, d), k, back) = ys
    <2> DEFINE ls == Folded(ys, k, y, d)
    <2>1. ls[k] = y
        BY <1>12, FoldedAtItself
    <2>2. FoldedAt(ls, k, back) = Folded(ls, k, z, -d)
        BY <1>9, <1>10, <2>1 DEF FoldedAt
    <2>3. Folded(ls, k, ys[k], -d) = ys
        BY <1>3, <1>6, <1>12, FoldedBack DEF ZoneType
    <2> QED BY <1>12, <2>2, <2>3
<1>13. \A k \in 1 .. Len(zs) : zs[k].low < Wrap /\ zs[k].high < Wrap
    <2> SUFFICES ASSUME NEW k \in 1 .. Len(zs)
                 PROVE  zs[k].low < Wrap /\ zs[k].high < Wrap
        OBVIOUS
    <2>1. zs[k].low <= zs[k].high /\ zs[k].high < Wrap
        BY <1>a DEF Ordered
    <2> QED BY <2>1, ZoneIs, EndIs
<1>14. CASE j = 0
    <2>1. z = zs[i]
        BY <1>14 DEF Spot, z
    <2>2. l = Folded(zs, i, y, d)
        BY <1>14, <2>1 DEF Refolded, FoldedAt, y, d, z
    <2>3. Fold(zs, i, y, o, q, z.low, z.high, d)
        BY <1>1, <1>2, <1>5, <1>7, <1>a, <1>b, <2>1 DEF Fold
    <2>4. Ordered(y.inner)
        BY <1>7 DEF Ordered
    <2> HIDE DEF l, i
    <2>5. l \in Seq(ZoneType) /\ Ordered(l) /\ InnerOrdered(l)
        BY <1>1, <1>11, <1>a, <1>c, <2>2, <2>3, <2>4, FoldedOrdered
    <2>6. l[i] = y /\ Len(l) = Len(zs)
        BY <1>2, <2>2, FoldedAtItself
    <2>7. At(l, z.low) = i /\ i # 0
        BY <1>2, <1>7, <1>11, <2>5, <2>6, AtIs
    <2>8. g = Going(Shrinks(y, back), FoldedAt(l, i, back))
        BY <1>7, <1>11, <2>5, <2>6, <2>7, OuterIs
    <2>9. FoldedAt(l, i, back) = zs
        BY <1>2, <1>12, <1>13, <2>1, <2>2
    <2>10. g.list = zs
        BY <2>8, <2>9, GoingIs
    <2> QED BY <2>10 DEF l, z
<1>15. CASE j # 0
    <2> DEFINE w == zs[i]
               ys == w.inner
               list == Folded(ys, j, y, d)
               m == Held(w, list, d)
    <2>1. z = ys[j] /\ j \in 1 .. Len(ys) /\ Parent(w, o, n) /\ w \in ZoneType /\ AnyOK(w, o)
        BY <1>2, <1>b, <1>15 DEF Spot, z
    <2>2. l = Folded(zs, i, m, d)
        BY <1>15, <2>1 DEF Refolded, FoldedAt, y, d, z
    <2>3. Ordered(ys) /\ \A k \in 1 .. Len(ys) : AnyOK(ys[k], o)
        BY <2>1, InnerBounds, SMTT(60)
    <2>4. w.high < Wrap
        BY <1>2, <1>a
    <2> HIDE DEF w
    <2>5. Fold(ys, j, y, o, q, z.low, z.high, d)
        BY <1>1, <1>5, <1>7, <2>1, <2>3 DEF Fold
    <2> HIDE DEF j
    <2>a. /\ w \in ZoneType /\ Orderly(o) /\ Orderly(q) /\ AnyOK(w, o) /\ Parent(w, o, n) /\ y \in LeafType
          /\ Fold(w.inner, j, y, o, q, w.inner[j].low, w.inner[j].high, d) /\ AnyOK(y, q) /\ Leaf(y, q, n) /\ w.inner[j].named
        BY <1>1, <1>3, <1>5, <2>1, <2>5
    <2>6. /\ m \in ZoneType /\ m.low = w.low /\ m.high = w.high + d /\ AnyOK(m, q)
          /\ m.inner = list /\ Parent(m, q, n) /\ SameSpan(m, w, o, q)
        BY <2>a, HeldSound
    <2>7. ys \in Seq(ZoneType) /\ ys \in Seq(LeafType) /\ \A k \in 1 .. Len(ys) : ys[k].low < Wrap /\ ys[k].high < Wrap
        <3>1. /\ ys \in Seq(ZoneType) /\ ys \in Seq(LeafType)
              /\ \A k \in 1 .. Len(ys) : ys[k] \in ZoneType /\ AnyOK(ys[k], o)
            BY <2>1, InnerBounds
        <3>2. ASSUME NEW k \in 1 .. Len(ys)
              PROVE  ys[k].low < Wrap /\ ys[k].high < Wrap
            <4>1. ys[k].low \in Nat /\ ys[k].high \in Nat /\ ys[k].low <= ys[k].high /\ ys[k].high <= 2 * End
                BY <3>1, <3>2, ZoneFields DEF ZoneType, AnyOK
            <4> QED BY <4>1, EndIs
        <3> QED BY <3>1, <3>2
    <2>8. list[j] = y
        BY <2>1, <2>7, FoldedAtItself
    <2>9. FoldedAt(list, j, back) = ys
        BY <1>12, <2>1, <2>7
    <2>10. list \in Seq(LeafType) /\ list \in Seq(ZoneType) /\ Ordered(list) /\ j \in 1 .. Len(list)
        <3>1. m.inner \in Seq(LeafType) /\ m.inner \in Seq(ZoneType) /\ Ordered(m.inner)
            BY <2>6, InnerBounds
        <3>2. Len(list) = Len(ys)
            BY <2>1, <2>7, FoldedAtItself
        <3> QED BY <2>1, <2>6, <3>1, <3>2
    <2>11. Held(m, ys, -d) = w
        BY <1>6, <2>1, <2>4, <2>10, HeldBack
    <2>12. w.low <= z.low /\ z.high <= w.high /\ w.low \in Nat /\ w.high \in Nat
        <3>1. w.low <= z.low /\ z.high <= w.high
            BY <2>1, InnerBounds
        <3>2. w.low \in Nat /\ w.high \in Nat
            BY <2>1, ZoneFields DEF ZoneType
        <3> QED BY <3>1, <3>2
    <2> HIDE DEF m, list
    <2>13. Fold(zs, i, m, o, q, z.low, z.high, d)
        BY <1>1, <1>2, <1>7, <1>a, <1>b, <2>6, <2>12 DEF Fold, w
    <2>14. Within(m, z.low) /\ m.low <= m.high
        BY <1>7, <2>6, <2>12 DEF Within
    <2>15. Ordered(m.inner)
        BY <2>6, <2>10
    <2> HIDE DEF l, i
    <2>16. l \in Seq(ZoneType) /\ Ordered(l) /\ InnerOrdered(l)
        BY <1>1, <1>a, <1>c, <2>2, <2>13, <2>14, <2>15, FoldedOrdered
    <2>17. l[i] = m /\ Len(l) = Len(zs)
        BY <1>2, <2>2, FoldedAtItself
    <2>18. At(l, z.low) = i /\ i # 0
        BY <1>2, <1>7, <2>14, <2>16, <2>17, AtIs
    <2>19. At(list, z.low) = j /\ j # 0
        BY <1>7, <1>11, <2>8, <2>10, AtIs
    <2>20. list # <<>>
        BY <2>10
    <2>21. ~Foldable(m, back)
        BY <2>6, <2>20 DEF Foldable
    <2>22. -d # 0
        BY <1>3, <1>7
    <2>23. g = Going(-d, Folded(l, i, Held(m, FoldedAt(list, j, back), -d), -d))
        <3> DEFINE e == -d
        <3>1. Shrinks(y, back) = e /\ e # 0
            BY <1>9, <2>22
        <3> HIDE DEF e
        <3>2. g = Going(e, Folded(l, i, Held(m, FoldedAt(list, j, back), e), e))
            BY <1>7, <1>11, <2>6, <2>8, <2>16, <2>17, <2>18, <2>19, <2>20, <2>21, <3>1, OuterIs
        <3> QED BY <3>2 DEF e
    <2>24. Folded(l, i, w, -d) = zs
        <3>1. Folded(Folded(zs, i, m, d), i, zs[i], -d) = zs
            BY <1>2, <1>3, <1>6, <1>13, FoldedBack DEF ZoneType
        <3> QED BY <2>2, <3>1 DEF w
    <2>25. g.list = zs
        BY <2>9, <2>11, <2>23, <2>24, GoingIs
    <2> QED BY <2>25 DEF l, z
<1> QED BY <1>14, <1>15

\* The innermost zone around a line is a leaf that holds it.
LEMMA InnermostIs ==
    ASSUME zones \in Seq(ZoneType), Ordered(zones), InnerOrdered(zones), NEW line \in Nat, NEW t \in Spots(zones),
           Within(zones[t[1]], line), Within(Spot(zones, t), line), Spot(zones, t).inner = <<>>
    PROVE  /\ Innermost(line) = IF t[2] = 0 THEN <<t[1]>> ELSE <<t[1], t[2]>>
           /\ ZoneAt(Innermost(line)) = Spot(zones, t)
<1> DEFINE i == t[1]
           j == t[2]
           ys == zones[i].inner
<1>1. i \in 1 .. Len(zones) /\ j \in 0 .. Len(ys) /\ j \in Nat
    BY DEF Spots
<1>2. At(zones, line) = i /\ zones # <<>>
    BY <1>1, AtIs
<1>3. ys \in Seq(ZoneType) /\ ys \in Seq(LeafType) /\ Ordered(ys)
    <2>1. zones[i] \in ZoneType
        BY <1>1
    <2>2. ys \in Seq(LeafType)
        BY <2>1 DEF ZoneType, ZonesWith
    <2> QED BY <1>1, <2>2, LeafLists DEF InnerOrdered
<1>4. At(ys, line) = j
    <2>1. CASE j = 0
        <3>1. ys = <<>>
            BY <2>1 DEF Spot
        <3> QED BY <2>1, <3>1, AtNone
    <2>2. CASE j # 0
        <3>1. j \in 1 .. Len(ys) /\ Within(ys[j], line)
            BY <1>1, <2>2 DEF Spot
        <3> HIDE DEF ys, j
        <3> QED BY <1>3, <3>1, AtIs
    <2> QED BY <2>1, <2>2
<1>5. Innermost(line) = IF j = 0 THEN <<i>> ELSE <<i, j>>
    BY <1>2, <1>4 DEF Innermost
<1>6. CASE j = 0
    <2>1. Innermost(line) = <<i>>
        BY <1>5, <1>6
    <2>2. ZoneAt(<<i>>) = zones[i]
        BY DEF ZoneAt
    <2> QED BY <1>6, <2>1, <2>2 DEF Spot
<1>7. CASE j # 0
    <2>1. Innermost(line) = <<i, j>>
        BY <1>5, <1>7
    <2>2. ZoneAt(<<i, j>>) = zones[i].inner[j]
        BY DEF ZoneAt
    <2> QED BY <1>7, <2>1, <2>2 DEF Spot
<1> QED BY <1>6, <1>7

\* Expanding undoes collapsing.
LEMMA ExpandUndoes ==
    ASSUME zones \in Seq(ZoneType), ZonesOK(zones, ranges, notes, comments), size \in Nat, size <= 2 * End
    PROVE  ExpandUndoesCollapse
<1> DEFINE o == Origins(ranges)
<1>1. Spanned(ranges, zones, o) /\ (zones # <<>> => Laid(zones, o, notes)) /\ Orderly(o)
    BY SpansFold DEF ZonesOK
<1>2. Ordered(zones) /\ InnerOrdered(zones) /\ \A k \in 1 .. Len(zones) : zones[k].high < Wrap
    <2>1. CASE zones = <<>>
        BY <2>1 DEF Ordered, InnerOrdered
    <2>2. CASE zones # <<>>
        BY <1>1, <2>2, SizesOK
    <2> QED BY <2>1, <2>2
<1>3. ASSUME NEW line \in Lines, NEW collapse \in BOOLEAN, NEW back \in BOOLEAN, collapse # back, collapse,
             Changed(GetRecursiveZoneByLine(line, collapse, zones))
      PROVE  GetRecursiveZoneByLine(ZoneAt(Innermost(line)).low, back, GetRecursiveZoneByLine(line, collapse, zones).list).list = zones
    <2> DEFINE r == GetRecursiveZoneByLine(line, collapse, zones)
    <2>1. line \in Nat
        BY DEF Lines
    <2>2. r.by # 0
        BY <1>3 DEF Changed
    <2>3. PICK t : /\ Target(zones, t, line, collapse) /\ r.list = Refolded(zones, t, collapse)
                   /\ r.by = Shrinks(Spot(zones, t), collapse)
        BY <1>2, <2>1, <2>2, FoldedOr
    <2> HIDE DEF r
    <2>4. /\ t \in Spots(zones) /\ t[1] \in 1 .. Len(zones) /\ Foldable(Spot(zones, t), collapse)
          /\ Within(zones[t[1]], line) /\ Within(Spot(zones, t), line)
        BY <2>3 DEF Target, Spots
    <2>5. Laid(zones, o, notes)
        BY <1>1, <2>4
    <2>6. GetRecursiveZoneByLine(Spot(zones, t).low, back, Refolded(zones, t, collapse)).list = zones
        BY <1>1, <1>3, <2>2, <2>3, <2>4, <2>5, FoldUndone
    <2>7. Spot(zones, t).inner = <<>>
        BY <2>4 DEF Foldable
    <2>8. ZoneAt(Innermost(line)) = Spot(zones, t)
        BY <1>2, <2>1, <2>4, <2>7, InnermostIs
    <2> QED BY <2>3, <2>6, <2>8 DEF r
<1>4. \A line \in Lines : Changed(GetRecursiveZoneByLine(line, TRUE, zones))
         => GetRecursiveZoneByLine(ZoneAt(Innermost(line)).low, FALSE, GetRecursiveZoneByLine(line, TRUE, zones).list).list = zones
    <2> SUFFICES ASSUME NEW line \in Lines, NEW collapse, NEW back, collapse = TRUE, back = FALSE,
                        Changed(GetRecursiveZoneByLine(line, collapse, zones))
                 PROVE  GetRecursiveZoneByLine(ZoneAt(Innermost(line)).low, back, GetRecursiveZoneByLine(line, collapse, zones).list).list = zones
        OBVIOUS
    <2>1. collapse \in BOOLEAN /\ back \in BOOLEAN /\ collapse # back /\ collapse
        OBVIOUS
    <2> QED BY <1>3, <2>1
<1> QED BY <1>4 DEF ExpandUndoesCollapse

-----------------------------------------------------------------------------
(* Comments.                                                               *)

\* The zone with nothing inside that holds a line, and where it is.
Holds(zs, t, line) ==
    /\ t \in Spots(zs) /\ Within(zs[t[1]], line) /\ Within(Spot(zs, t), line) /\ Spot(zs, t).inner = <<>>

\* Where an outer zone holds the line, a leaf in it does.
LEMMA LeafHere ==
    ASSUME NEW zs \in Seq(ZoneType), NEW o, Orderly(o), NEW n, Laid(zs, o, n), NEW line \in Nat, At(zs, line) # 0
    PROVE  \E t : Holds(zs, t, line) /\ t[1] = At(zs, line)
<1> DEFINE i == At(zs, line)
           z == zs[i]
           ys == z.inner
<1>1. Ordered(zs) /\ i \in 1 .. Len(zs) /\ Within(z, line)
    BY LaidIs, AtIs
<1>2. z \in ZoneType /\ AnyOK(z, o) /\ (ys # <<>> => Parent(z, o, n))
    BY <1>1, LaidIs
<1> HIDE DEF i
<1>3. CASE ys = <<>>
    <2> DEFINE t == <<i, 0>>
    <2>1. t \in Nat \X Nat /\ t[1] = i /\ t[2] = 0
        BY <1>1
    <2> HIDE DEF t
    <2>2. Spot(zs, t) = z
        BY <2>1 DEF Spot
    <2>3. t \in Spots(zs)
        BY <1>1, <1>3, <2>1 DEF Spots
    <2>4. Holds(zs, t, line)
        BY <1>1, <1>3, <2>1, <2>2, <2>3 DEF Holds
    <2> QED BY <2>1, <2>4 DEF i
<1>4. CASE ys # <<>>
    <2>1. /\ ys \in Seq(ZoneType) /\ Chain(ys, z.low, z.high)
          /\ \A j \in 1 .. Len(ys) : ys[j] \in ZoneType /\ Leaf(ys[j], o, n)
        BY <1>2, <1>4, InnerBounds DEF Parent
    <2>2. z.low \in Nat /\ z.high \in Nat
        BY <1>2, ZoneFields DEF ZoneType
    <2>3. line \in z.low .. z.high - 1
        BY <1>1, <2>2 DEF Within
    <2> HIDE DEF ys
    <2>4. PICK j \in 1 .. Len(ys) : Within(ys[j], line)
        BY <1>4, <2>1, <2>2, <2>3, SomeHolds
    <2> DEFINE t == <<i, j>>
    <2>5. t \in Nat \X Nat /\ t[1] = i /\ t[2] = j /\ t[2] # 0
        BY <1>1
    <2> HIDE DEF t
    <2>6. Spot(zs, t) = ys[j]
        BY <2>5 DEF Spot, ys
    <2>7. t \in Spots(zs)
        BY <1>1, <2>5 DEF Spots, ys
    <2>8. Holds(zs, t, line)
        BY <1>1, <2>1, <2>4, <2>5, <2>6, <2>7 DEF Holds, Leaf
    <2> QED BY <2>5, <2>8 DEF i
<1> QED BY <1>3, <1>4

\* Before the end of the listing, some zone holds the line.
LEMMA SomeZone ==
    ASSUME NEW zs \in Seq(ZoneType), NEW o, Orderly(o), NEW n, Laid(zs, o, n), NEW line \in 0 .. Wrap, o[line] < End
    PROVE  At(zs, line) # 0
<1> DEFINE last == zs[Len(zs)].high
<1>1. Ordered(zs) /\ Len(zs) \in 1 .. Len(zs) /\ zs # <<>> /\ Chain(zs, 0, last) /\ o[last] = End
    BY LaidIs DEF Laid
<1>2. last \in Nat /\ last <= Wrap
    BY <1>1, ZoneIs
<1> HIDE DEF last
<1>3. line \in Nat /\ last \in 0 .. Wrap
    BY <1>2, EndIs
<1>4. line < last
    <2>1. o[line] \in Nat
        BY OriginIs
    <2>2. last <= line => o[last] <= o[line]
        BY <1>3, OriginsGrow
    <2> QED BY <1>1, <1>2, <1>3, <2>1, <2>2, EndIs
<1>5. \E i \in 1 .. Len(zs) : Within(zs[i], line)
    <2>1. line \in 0 .. last - 1
        BY <1>2, <1>3, <1>4
    <2> QED BY <1>1, <1>2, <2>1, SomeHolds
<1>6. \A i \in 1 .. Len(zs) : Within(zs[i], line) => At(zs, line) = i
    BY <1>1, <1>3, AtIs
<1> QED BY <1>5, <1>6

\* A line is kept under the key of its place in its zone.
LEMMA KeyPlace ==
    ASSUME NEW I, NEW z \in ZonesWith(I), NEW o, Orderly(o), AnyOK(z, o), NEW n, Leaf(z, o, n),
           NEW line \in 0 .. Wrap, Within(z, line), NEW l \in 1 .. End - 1
    PROVE  Place(z, o, l) = Key(line) <=> o[line] = l
<1>0. End \in Nat /\ End > 0 /\ Wrap = 4 * End /\ Wrap \in Nat
    BY EndIs
<1>1. /\ z.low \in Nat /\ z.high \in Nat /\ z.low <= z.high /\ z.low <= End /\ z.high <= 2 * End
      /\ o[z.low] \in Nat /\ o[z.high] \in Nat /\ o[z.low] <= End /\ z.low <= o[z.low]
    <2>1. /\ z.low \in Nat /\ z.high \in Nat /\ z.low <= z.high /\ z.low <= End /\ z.high <= 2 * End
          /\ o[z.low] \in Nat /\ o[z.high] \in Nat /\ o[z.low] <= o[z.high] /\ o[z.high] <= End /\ z.low <= o[z.low]
        BY AnyBounds
    <2> QED BY <1>0, <2>1
<1>2. z.low <= line /\ line < z.high /\ line \in Nat
    BY DEF Within
<1>3. o[line] = Cap(o[z.low] + (line - z.low))
    <2>1. CASE z.collapsed
        <3>1. z.high = z.low + 1
            BY <2>1 DEF Leaf, Spread
        <3>2. line = z.low
            BY <1>1, <1>2, <3>1
        <3> QED BY <1>0, <1>1, <3>2 DEF Cap
    <2>2. CASE ~z.collapsed
        <3>1. Straight(z, o)
            BY <2>2 DEF Leaf, Spread
        <3>2. line \in z.low .. z.high
            BY <1>1, <1>2
        <3> QED BY <3>1, <3>2 DEF Straight
    <2> QED BY <2>1, <2>2
<1> DEFINE a == z.low  b == o[z.low]
<1>4. a \in Nat /\ b \in Nat /\ a <= b /\ b <= End /\ a <= line /\ line < 2 * End /\ line \in Nat /\ l \in Nat /\ 1 <= l /\ l < End
    BY <1>0, <1>1, <1>2
<1>5. Place(z, o, l) = Plus(l - 1, a - b) /\ Key(line) = Plus(line, -1)
    BY DEF Place, Key
<1>6. o[line] = Cap(b + (line - a))
    BY <1>3
<1> HIDE DEF a, b
<1> DEFINE x == (l - 1) + (a - b)
<1>7. x \in Int /\ -End <= x /\ x < End
    BY <1>0, <1>4
<1>8. (x < 0 => Plus(l - 1, a - b) = x + Wrap) /\ (0 <= x => Plus(l - 1, a - b) = x)
    <2>1. l - 1 \in Int /\ a - b \in Int /\ -Wrap <= (l - 1) + (a - b) /\ (l - 1) + (a - b) < 2 * Wrap
          /\ ((l - 1) + (a - b)) < Wrap
        BY <1>0, <1>4
    <2> QED BY <1>0, <1>7, <2>1, PlusIs
<1>9. (line = 0 => Plus(line, -1) = Wrap - 1) /\ (line # 0 => Plus(line, -1) = line - 1)
    <2>1. line \in Int /\ -1 \in Int /\ -Wrap <= line + (-1) /\ line + (-1) < 2 * Wrap /\ line + (-1) < Wrap
          /\ line + (-1) = line - 1
        BY <1>0, <1>4
    <2>2. /\ line + (-1) < 0 => Plus(line, -1) = line + (-1) + Wrap
          /\ 0 <= line + (-1) /\ line + (-1) < Wrap => Plus(line, -1) = line + (-1)
        BY <2>1, PlusIs
    <2> QED BY <1>0, <1>4, <2>1, <2>2
<1>10. Plus(l - 1, a - b) = Plus(line, -1) <=> line = l + a - b
    <2> DEFINE u == Plus(l - 1, a - b)  v == Plus(line, -1)
    <2>1. (x < 0 => u = x + Wrap) /\ (0 <= x => u = x) /\ (line = 0 => v = Wrap - 1) /\ (line # 0 => v = line - 1)
        BY <1>8, <1>9
    <2>2. x + 1 = l + a - b
        BY <1>4
    <2> HIDE DEF u, v, x
    <2>5. u = v <=> line = l + a - b
        <3>1. CASE line = 0
            <4>1. a = 0
                BY <1>4, <3>1
            <4>2. b = 0
                <5>1. o[0] = 0
                    BY <1>0, OriginIs
                <5> QED BY <4>1, <5>1 DEF a, b
            <4>3. 0 <= x /\ x < End
                BY <1>0, <1>4, <1>7, <2>2, <4>1, <4>2
            <4> QED BY <1>0, <1>4, <1>7, <2>1, <2>2, <3>1, <4>3
        <3>2. CASE line # 0
            BY <1>0, <1>4, <1>7, <2>1, <2>2, <3>2
        <3> QED BY <3>1, <3>2
    <2> QED BY <2>5 DEF u, v
<1>11. o[line] = l <=> line = l + a - b
    BY <1>0, <1>4, <1>6 DEF Cap
<1> QED BY <1>5, <1>10, <1>11

\* Without zones the root holds the comments, and nothing is folded.
LEMMA RootIs ==
    ASSUME zones = <<>>
    PROVE  Root = BareRoot(comments) /\ BareRoot(comments).comments = comments /\ BareRoot(comments).low = 0
           /\ BareRoot(comments).high = End
    BY DEF Root, BareRoot, Zone

LEMMA NoneSeen ==
    ASSUME NEW zs, zs = <<>>, NEW R, Spanned(R, zs, Origins(R))
    PROVE  R = {} /\ Orderly(Origins(R)) /\ \A x \in 0 .. Wrap : Origins(R)[x] = Cap(x)
<1>1. R = {}
    <2>1. Spots(zs) = {}
        BY DEF Spots
    <2> QED BY <2>1 DEF Spanned, IsSpan
<1>2. Folds(R)
    BY <1>1 DEF Folds
<1>3. Orderly(Origins(R))
    BY <1>2, OriginsOrderly
<1>4. Seen(R) = 0 .. End - 1
    BY <1>1 DEF Seen
<1>5. ASSUME NEW l \in 0 .. End - 1
      PROVE  Rank(0 .. End - 1, l) = l
    <2>1. {m \in 0 .. End - 1 : m < l} = 0 .. l - 1
        BY EndIs
    <2>2. Cardinality(0 .. l - 1) = l
        <3>1. 0 \in Int /\ l - 1 \in Int /\ l \in Nat
            BY EndIs
        <3> QED BY <3>1, FS_Interval
    <2> QED BY <2>1, <2>2 DEF Rank
<1>6. ASSUME NEW x \in 0 .. Wrap
      PROVE  Origins(R)[x] = Cap(x)
    <2>1. x \in Nat
        BY EndIs
    <2> DEFINE S == 0 .. End - 1
    <2>2. Origins(R)[x] = Nth(S, x)
        BY <1>4 DEF Origins
    <2>3. S \in Sights
        BY DEF Sights
    <2>4. /\ Nth(S, x) \in 0 .. End
          /\ Nth(S, x) < End => Nth(S, x) \in S /\ Rank(S, Nth(S, x)) = x
          /\ \A l \in S : Rank(S, l) = x => Nth(S, x) = l
        BY <2>1, <2>3, NthIs
    <2>5. x < End => Nth(S, x) = x
        <3> SUFFICES ASSUME x < End
                     PROVE  Nth(S, x) = x
            OBVIOUS
        <3>1. x \in 0 .. End - 1
            BY <2>1, EndIs
        <3>2. x \in S /\ Rank(S, x) = x
            BY <1>5, <3>1
        <3> HIDE DEF S
        <3> QED BY <2>4, <3>2
    <2>6. ~(x < End) => Nth(S, x) = End
        BY <1>5, <2>1, <2>4, EndIs
    <2> QED BY <2>2, <2>5, <2>6 DEF Cap
<1> QED BY <1>1, <1>3, <1>6

\* Without zones the listing is as a zone of its own.
LEMMA RootSound ==
    ASSUME NEW R, NEW n, NEW cs \in Maps(Notes), ZonesOK(<<>>, R, n, cs)
    PROVE  /\ Orderly(Origins(R)) /\ BareRoot(cs) \in LeafType
           /\ AnyOK(BareRoot(cs), Origins(R)) /\ Leaf(BareRoot(cs), Origins(R), n)
<1> DEFINE o == Origins(R)
           z == BareRoot(cs)
           e == <<>>
<1>0. End \in Nat /\ End > 0 /\ Wrap = 4 * End /\ Wrap \in Nat /\ Labels \subseteq 0 .. End - 1
    BY EndIs
<1>1. Spanned(R, e, o) /\ Noted(z, o, n)
    BY DEF ZonesOK
<1>2. R = {} /\ Orderly(o) /\ \A x \in 0 .. Wrap : o[x] = Cap(x)
    <2> HIDE DEF e
    <2>1. e = <<>>
        BY DEF e
    <2> QED BY <1>1, <2>1, NoneSeen
<1>3. /\ z.low = 0 /\ z.high = End /\ z.workLow = 0 /\ z.workHigh = End /\ z.named = FALSE /\ z.asm = 0
      /\ z.labels = [l \in Labels |-> l] /\ z.comments = cs /\ z.collapsed = FALSE /\ z.inner = <<>>
    BY DEF BareRoot, Zone
<1>4. [l \in Labels |-> l] \in Maps(Labels)
    <2>1. Labels \subseteq Words
        BY <1>0 DEF Words
    <2> QED BY <2>1 DEF Maps
<1>5. z \in LeafType
    <2>1. 0 \in Coords /\ End \in Coords /\ 0 \in Words
        BY <1>0 DEF Coords, Words
    <2> QED BY <1>4, <2>1 DEF LeafType, ZonesWith, BareRoot, Zone
<1> HIDE DEF o, z
<1>6. o[0] = 0 /\ o[End] = End
    <2>1. 0 \in 0 .. Wrap /\ End \in 0 .. Wrap
        BY <1>0
    <2> QED BY <1>0, <1>2, <2>1 DEF Cap
<1>7. AnyOK(z, o)
    <2>1. Instr(0) = 0
        <3>1. {m \in 0 .. 0 - 1 : m \notin Labels} = {}
            OBVIOUS
        <3> QED BY <3>1, FS_EmptySet DEF Instr
    <2>2. Labelled(z, o)
        <3> SUFFICES ASSUME NEW k \in Words
                     PROVE  /\ k \in DOMAIN z.labels <=> z.low <= k /\ o[z.low] + (k - z.low) \in Labels
                                                         /\ o[z.low] + (k - z.low) < o[z.high]
                            /\ k \in DOMAIN z.labels => z.labels[k] = o[z.low] + (k - z.low)
            BY DEF Labelled
        <3>1. k \in Nat /\ 0 + (k - 0) = k
            BY <1>0 DEF Words
        <3>2. k \in Labels => 0 <= k /\ k < End
            BY <1>0
        <3> QED BY <1>3, <1>6, <3>1, <3>2
    <2> QED BY <1>0, <1>3, <1>6, <2>1, <2>2 DEF AnyOK
<1>8. Spread(z, o)
    <2>1. Straight(z, o)
        <3> SUFFICES ASSUME NEW x \in z.low .. z.high
                     PROVE  o[x] = Cap(o[z.low] + (x - z.low))
            BY DEF Straight
        <3>1. x \in 0 .. Wrap /\ 0 + (x - 0) = x
            BY <1>0, <1>3
        <3> QED BY <1>2, <1>3, <1>6, <3>1
    <2> QED BY <1>0, <1>3, <2>1 DEF Spread, Work
<1>9. Leaf(z, o, n)
    BY <1>1, <1>3, <1>8 DEF Leaf, o, z
<1> QED BY <1>2, <1>5, <1>7, <1>9 DEF o, z

LEMMA BareKey ==
    ASSUME NEW R, Spanned(R, <<>>, Origins(R)), NEW cs, NEW line \in 0 .. Wrap, NEW l \in 1 .. End - 1
    PROVE  Place(BareRoot(cs), Origins(R), l) = Key(line) <=> Origins(R)[line] = l
<1> DEFINE o == Origins(R)
           e == <<>>
<1>0. End \in Nat /\ End > 0 /\ Wrap = 4 * End /\ Wrap \in Nat
    BY EndIs
<1>1. o[line] = Cap(line) /\ o[0] = 0
    <2>1. e = <<>> /\ Spanned(R, e, o)
        OBVIOUS
    <2> HIDE DEF e
    <2>2. Orderly(o) /\ \A x \in 0 .. Wrap : o[x] = Cap(x)
        BY <2>1, NoneSeen
    <2> QED BY <2>2, OriginIs
<1> HIDE DEF o
<1>2. Place(BareRoot(cs), o, l) = Plus(l - 1, 0 - o[0]) /\ Key(line) = Plus(line, -1)
    BY DEF Place, Key, BareRoot, Zone
<1>3. Plus(l - 1, 0) = l - 1
    <2>1. l - 1 \in Int /\ 0 <= (l - 1) + 0 /\ (l - 1) + 0 < Wrap /\ -Wrap <= (l - 1) + 0 /\ (l - 1) + 0 < 2 * Wrap
          /\ (l - 1) + 0 = l - 1
        BY <1>0
    <2> QED BY <2>1, PlusIs
<1>4. (line = 0 => Plus(line, -1) = Wrap - 1) /\ (line # 0 => Plus(line, -1) = line - 1)
    <2>1. line \in Int /\ -1 \in Int /\ -Wrap <= line + (-1) /\ line + (-1) < 2 * Wrap /\ line + (-1) < Wrap
          /\ line + (-1) = line - 1
        BY <1>0
    <2>2. /\ line + (-1) < 0 => Plus(line, -1) = line + (-1) + Wrap
          /\ 0 <= line + (-1) /\ line + (-1) < Wrap => Plus(line, -1) = line + (-1)
        BY <2>1, PlusIs
    <2> QED BY <1>0, <2>1, <2>2
<1>5. Place(BareRoot(cs), o, l) = l - 1
    <2>1. 0 - o[0] = 0
        BY <1>1
    <2> QED BY <1>2, <1>3, <2>1
<1>6. o[line] = l <=> line = l
    BY <1>0, <1>1 DEF Cap
<1>7. Key(line) = l - 1 <=> line = l
    BY <1>0, <1>2, <1>4
<1> QED BY <1>5, <1>6, <1>7 DEF o

\* The zone of a line, the only place of its comment.
Home(line, p, z) ==
    /\ p = Innermost(line) /\ z = ZoneAt(p) /\ Len(p) \in Nat
    /\ Places(line) = (IF Key(line) \in DOMAIN z.comments THEN {p} ELSE {})
    /\ zones = <<>> \/ At(zones, line) # 0

\* Only the home of a line has its comment.
LEMMA HomeComment ==
    ASSUME NEW line, NEW p, NEW z, Home(line, p, z)
    PROVE  /\ CommentAt(line) = IF Key(line) \in DOMAIN z.comments THEN {z.comments[Key(line)]} ELSE {}
           /\ CommentAt(line) # {} => (CHOOSE q \in Places(line) : \A r \in Places(line) : Len(r) <= Len(q)) = p
<1>1. /\ z = ZoneAt(p) /\ Len(p) \in Nat /\ ~(zones # <<>> /\ At(zones, line) = 0)
      /\ Places(line) = (IF Key(line) \in DOMAIN z.comments THEN {p} ELSE {})
    BY DEF Home
<1>2. CASE Key(line) \in DOMAIN z.comments
    <2>1. Places(line) = {p}
        BY <1>1, <1>2
    <2>2. \A q \in {p} : \A r \in {p} : Len(r) <= Len(q)
        BY <1>1
    <2>3. (CHOOSE q \in Places(line) : \A r \in Places(line) : Len(r) <= Len(q)) = p
        BY <2>1, <2>2
    <2> QED BY <1>1, <1>2, <2>1, <2>3 DEF CommentAt
<1>3. CASE Key(line) \notin DOMAIN z.comments
    BY <1>1, <1>3 DEF CommentAt
<1> QED BY <1>2, <1>3

LEMMA HomeOfRoot ==
    ASSUME zones = <<>>, NEW line
    PROVE  Home(line, <<>>, BareRoot(comments)) /\ Innermost(line) = <<>>
<1> DEFINE e == <<>>
<1>1. Innermost(line) = e
    BY DEF Innermost
<1>2. Len(e) = 0 /\ SubSeq(e, 1, Len(e) - 1) = e
    OBVIOUS
<1>3. ZoneAt(e) = BareRoot(comments)
    BY <1>2, RootIs DEF ZoneAt
<1>4. DOMAIN e = {}
    OBVIOUS
<1>5. {<<i>> : i \in Range(SubSeq(e, 1, Len(e) - 1))} = {}
    BY <1>2, <1>4 DEF Range
<1> HIDE DEF e
<1>6. Places(line) = {q \in {e} : Key(line) \in DOMAIN ZoneAt(q).comments}
    BY <1>1, <1>5 DEF Places
<1> QED BY <1>1, <1>2, <1>3, <1>6 DEF Home, e

LEMMA HomeOfLeaf ==
    ASSUME zones \in Seq(ZoneType), NEW o, Orderly(o), NEW n, Laid(zones, o, n), NEW line \in Nat, NEW t,
           Holds(zones, t, line)
    PROVE  /\ Home(line, Innermost(line), Spot(zones, t))
           /\ Innermost(line) = IF t[2] = 0 THEN <<t[1]>> ELSE <<t[1], t[2]>>
<1> DEFINE p == Innermost(line)
           z == Spot(zones, t)
<1>1. t \in Spots(zones) /\ Within(zones[t[1]], line) /\ Within(z, line) /\ z.inner = <<>>
    BY DEF Holds
<1>2. Ordered(zones) /\ InnerOrdered(zones)
    BY LaidIs
<1>3. p = (IF t[2] = 0 THEN <<t[1]>> ELSE <<t[1], t[2]>>) /\ ZoneAt(p) = z
    BY <1>1, <1>2, InnermostIs
<1>4. t[1] \in 1 .. Len(zones) /\ (t[2] # 0 => Parent(zones[t[1]], o, n))
    BY <1>1, SpotIs
<1>5. At(zones, line) # 0
    <2>1. At(zones, line) = t[1]
        BY <1>1, <1>2, <1>4, AtIs
    <2> QED BY <1>4, <2>1
<1> HIDE DEF p
<1>6. Places(line) = {q \in {p} \cup {<<i>> : i \in Range(SubSeq(p, 1, Len(p) - 1))} : Key(line) \in DOMAIN ZoneAt(q).comments}
    BY DEF Places, p
<1>7. CASE t[2] = 0
    <2>1. p = <<t[1]>> /\ Len(p) = 1
        BY <1>3, <1>7
    <2>2. SubSeq(p, 1, Len(p) - 1) = <<>>
        BY <2>1
    <2>3. {<<i>> : i \in Range(SubSeq(p, 1, Len(p) - 1))} = {}
        BY <2>2 DEF Range
    <2> QED BY <1>3, <1>5, <1>6, <2>1, <2>3 DEF Home, p
<1>8. CASE t[2] # 0
    <2>1. p = <<t[1], t[2]>> /\ Len(p) = 2 /\ p[1] = t[1]
        BY <1>3, <1>8
    <2>2. \A q \in {<<i>> : i \in Range(SubSeq(p, 1, Len(p) - 1))} : q = <<t[1]>>
        <3> SUFFICES ASSUME NEW i \in Range(SubSeq(p, 1, Len(p) - 1))
                     PROVE  i = t[1]
            OBVIOUS
        <3> DEFINE s == SubSeq(p, 1, Len(p) - 1)
        <3>1. p \in Seq({t[1], t[2]})
            BY <2>1
        <3>2. s \in Seq({t[1], t[2]}) /\ Len(s) = 1 /\ s[1] = p[1]
            BY <2>1, <3>1, SubSeqProperties
        <3> HIDE DEF s
        <3>3. DOMAIN s = {1}
            BY <3>2
        <3>4. i \in Range(s)
            BY DEF s
        <3> QED BY <2>1, <3>2, <3>3, <3>4 DEF Range
    <2>3. ZoneAt(<<t[1]>>) = zones[t[1]]
        BY DEF ZoneAt
    <2>4. DOMAIN zones[t[1]].comments = {}
        BY <1>4, <1>8 DEF Parent
    <2>5. Places(line) = (IF Key(line) \in DOMAIN z.comments THEN {p} ELSE {})
        BY <1>3, <1>6, <2>2, <2>3, <2>4, ZenonT(60)
    <2> QED BY <1>3, <1>5, <2>1, <2>5 DEF Home, p
<1> QED BY <1>7, <1>8

\* The keys of a zone that stand for what the zone shows.
Keyed(z, o, line) == \A l \in 1 .. End - 1 : Place(z, o, l) = Key(line) <=> o[line] = l
Spans(z, o, line) == o[line] < End => o[z.low] <= o[line] /\ o[line] < o[z.high]

LEMMA SpansLine ==
    ASSUME NEW I, NEW z \in ZonesWith(I), NEW o, Orderly(o), AnyOK(z, o), NEW line \in 0 .. Wrap, Within(z, line)
    PROVE  Spans(z, o, line)
<1>1. z.low \in 0 .. Wrap /\ z.high \in 0 .. Wrap /\ z.low <= line /\ line < z.high
    BY AnyBounds DEF Within
<1>2. o[z.low] <= o[line] /\ (o[line] < o[z.high] \/ o[z.high] = End)
    BY <1>1, OriginsGrow
<1> QED BY <1>2 DEF Spans

\* Every line of the listing has a home, keyed by the listing line.
LEMMA HomeIs ==
    ASSUME zones \in Seq(ZoneType), comments \in Maps(Notes), ZonesOK(zones, ranges, notes, comments),
           NEW line \in 0 .. Wrap, zones = <<>> \/ At(zones, line) # 0
    PROVE  \E z \in LeafType :
              /\ Home(line, Innermost(line), z) /\ Leaf(z, Origins(ranges), notes)
              /\ Keyed(z, Origins(ranges), line) /\ Spans(z, Origins(ranges), line)
              /\ zones = <<>> => z = BareRoot(comments) /\ Innermost(line) = <<>>
              /\ zones # <<>> => \E t : /\ Holds(zones, t, line) /\ z = Spot(zones, t)
                                        /\ Innermost(line) = IF t[2] = 0 THEN <<t[1]>> ELSE <<t[1], t[2]>>
<1> DEFINE o == Origins(ranges)
<1>0. End \in Nat /\ End > 0 /\ Wrap = 4 * End /\ Wrap \in Nat /\ line \in Nat
    BY EndIs
<1>1. Spanned(ranges, zones, o) /\ Orderly(o)
    BY SpansFold DEF ZonesOK
<1>2. CASE zones = <<>>
    <2> DEFINE z == BareRoot(comments)
    <2>1. Home(line, <<>>, z) /\ Innermost(line) = <<>>
        BY <1>2, HomeOfRoot
    <2>2. ZonesOK(<<>>, ranges, notes, comments) /\ Spanned(ranges, <<>>, o)
        BY <1>1, <1>2
    <2>3. z \in LeafType /\ AnyOK(z, o) /\ Leaf(z, o, notes)
        BY <2>2, RootSound
    <2>4. Keyed(z, o, line)
        BY <2>2, BareKey DEF Keyed
    <2>5. Spans(z, o, line)
        <3>1. z.low = 0 /\ z.high = End /\ o[0] = 0 /\ o[line] \in Nat
            BY <1>0, <1>1, <1>2, RootIs, OriginIs
        <3>2. o[End] = End
            <4>1. \A x \in 0 .. Wrap : o[x] = Cap(x)
                <5> DEFINE e == zones
                <5>1. e = <<>> /\ Spanned(ranges, e, Origins(ranges))
                    BY <1>1, <1>2
                <5> QED BY <5>1, NoneSeen
            <4> QED BY <1>0, <4>1 DEF Cap
        <3> QED BY <1>0, <3>1, <3>2 DEF Spans
    <2> HIDE DEF z
    <2> QED BY <1>2, <2>1, <2>3, <2>4, <2>5 DEF z
<1>3. CASE zones # <<>>
    <2>1. Laid(zones, o, notes)
        BY <1>3 DEF ZonesOK
    <2>2. PICK t : Holds(zones, t, line) /\ t[1] = At(zones, line)
        BY <1>0, <1>1, <1>3, <2>1, LeafHere
    <2> DEFINE z == Spot(zones, t)
    <2>3. t \in Spots(zones) /\ Within(z, line) /\ z.inner = <<>>
        BY <2>2 DEF Holds
    <2>4. z \in ZoneType /\ AnyOK(z, o) /\ Leaf(z, o, notes)
        BY <1>1, <2>1, <2>3, SpotIs
    <2>5. z \in LeafType
        BY <2>3, <2>4, LeafOf
    <2>6. Keyed(z, o, line)
        <3>1. z \in ZonesWith({<<>>})
            BY <2>5 DEF LeafType
        <3> SUFFICES ASSUME NEW l \in 1 .. End - 1
                     PROVE  Place(z, o, l) = Key(line) <=> o[line] = l
            BY DEF Keyed
        <3> HIDE DEF z, o
        <3>2. Orderly(o) /\ AnyOK(z, o) /\ Leaf(z, o, notes) /\ Within(z, line)
            BY <1>1, <2>3, <2>4 DEF z, o
        <3> QED BY <3>1, <3>2, KeyPlace
    <2>7. Spans(z, o, line)
        <3>1. z \in ZonesWith({<<>>})
            BY <2>5 DEF LeafType
        <3> HIDE DEF z, o
        <3>2. Orderly(o) /\ AnyOK(z, o) /\ Within(z, line)
            BY <1>1, <2>3, <2>4 DEF z, o
        <3> QED BY <3>1, <3>2, SpansLine
    <2>8. /\ Home(line, Innermost(line), z)
          /\ Innermost(line) = IF t[2] = 0 THEN <<t[1]>> ELSE <<t[1], t[2]>>
        BY <1>0, <1>1, <2>1, <2>2, HomeOfLeaf
    <2> QED BY <1>3, <2>2, <2>4, <2>5, <2>6, <2>7, <2>8
<1> QED BY <1>2, <1>3

\* The comments found are those the user made: CommentsStay.
LEMMA CommentsHold ==
    ASSUME zones \in Seq(ZoneType), comments \in Maps(Notes), ZonesOK(zones, ranges, notes, comments),
           size \in Nat, size <= 2 * End
    PROVE  CommentsStay
<1> DEFINE o == Origins(ranges)
<1> SUFFICES ASSUME NEW line \in Lines, Origin(line) \in 1 .. End - 1
             PROVE  CommentAt(line) = {notes[m] : m \in DOMAIN notes \cap {Origin(line)}}
    BY DEF CommentsStay
<1>0. End \in Nat /\ End > 0 /\ Wrap = 4 * End /\ Wrap \in Nat
    BY EndIs
<1>1. line \in 0 .. Wrap
    BY <1>0 DEF Lines
<1>2. Origin(line) = o[line]
    BY <1>1, OriginSame
<1>3. o[line] \in 1 .. End - 1 /\ o[line] < End
    BY <1>0, <1>2
<1>4. zones = <<>> \/ At(zones, line) # 0
    <2> SUFFICES ASSUME zones # <<>>
                 PROVE  At(zones, line) # 0
        OBVIOUS
    <2>1. Laid(zones, o, notes) /\ Orderly(o)
        BY SpansFold DEF ZonesOK
    <2> QED BY <1>1, <1>3, <2>1, SomeZone
<1>5. PICK z \in LeafType : /\ Home(line, Innermost(line), z) /\ Leaf(z, o, notes)
                            /\ Keyed(z, o, line) /\ Spans(z, o, line)
    BY <1>1, <1>4, HomeIs
<1>6. CommentAt(line) = IF Key(line) \in DOMAIN z.comments THEN {z.comments[Key(line)]} ELSE {}
    BY <1>5, HomeComment
<1> DEFINE l == o[line]
<1> HIDE DEF o
<1>7. Place(z, o, l) = Key(line) /\ o[z.low] <= l /\ l < o[z.high]
    BY <1>3, <1>5 DEF Keyed, Spans
<1>8. /\ Place(z, o, l) \in DOMAIN z.comments <=> o[z.low] <= l /\ l < o[z.high] /\ l \in DOMAIN notes
      /\ Place(z, o, l) \in DOMAIN z.comments => z.comments[Place(z, o, l)] = notes[l]
    BY <1>3, <1>5 DEF Leaf, Noted
<1> QED BY <1>2, <1>6, <1>7, <1>8 DEF o

\* A map without a key.
Drop(f, key) == RestrictDomain(f, LAMBDA k : k # key)

LEMMA DropIs ==
    ASSUME NEW f, NEW key
    PROVE  DOMAIN Drop(f, key) = DOMAIN f \ {key} /\ \A k \in DOMAIN f \ {key} : Drop(f, key)[k] = f[k]
<1>1. Drop(f, key) = [k \in {x \in DOMAIN f : x # key} |-> f[k]]
    BY DEF Drop, RestrictDomain, Restrict
<1> QED BY <1>1

LEMMA DropType ==
    ASSUME NEW X, NEW f \in Maps(X), NEW key
    PROVE  Drop(f, key) \in Maps(X)
<1>1. Drop(f, key) = [k \in {x \in DOMAIN f : x # key} |-> f[k]]
    BY DEF Drop, RestrictDomain, Restrict
<1>2. DOMAIN f \subseteq Words /\ \A k \in DOMAIN f : f[k] \in X
    BY MapIs
<1> DEFINE D == {x \in DOMAIN f : x # key}
<1>3. Drop(f, key) \in [D -> X] /\ D \in SUBSET Words
    BY <1>1, <1>2
<1> QED BY <1>3 DEF Maps

\* Two histories of comments that differ only at a line.
AgreesBut(n, m, l) ==
    \A x \in 1 .. End - 1 : x # l => (x \in DOMAIN m <=> x \in DOMAIN n) /\ (x \in DOMAIN n => m[x] = n[x])
\* Two zones that differ only in their comment of a line.
KeptBut(y, z, key) ==
    /\ y.low = z.low
    /\ \A k \in Words : k # key => /\ k \in DOMAIN y.comments <=> k \in DOMAIN z.comments
                                   /\ k \in DOMAIN z.comments => y.comments[k] = z.comments[k]

\* Changing the comment of one line changes nothing for a zone that does not show it, and one
\* key for the zone that does.
LEMMA NotedOutside ==
    ASSUME NEW z, NEW o, NEW n, Noted(z, o, n), NEW m, NEW l, AgreesBut(n, m, l),
           l \in 1 .. End - 1 => ~(o[z.low] <= l /\ l < o[z.high])
    PROVE  Noted(z, o, m)
<1> SUFFICES ASSUME NEW x \in 1 .. End - 1
             PROVE  /\ Place(z, o, x) \in DOMAIN z.comments <=> o[z.low] <= x /\ x < o[z.high] /\ x \in DOMAIN m
                    /\ Place(z, o, x) \in DOMAIN z.comments => z.comments[Place(z, o, x)] = m[x]
    BY DEF Noted
<1>1. /\ Place(z, o, x) \in DOMAIN z.comments <=> o[z.low] <= x /\ x < o[z.high] /\ x \in DOMAIN n
      /\ Place(z, o, x) \in DOMAIN z.comments => z.comments[Place(z, o, x)] = n[x]
    BY DEF Noted
<1>2. x # l => (x \in DOMAIN m <=> x \in DOMAIN n) /\ (x \in DOMAIN n => m[x] = n[x])
    BY DEF AgreesBut
<1> QED BY <1>1, <1>2

LEMMA NotedAt ==
    ASSUME NEW z, NEW y, NEW o, NEW n, Noted(z, o, n), NEW m, NEW line, AgreesBut(n, m, o[line]),
           Keyed(z, o, line), Spans(z, o, line), KeptBut(y, z, Key(line)), y.high = z.high,
           Key(line) \in DOMAIN y.comments <=> o[line] \in DOMAIN m,
           Key(line) \in DOMAIN y.comments => y.comments[Key(line)] = m[o[line]],
           o[z.low] \in Int, o[z.low] >= 0, o[z.low] <= End, z.low \in Int, 0 <= z.low, z.low <= End
    PROVE  Noted(y, o, m)
<1> DEFINE l == o[line]
<1> SUFFICES ASSUME NEW x \in 1 .. End - 1
             PROVE  /\ Place(y, o, x) \in DOMAIN y.comments <=> o[y.low] <= x /\ x < o[y.high] /\ x \in DOMAIN m
                    /\ Place(y, o, x) \in DOMAIN y.comments => y.comments[Place(y, o, x)] = m[x]
    BY DEF Noted
<1>0. End \in Nat /\ End > 0 /\ Wrap = 4 * End /\ Wrap \in Nat
    BY EndIs
<1>1. /\ Place(z, o, x) \in DOMAIN z.comments <=> o[z.low] <= x /\ x < o[z.high] /\ x \in DOMAIN n
      /\ Place(z, o, x) \in DOMAIN z.comments => z.comments[Place(z, o, x)] = n[x]
    BY DEF Noted
<1>2. y.low = z.low /\ Place(y, o, x) = Place(z, o, x)
    BY DEF KeptBut, Place
<1>3. Place(z, o, x) = Key(line) <=> l = x
    BY DEF Keyed
<1>4. Place(z, o, x) \in Words
    <2> DEFINE a == z.low  b == o[z.low]
    <2>1. a - b \in Int /\ x - 1 \in Int /\ -Wrap <= (x - 1) + (a - b) /\ (x - 1) + (a - b) < 2 * Wrap
        BY <1>0
    <2>2. Place(z, o, x) = Plus(x - 1, a - b)
        BY DEF Place
    <2> HIDE DEF a, b
    <2>3. Plus(x - 1, a - b) \in Words
        BY <2>1, PlusIs
    <2> QED BY <2>2, <2>3
<1> HIDE DEF l
<1>5. CASE x = l
    <2>1. o[z.low] <= x /\ x < o[z.high]
        BY <1>0, <1>5 DEF Spans, l
    <2> QED BY <1>2, <1>3, <1>5, <2>1 DEF l
<1>6. CASE x # l
    <2>1. (x \in DOMAIN m <=> x \in DOMAIN n) /\ (x \in DOMAIN n => m[x] = n[x])
        BY <1>6 DEF AgreesBut, l
    <2>2. /\ Place(z, o, x) \in DOMAIN y.comments <=> Place(z, o, x) \in DOMAIN z.comments
          /\ Place(z, o, x) \in DOMAIN z.comments => y.comments[Place(z, o, x)] = z.comments[Place(z, o, x)]
        BY <1>3, <1>4, <1>6 DEF KeptBut
    <2> QED BY <1>1, <1>2, <2>1, <2>2
<1> QED BY <1>5, <1>6

\* A comment is put into the zone t, or taken from it.
Remarked(z, f) == [z EXCEPT !.comments = f]
Recommented(zs, t, f) ==
    IF t[2] = 0 THEN [zs EXCEPT ![t[1]].comments = f]
    ELSE [zs EXCEPT ![t[1]].inner[t[2]].comments = f]

SameButComments(m, z) ==
    /\ m.low = z.low /\ m.high = z.high /\ m.workLow = z.workLow /\ m.workHigh = z.workHigh
    /\ m.named = z.named /\ m.asm = z.asm /\ m.labels = z.labels /\ m.collapsed = z.collapsed

LEMMA RemarkedIs ==
    ASSUME NEW I, NEW z \in ZonesWith(I), NEW f \in Maps(Notes)
    PROVE  /\ Remarked(z, f) \in ZonesWith(I) /\ SameButComments(Remarked(z, f), z)
           /\ Remarked(z, f).comments = f /\ Remarked(z, f).inner = z.inner
    BY DEF Remarked, SameButComments, ZonesWith

LEMMA FilledIs ==
    ASSUME NEW z \in ZoneType, NEW list \in Seq(LeafType)
    PROVE  /\ Filled(z, list) \in ZoneType /\ SameButComments(Filled(z, list), z)
           /\ Filled(z, list).comments = z.comments /\ Filled(z, list).inner = list
    BY DEF Filled, SameButComments, ZoneType, ZonesWith

\* Comments do not matter to the rest of a zone.
LEMMA StaysCommented ==
    ASSUME NEW z, NEW m, SameButComments(m, z), NEW o
    PROVE  /\ AnyOK(z, o) => AnyOK(m, o)
           /\ Spread(z, o) => Spread(m, o)
           /\ RangeOf(m, o) = RangeOf(z, o)
<1>1. /\ m.low = z.low /\ m.high = z.high /\ m.workLow = z.workLow /\ m.workHigh = z.workHigh
      /\ m.named = z.named /\ m.asm = z.asm /\ m.labels = z.labels /\ m.collapsed = z.collapsed
    BY DEF SameButComments
<1>2. AnyOK(z, o) => AnyOK(m, o)
    BY <1>1 DEF AnyOK, Labelled
<1>3. Spread(z, o) => Spread(m, o)
    BY <1>1 DEF Spread, Straight, Work
<1>4. RangeOf(m, o) = RangeOf(z, o)
    BY <1>1 DEF RangeOf
<1> QED BY <1>2, <1>3, <1>4

Replaced(zs, i, y) == [zs EXCEPT ![i] = y]

LEMMA ReplacedIs ==
    ASSUME NEW X, NEW zs \in Seq(X), NEW i \in 1 .. Len(zs), NEW y \in X
    PROVE  /\ Replaced(zs, i, y) \in Seq(X) /\ Len(Replaced(zs, i, y)) = Len(zs)
           /\ Replaced(zs, i, y)[i] = y /\ \A k \in 1 .. Len(zs) : k # i => Replaced(zs, i, y)[k] = zs[k]
    BY DEF Replaced

LEMMA RecommentedIs ==
    ASSUME NEW zs \in Seq(ZoneType), NEW t \in Spots(zs), NEW f
    PROVE  /\ t[2] = 0 => Recommented(zs, t, f) = Replaced(zs, t[1], Remarked(zs[t[1]], f))
           /\ t[2] # 0 => Recommented(zs, t, f) =
                Replaced(zs, t[1], Filled(zs[t[1]], Replaced(zs[t[1]].inner, t[2], Remarked(zs[t[1]].inner[t[2]], f))))
    BY DEF Recommented, Replaced, Filled, Remarked

\* Only the zone at t changes, and only its comments.
LEMMA RecommentSpots ==
    ASSUME NEW zs \in Seq(ZoneType), NEW t \in Spots(zs), NEW f \in Maps(Notes), Spot(zs, t).inner = <<>>
    PROVE  LET l == Recommented(zs, t, f)
           IN  /\ l \in Seq(ZoneType) /\ Len(l) = Len(zs) /\ Spots(l) = Spots(zs)
               /\ \A c \in Spots(zs) :
                    /\ SameButComments(Spot(l, c), Spot(zs, c))
                    /\ c # t => Spot(l, c).comments = Spot(zs, c).comments
                    /\ Spot(zs, c).inner = <<>> => Spot(l, c).inner = <<>>
                    /\ Len(Spot(l, c).inner) = Len(Spot(zs, c).inner)
               /\ Spot(l, t) = Remarked(Spot(zs, t), f)
<1> DEFINE l == Recommented(zs, t, f)
           i == t[1]
           z == zs[i]
<1>1. /\ t \in Nat \X Nat /\ i \in 1 .. Len(zs) /\ t[2] \in 0 .. Len(z.inner) /\ z \in ZoneType
      /\ \A k \in 1 .. Len(zs) : zs[k] \in ZoneType
    BY ZoneIs DEF Spots
<1>2. \E y : /\ l = Replaced(zs, i, y) /\ y \in ZoneType /\ SameButComments(y, z)
             /\ t[2] = 0 => y = Remarked(z, f) /\ y.inner = z.inner
             /\ t[2] # 0 => /\ y.comments = z.comments
                            /\ y.inner = Replaced(z.inner, t[2], Remarked(z.inner[t[2]], f))
                            /\ z.inner \in Seq(LeafType)
    <2>1. CASE t[2] = 0
        <3>1. z \in ZonesWith(Seq(LeafType))
            BY <1>1 DEF ZoneType
        <3> HIDE DEF z
        <3>2. Remarked(z, f) \in ZonesWith(Seq(LeafType)) /\ SameButComments(Remarked(z, f), z) /\ Remarked(z, f).inner = z.inner
            BY <3>1, RemarkedIs, SMTT(60)
        <3> QED BY <2>1, <3>2, RecommentedIs DEF ZoneType, z
    <2>2. CASE t[2] # 0
        <3> DEFINE ys == z.inner  j == t[2]
        <3>1. ys \in Seq(LeafType) /\ j \in 1 .. Len(ys)
            BY <1>1, <2>2, ZoneFields DEF ZoneType
        <3>2. ys[j] \in LeafType
            BY <3>1
        <3> HIDE DEF ys, j
        <3>3. Remarked(ys[j], f) \in LeafType
            BY <3>2, RemarkedIs DEF LeafType
        <3> DEFINE list == Replaced(ys, j, Remarked(ys[j], f))
        <3>4. list \in Seq(LeafType)
            BY <3>1, <3>3, ReplacedIs
        <3>5. l = Replaced(zs, i, Filled(z, list))
            BY <2>2, RecommentedIs DEF ys, j
        <3> HIDE DEF list, z
        <3>6. /\ Filled(z, list) \in ZoneType /\ SameButComments(Filled(z, list), z)
              /\ Filled(z, list).comments = z.comments /\ Filled(z, list).inner = list
            BY <1>1, <3>4, FilledIs
        <3> QED BY <2>2, <3>1, <3>4, <3>5, <3>6 DEF z, ys, j, list
    <2> QED BY <2>1, <2>2
<1>3. PICK y : /\ l = Replaced(zs, i, y) /\ y \in ZoneType /\ SameButComments(y, z)
               /\ t[2] = 0 => y = Remarked(z, f) /\ y.inner = z.inner
               /\ t[2] # 0 => /\ y.comments = z.comments
                              /\ y.inner = Replaced(z.inner, t[2], Remarked(z.inner[t[2]], f))
                              /\ z.inner \in Seq(LeafType)
    BY <1>2
<1> HIDE DEF l, i, z
<1>4. /\ l \in Seq(ZoneType) /\ Len(l) = Len(zs) /\ l[i] = y /\ \A k \in 1 .. Len(zs) : k # i => l[k] = zs[k]
    <2>0. l = Replaced(zs, i, y)
        BY <1>3
    <2>1. i \in 1 .. Len(zs) /\ y \in ZoneType /\ zs \in Seq(ZoneType)
        BY <1>1, <1>3
    <2>2. /\ Replaced(zs, i, y) \in Seq(ZoneType) /\ Len(Replaced(zs, i, y)) = Len(zs)
          /\ Replaced(zs, i, y)[i] = y /\ \A k \in 1 .. Len(zs) : k # i => Replaced(zs, i, y)[k] = zs[k]
        BY <2>1, ReplacedIs
    <2> QED BY <2>0, <2>2
<1>5. /\ t[2] # 0 => /\ t[2] \in 1 .. Len(z.inner) /\ z.inner[t[2]] \in LeafType
                     /\ Remarked(z.inner[t[2]], f) \in LeafType
                     /\ SameButComments(Remarked(z.inner[t[2]], f), z.inner[t[2]])
                     /\ Remarked(z.inner[t[2]], f).inner = z.inner[t[2]].inner
                     /\ Len(y.inner) = Len(z.inner) /\ y.inner[t[2]] = Remarked(z.inner[t[2]], f)
                     /\ \A k \in 1 .. Len(z.inner) : k # t[2] => y.inner[k] = z.inner[k]
    <2> SUFFICES ASSUME t[2] # 0
                 PROVE  /\ t[2] \in 1 .. Len(z.inner) /\ z.inner[t[2]] \in LeafType
                        /\ Remarked(z.inner[t[2]], f) \in LeafType
                        /\ SameButComments(Remarked(z.inner[t[2]], f), z.inner[t[2]])
                        /\ Remarked(z.inner[t[2]], f).inner = z.inner[t[2]].inner
                        /\ Len(y.inner) = Len(z.inner) /\ y.inner[t[2]] = Remarked(z.inner[t[2]], f)
                        /\ \A k \in 1 .. Len(z.inner) : k # t[2] => y.inner[k] = z.inner[k]
        OBVIOUS
    <2> DEFINE ys == z.inner  j == t[2]  m == Remarked(ys[j], f)
    <2>1. j \in 1 .. Len(ys) /\ ys \in Seq(LeafType) /\ y.inner = Replaced(ys, j, m)
        BY <1>1, <1>3
    <2> HIDE DEF ys, j
    <2>2. ys[j] \in LeafType
        BY <2>1
    <2>3. m \in LeafType /\ SameButComments(m, ys[j]) /\ m.inner = ys[j].inner
        BY <2>2, RemarkedIs DEF LeafType
    <2> HIDE DEF m
    <2>4. /\ Replaced(ys, j, m) \in Seq(LeafType) /\ Len(Replaced(ys, j, m)) = Len(ys)
          /\ Replaced(ys, j, m)[j] = m /\ \A k \in 1 .. Len(ys) : k # j => Replaced(ys, j, m)[k] = ys[k]
        BY <2>1, <2>3, ReplacedIs
    <2> QED BY <2>1, <2>2, <2>3, <2>4 DEF ys, j, m
<1>6. Len(y.inner) = Len(z.inner)
    BY <1>3, <1>5
<1>7. Spots(l) = Spots(zs)
    <2>1. \A k \in 1 .. Len(zs) : Len(l[k].inner) = Len(zs[k].inner)
        BY <1>4, <1>6 DEF z
    <2> QED BY <1>4, <2>1 DEF Spots
<1>8. Spot(l, t) = Remarked(Spot(zs, t), f)
    BY <1>3, <1>4, <1>5 DEF Spot, z, i
<1>9. ASSUME NEW c \in Spots(zs)
      PROVE  /\ SameButComments(Spot(l, c), Spot(zs, c))
             /\ c # t => Spot(l, c).comments = Spot(zs, c).comments
             /\ Spot(zs, c).inner = <<>> => Spot(l, c).inner = <<>>
             /\ Len(Spot(l, c).inner) = Len(Spot(zs, c).inner)
    <2>1. c \in Nat \X Nat /\ c[1] \in 1 .. Len(zs) /\ c[2] \in 0 .. Len(zs[c[1]].inner)
        BY DEF Spots
    <2>2. \A x : SameButComments(x, x)
        BY DEF SameButComments
    <2>3. CASE c[1] # i
        <3>1. Spot(l, c) = Spot(zs, c)
            BY <1>4, <2>1, <2>3 DEF Spot
        <3> QED BY <2>2, <3>1
    <2>4. CASE c[1] = i /\ c[2] = 0
        <3>1. Spot(l, c) = y /\ Spot(zs, c) = z
            BY <1>4, <2>4 DEF Spot, z
        <3>2. CASE t[2] = 0
            <4>1. c = t
                BY <1>1, <2>1, <2>4, <3>2 DEF i
            <4> QED BY <1>3, <3>1, <3>2, <4>1
        <3>3. CASE t[2] # 0
            <4>1. z.inner # <<>>
                BY <1>5, <3>3
            <4> QED BY <1>3, <1>6, <3>1, <3>3, <4>1
        <3> QED BY <3>2, <3>3
    <2>5. CASE c[1] = i /\ c[2] # 0
        <3>1. Spot(l, c) = y.inner[c[2]] /\ Spot(zs, c) = z.inner[c[2]]
            BY <1>4, <2>5 DEF Spot, z
        <3>2. c[2] \in 1 .. Len(z.inner)
            BY <2>1, <2>5 DEF z
        <3>3. CASE t[2] = 0
            BY <1>3, <2>2, <3>1, <3>3
        <3>4. CASE t[2] # 0 /\ c[2] # t[2]
            BY <1>5, <2>2, <3>1, <3>2, <3>4
        <3>5. CASE t[2] # 0 /\ c[2] = t[2]
            <4>1. c = t
                BY <1>1, <2>1, <2>5, <3>5 DEF i
            <4> QED BY <1>5, <3>1, <3>5, <4>1
        <3> QED BY <3>3, <3>4, <3>5
    <2> QED BY <2>3, <2>4, <2>5
<1>10. l \in Seq(ZoneType) /\ Len(l) = Len(zs)
    BY <1>4
<1> QED BY <1>7, <1>8, <1>9, <1>10 DEF l

\* The ranges stay.
LEMMA SpansSame ==
    ASSUME NEW zs, NEW l, Spots(l) = Spots(zs), NEW o,
           \A c \in Spots(zs) : SameButComments(Spot(l, c), Spot(zs, c)), NEW R, Spanned(R, zs, o)
    PROVE  Spanned(R, l, o)
<1>1. \A c \in Spots(zs) : Spot(l, c).named = Spot(zs, c).named /\ RangeOf(Spot(l, c), o) = RangeOf(Spot(zs, c), o)
    BY DEF SameButComments, RangeOf
<1>2. \A r : IsSpan(r, l, o) <=> IsSpan(r, zs, o)
    BY <1>1 DEF IsSpan
<1> QED BY <1>2 DEF Spanned

\* A line is held by one zone with nothing inside.
LEMMA OutsideOthers ==
    ASSUME NEW zs \in Seq(ZoneType), NEW o, Orderly(o), NEW n, Laid(zs, o, n), NEW line \in 0 .. Wrap, NEW t,
           Holds(zs, t, line), o[line] < End, NEW c \in Spots(zs), c # t, Spot(zs, c).inner = <<>>
    PROVE  ~(o[Spot(zs, c).low] <= o[line] /\ o[line] < o[Spot(zs, c).high])
<1> DEFINE z == Spot(zs, t)  y == Spot(zs, c)
<1>1. t \in Spots(zs) /\ z.inner = <<>> /\ z.low <= line /\ line < z.high
    BY DEF Holds, Within
<1>2. z \in ZoneType /\ AnyOK(z, o) /\ y \in ZoneType /\ AnyOK(y, o)
    BY <1>1, SpotIs
<1>3. z.low \in 0 .. Wrap /\ z.high \in 0 .. Wrap /\ y.low \in 0 .. Wrap /\ y.high \in 0 .. Wrap
    <2>1. z \in ZonesWith(Seq(LeafType)) /\ y \in ZonesWith(Seq(LeafType))
        BY <1>2 DEF ZoneType
    <2> HIDE DEF z, y
    <2> QED BY <1>2, <2>1, AnyBounds
<1>4. y.high <= z.low \/ z.high <= y.low
    <2>1. ~(c[1] = t[1] /\ c[2] = 0 /\ t[2] # 0)
        <3> SUFFICES ASSUME c[1] = t[1], c[2] = 0, t[2] # 0
                     PROVE  FALSE
            OBVIOUS
        <3>1. zs[t[1]].inner # <<>>
            BY <1>1 DEF Spots
        <3> QED BY <3>1 DEF Spot
    <2> QED BY <1>1, <2>1, SpotsLie
<1> HIDE DEF z, y
<1>5. CASE y.high <= z.low
    <2>1. y.high <= line
        BY <1>1, <1>3, <1>5
    <2>2. o[y.high] <= o[line] /\ o[y.high] \in Nat /\ o[line] \in Nat
        BY <1>3, <2>1, OriginsGrow, OriginIs
    <2> QED BY <2>2 DEF y
<1>6. CASE z.high <= y.low
    <2>1. line < y.low
        BY <1>1, <1>3, <1>6
    <2>2. (o[line] < o[y.low] \/ o[y.low] = End) /\ o[y.low] \in Nat /\ o[line] \in Nat
        BY <1>3, <2>1, OriginsGrow, OriginIs
    <2> QED BY <2>2, EndIs DEF y
<1> QED BY <1>4, <1>5, <1>6

\* Each place is one of the spots.
LEMMA PlaceSpot ==
    ASSUME NEW zs, NEW i \in Nat, i \in 1 .. Len(zs), NEW j \in Nat, j \in 0 .. Len(zs[i].inner)
    PROVE  \E c \in Spots(zs) : c = <<i, j>> /\ c[1] = i /\ c[2] = j /\ Spot(zs, c) = IF j = 0 THEN zs[i] ELSE zs[i].inner[j]
<1> DEFINE c == <<i, j>>
<1>1. c \in Nat \X Nat /\ c[1] = i /\ c[2] = j
    OBVIOUS
<1> HIDE DEF c
<1>2. c \in Spots(zs)
    BY <1>1 DEF Spots
<1>3. Spot(zs, c) = IF j = 0 THEN zs[i] ELSE zs[i].inner[j]
    BY <1>1 DEF Spot
<1> QED BY <1>1, <1>2, <1>3 DEF c

\* What a zone shows does not change with the comments, when these are the ones of the history.
LEMMA LaidAgain ==
    ASSUME NEW zs \in Seq(ZoneType), NEW o, NEW n, Laid(zs, o, n), NEW l \in Seq(ZoneType), Len(l) = Len(zs), NEW m,
           \A c \in Spots(zs) : /\ SameButComments(Spot(l, c), Spot(zs, c))
                                /\ Spot(zs, c).inner = <<>> => Spot(l, c).inner = <<>> /\ Noted(Spot(l, c), o, m)
                                /\ Spot(zs, c).inner # <<>> => DOMAIN Spot(l, c).comments = {}
                                /\ Len(Spot(l, c).inner) = Len(Spot(zs, c).inner)
    PROVE  Laid(l, o, m)
<1>1. /\ Len(zs) \in 1 .. Len(zs) /\ Len(zs) \in Nat /\ zs # <<>> /\ Chain(zs, 0, zs[Len(zs)].high)
      /\ o[zs[Len(zs)].high] = End
      /\ \A i \in 1 .. Len(zs) : zs[i] \in ZoneType /\ AnyOK(zs[i], o)
                                      /\ (zs[i].inner = <<>> => Leaf(zs[i], o, n))
                                      /\ (zs[i].inner # <<>> => Parent(zs[i], o, n))
    <2>1. zs # <<>> /\ Chain(zs, 0, zs[Len(zs)].high) /\ o[zs[Len(zs)].high] = End
        BY DEF Laid
    <2>2. Len(zs) \in Nat
        OBVIOUS
    <2> QED BY <2>1, <2>2, LaidIs
<1>2. ASSUME NEW i \in 1 .. Len(zs)
      PROVE  /\ SameButComments(l[i], zs[i])
             /\ zs[i].inner = <<>> => l[i].inner = <<>> /\ Noted(l[i], o, m)
             /\ zs[i].inner # <<>> => DOMAIN l[i].comments = {}
             /\ Len(l[i].inner) = Len(zs[i].inner)
    <2>1. i \in Nat /\ 0 \in Nat /\ 0 \in 0 .. Len(zs[i].inner)
        <3>1. zs[i].inner \in Seq(LeafType)
            BY <1>1, ZoneFields DEF ZoneType
        <3> QED BY <3>1
    <2>2. PICK c \in Spots(zs) : c[1] = i /\ c[2] = 0 /\ Spot(zs, c) = zs[i]
        BY <2>1, PlaceSpot, SMTT(60)
    <2>3. Spot(l, c) = l[i]
        BY <2>2 DEF Spot
    <2> QED BY <2>2, <2>3
<1>3. ASSUME NEW i \in 1 .. Len(zs), NEW j \in 1 .. Len(zs[i].inner), zs[i].inner # <<>>
      PROVE  /\ SameButComments(l[i].inner[j], zs[i].inner[j])
             /\ zs[i].inner[j].inner = <<>> => l[i].inner[j].inner = <<>> /\ Noted(l[i].inner[j], o, m)
    <2>1. i \in Nat /\ j \in Nat /\ j \in 0 .. Len(zs[i].inner) /\ j # 0
        <3>1. zs[i].inner \in Seq(LeafType)
            BY <1>1, ZoneFields DEF ZoneType
        <3> QED BY <3>1
    <2>2. PICK c \in Spots(zs) : c[1] = i /\ c[2] = j /\ Spot(zs, c) = zs[i].inner[j]
        BY <2>1, PlaceSpot, SMTT(60)
    <2>3. Spot(l, c) = l[i].inner[j]
        BY <2>1, <2>2 DEF Spot
    <2> QED BY <2>2, <2>3
<1>4. l # <<>> /\ Chain(l, 0, l[Len(l)].high) /\ o[l[Len(l)].high] = End
    <2>1. \A i \in 1 .. Len(zs) : l[i].low = zs[i].low /\ l[i].high = zs[i].high
        BY <1>2 DEF SameButComments
    <2>2. \A i \in 1 .. Len(zs) - 1 : i \in 1 .. Len(zs) /\ i + 1 \in 1 .. Len(zs)
        BY <1>1
    <2>3. 1 \in 1 .. Len(zs)
        BY <1>1
    <2>4. l # <<>>
        BY <1>1
    <2>5. o[l[Len(l)].high] = End
        BY <1>1, <2>1
    <2>6. Chain(l, 0, l[Len(l)].high)
        <3>1. l[1].low = 0 /\ \A i \in 1 .. Len(l) - 1 : l[i].high = l[i + 1].low
            BY <1>1, <2>1, <2>2, <2>3 DEF Chain
        <3> QED BY <3>1 DEF Chain
    <2> QED BY <2>4, <2>5, <2>6
<1>5. ASSUME NEW i \in 1 .. Len(l)
      PROVE  Sound(l[i], o, m)
    <2>1. i \in 1 .. Len(zs)
        OBVIOUS
    <2>2. SameButComments(l[i], zs[i]) /\ AnyOK(l[i], o)
        BY <1>1, <1>2, <2>1, StaysCommented
    <2>3. CASE zs[i].inner = <<>>
        <3>1. Spread(l[i], o)
            BY <1>1, <2>1, <2>2, <2>3, StaysCommented DEF Leaf
        <3>2. l[i].inner = <<>> /\ Noted(l[i], o, m)
            BY <1>2, <2>1, <2>3
        <3> QED BY <2>2, <3>1, <3>2 DEF Sound, Leaf
    <2>4. CASE zs[i].inner # <<>>
        <3> DEFINE z == zs[i]  y == l[i]
        <3>1. Parent(z, o, n) /\ z \in ZoneType
            BY <1>1, <2>1, <2>4
        <3>2. /\ z.inner \in Seq(LeafType)
              /\ \A j \in 1 .. Len(z.inner) : AnyOK(z.inner[j], o) /\ Leaf(z.inner[j], o, n)
            BY <3>1, InnerBounds
        <3>3. /\ y.low = z.low /\ y.high = z.high /\ y.named = z.named /\ y.collapsed = z.collapsed
              /\ Len(y.inner) = Len(z.inner) /\ DOMAIN y.comments = {}
            BY <1>2, <2>1, <2>4 DEF SameButComments
        <3>4. y.inner \in Seq(LeafType)
            <4>1. y \in ZoneType
                BY <2>1
            <4> QED BY <4>1, ZoneFields DEF ZoneType
        <3>5. ASSUME NEW j \in 1 .. Len(z.inner)
              PROVE  /\ SameButComments(y.inner[j], z.inner[j])
                     /\ z.inner[j].inner = <<>> => y.inner[j].inner = <<>> /\ Noted(y.inner[j], o, m)
            BY <1>3, <2>1, <2>4
        <3> HIDE DEF z, y
        <3>6. /\ z.inner # <<>> /\ z.named /\ ~z.collapsed /\ Chain(z.inner, z.low, z.high)
              /\ \A j \in 1 .. Len(z.inner) : Part(z.inner[j], z, o, n)
            BY <3>1 DEF Parent
        <3>7. ASSUME NEW j \in 1 .. Len(y.inner)
              PROVE  Part(y.inner[j], y, o, m)
            <4>1. j \in 1 .. Len(z.inner)
                BY <3>3
            <4> DEFINE u == y.inner[j]  v == z.inner[j]
            <4>2. SameButComments(u, v) /\ AnyOK(v, o) /\ Leaf(v, o, n)
                BY <3>2, <3>5, <4>1
            <4>3. AnyOK(u, o) /\ Spread(u, o)
                BY <4>2, StaysCommented DEF Leaf
            <4>4. u.inner = <<>> /\ Noted(u, o, m)
                BY <3>5, <4>1, <4>2 DEF Leaf
            <4>5. u.named => ~(u.low = y.low /\ u.high = y.high)
                BY <3>3, <3>6, <4>1, <4>2 DEF SameButComments, Part
            <4> QED BY <4>3, <4>4, <4>5 DEF Part, Leaf
        <3>8. Len(z.inner) \in Nat /\ Len(z.inner) # 0
            BY <3>2, <3>6
        <3>9. y.inner # <<>> /\ Chain(y.inner, y.low, y.high)
            <4>1. \A j \in 1 .. Len(z.inner) : y.inner[j].low = z.inner[j].low /\ y.inner[j].high = z.inner[j].high
                BY <3>5 DEF SameButComments
            <4>2. \A j \in 1 .. Len(z.inner) - 1 : j \in 1 .. Len(z.inner) /\ j + 1 \in 1 .. Len(z.inner)
                BY <3>8
            <4>3. 1 \in 1 .. Len(z.inner) /\ Len(z.inner) \in 1 .. Len(z.inner)
                BY <3>8
            <4> QED BY <3>3, <3>6, <3>8, <4>1, <4>2, <4>3, ZenonT(60) DEF Chain
        <3>10. Parent(y, o, m)
            BY <3>3, <3>6, <3>7, <3>9 DEF Parent
        <3> QED BY <2>2, <3>10 DEF Sound, y
    <2> QED BY <2>3, <2>4
<1> QED BY <1>4, <1>5 DEF Laid

\* The comment of one line changes, in its zone and in the history alike.
LEMMA RecommentKeeps ==
    ASSUME NEW zs \in Seq(ZoneType), NEW R, Spanned(R, zs, Origins(R)), NEW n, Laid(zs, Origins(R), n),
           NEW line \in 0 .. Wrap, NEW t, Holds(zs, t, line), NEW f \in Maps(Notes), NEW m,
           AgreesBut(n, m, Origins(R)[line]), Keyed(Spot(zs, t), Origins(R), line), Spans(Spot(zs, t), Origins(R), line),
           KeptBut(Remarked(Spot(zs, t), f), Spot(zs, t), Key(line)),
           Key(line) \in DOMAIN f <=> Origins(R)[line] \in DOMAIN m,
           Key(line) \in DOMAIN f => f[Key(line)] = m[Origins(R)[line]]
    PROVE  /\ Recommented(zs, t, f) \in Seq(ZoneType) /\ Recommented(zs, t, f) # <<>>
           /\ Spanned(R, Recommented(zs, t, f), Origins(R)) /\ Laid(Recommented(zs, t, f), Origins(R), m)
<1> DEFINE o == Origins(R)
           l == Recommented(zs, t, f)
<1>0. Orderly(o)
    BY SpansFold
<1>1. t \in Spots(zs) /\ Spot(zs, t).inner = <<>>
    BY DEF Holds
<1>2. /\ l \in Seq(ZoneType) /\ Len(l) = Len(zs) /\ Spots(l) = Spots(zs)
      /\ \A c \in Spots(zs) :
           /\ SameButComments(Spot(l, c), Spot(zs, c))
           /\ c # t => Spot(l, c).comments = Spot(zs, c).comments
           /\ Spot(zs, c).inner = <<>> => Spot(l, c).inner = <<>>
           /\ Len(Spot(l, c).inner) = Len(Spot(zs, c).inner)
      /\ Spot(l, t) = Remarked(Spot(zs, t), f)
    BY <1>1, RecommentSpots
<1>3. Spanned(R, l, o)
    BY <1>2, SpansSame
<1> HIDE DEF l
<1>4. ASSUME NEW c \in Spots(zs), Spot(zs, c).inner = <<>>
      PROVE  Noted(Spot(l, c), o, m)
    <2>1. Noted(Spot(zs, c), o, n)
        BY <1>0, <1>4, SpotIs DEF Leaf
    <2>2. CASE c = t
        <3> DEFINE z == Spot(zs, t)  y == Spot(l, t)
        <3>1. z \in ZonesWith(Seq(LeafType)) /\ AnyOK(z, o)
            BY <1>0, <1>1, SpotIs DEF ZoneType
        <3>2. y = Remarked(z, f) /\ SameButComments(y, z)
            BY <1>1, <1>2
        <3>3. Keyed(z, o, line) /\ Spans(z, o, line) /\ KeptBut(y, z, Key(line))
            BY <3>2
        <3>4. y.comments = f
            <4> HIDE DEF y, z
            <4>1. Remarked(z, f).comments = f
                BY <3>1, RemarkedIs
            <4> QED BY <3>2, <4>1
        <3> HIDE DEF z, y
        <3>5. /\ o[z.low] \in Int /\ o[z.low] >= 0 /\ o[z.low] <= End /\ z.low \in Int /\ 0 <= z.low /\ z.low <= End
            <4>1. /\ z.low \in Nat /\ z.high \in Nat /\ z.low <= End /\ o[z.low] \in Nat /\ o[z.high] \in Nat
                  /\ o[z.low] <= o[z.high] /\ o[z.high] <= End
                BY <1>0, <3>1, AnyBounds
            <4> QED BY <4>1, EndIs
        <3>6. Noted(z, o, n) /\ y.high = z.high
            BY <2>1, <2>2, <3>2 DEF z, SameButComments
        <3>7. /\ Key(line) \in DOMAIN y.comments <=> o[line] \in DOMAIN m
              /\ Key(line) \in DOMAIN y.comments => y.comments[Key(line)] = m[o[line]]
            BY <3>4
        <3>8. AgreesBut(n, m, o[line])
            OBVIOUS
        <3> HIDE DEF o
        <3>9. Noted(y, o, m)
            BY <3>3, <3>5, <3>6, <3>7, <3>8, NotedAt
        <3> QED BY <2>2, <3>9 DEF y
    <2>3. CASE c # t
        <3>1. SameButComments(Spot(l, c), Spot(zs, c)) /\ Spot(l, c).comments = Spot(zs, c).comments
            BY <1>2, <2>3
        <3>2. Noted(Spot(zs, c), o, m)
            <4>1. o[line] \in 1 .. End - 1 => ~(o[Spot(zs, c).low] <= o[line] /\ o[line] < o[Spot(zs, c).high])
                <5> SUFFICES ASSUME o[line] \in 1 .. End - 1
                             PROVE  ~(o[Spot(zs, c).low] <= o[line] /\ o[line] < o[Spot(zs, c).high])
                    OBVIOUS
                <5>1. o[line] < End
                    BY EndIs
                <5> QED BY <1>0, <1>4, <2>3, <5>1, OutsideOthers
            <4> QED BY <2>1, <4>1, NotedOutside
        <3> QED BY <3>1, <3>2 DEF Noted, Place, SameButComments
    <2> QED BY <2>2, <2>3
<1>5. ASSUME NEW c \in Spots(zs), Spot(zs, c).inner # <<>>
      PROVE  DOMAIN Spot(l, c).comments = {}
    <2>1. c # t
        BY <1>1, <1>5
    <2>2. c[2] = 0 /\ c[1] \in 1 .. Len(zs) /\ Spot(zs, c) = zs[c[1]]
        BY <1>0, <1>5, SpotIs, ZenonT(60) DEF Spot
    <2>3. Parent(zs[c[1]], o, n)
        BY <1>5, <2>2, LaidIs
    <2> QED BY <1>2, <2>1, <2>2, <2>3 DEF Parent
<1>6. \A c \in Spots(zs) : /\ SameButComments(Spot(l, c), Spot(zs, c))
                           /\ Spot(zs, c).inner = <<>> => Spot(l, c).inner = <<>> /\ Noted(Spot(l, c), o, m)
                           /\ Spot(zs, c).inner # <<>> => DOMAIN Spot(l, c).comments = {}
                           /\ Len(Spot(l, c).inner) = Len(Spot(zs, c).inner)
    BY <1>2, <1>4, <1>5
<1>7. Laid(l, o, m)
    BY <1>2, <1>6, LaidAgain
<1>8. l # <<>>
    BY <1>7 DEF Laid
<1> QED BY <1>2, <1>3, <1>7, <1>8 DEF l

\* z is the zone of the line: the whole listing, or the zone at t.
Housed(line, z) ==
    /\ z \in LeafType /\ Home(line, Innermost(line), z) /\ Leaf(z, Origins(ranges), notes)
    /\ Keyed(z, Origins(ranges), line) /\ Spans(z, Origins(ranges), line)
    /\ zones = <<>> => z = BareRoot(comments) /\ Innermost(line) = <<>>
    /\ zones # <<>> => \E t : /\ Holds(zones, t, line) /\ z = Spot(zones, t)
                              /\ Innermost(line) = IF t[2] = 0 THEN <<t[1]>> ELSE <<t[1], t[2]>>

\* Every line has a zone that houses its comment.
LEMMA SomeHouse ==
    ASSUME zones \in Seq(ZoneType), comments \in Maps(Notes), ZonesOK(zones, ranges, notes, comments),
           NEW line \in 0 .. Wrap, zones = <<>> \/ At(zones, line) # 0
    PROVE  \E z : Housed(line, z)
    BY HomeIs DEF Housed

\* What Recomment does to the tree.
LEMMA ChangeIs ==
    ASSUME zones \in Seq(ZoneType), comments \in Maps(Notes), NEW line, NEW z, Housed(line, z),
           NEW f \in Maps(Notes), Recomment(Innermost(line), f)
    PROVE  /\ zones = <<>> => zones' = zones /\ comments' = f
           /\ zones # <<>> => /\ comments' = comments
                              /\ \E t : Holds(zones, t, line) /\ z = Spot(zones, t) /\ zones' = Recommented(zones, t, f)
<1>1. CASE zones = <<>>
    <2>1. Innermost(line) = <<>>
        BY <1>1 DEF Housed
    <2> DEFINE p == Innermost(line)
    <2>2. Len(p) = 0
        BY <2>1
    <2> HIDE DEF p
    <2>3. comments' = f /\ zones' = zones
        BY <2>2 DEF Recomment, p
    <2> QED BY <1>1, <2>3
<1>2. CASE zones # <<>>
    <2>1. PICK t : /\ Holds(zones, t, line) /\ z = Spot(zones, t)
                   /\ Innermost(line) = IF t[2] = 0 THEN <<t[1]>> ELSE <<t[1], t[2]>>
        BY <1>2 DEF Housed
    <2> DEFINE p == Innermost(line)
    <2>2. CASE t[2] = 0
        <3>1. p = <<t[1]>> /\ Len(p) = 1 /\ p[1] = t[1]
            BY <2>1, <2>2
        <3> HIDE DEF p
        <3>2. zones' = [zones EXCEPT ![p[1]].comments = f] /\ comments' = comments
            BY <3>1 DEF Recomment, p
        <3>3. zones' = Recommented(zones, t, f)
            BY <2>2, <3>1, <3>2 DEF Recommented
        <3> QED BY <1>2, <2>1, <3>2, <3>3
    <2>3. CASE t[2] # 0
        <3>1. p = <<t[1], t[2]>> /\ Len(p) = 2 /\ p[1] = t[1] /\ p[2] = t[2]
            BY <2>1, <2>3
        <3> HIDE DEF p
        <3>2. zones' = [zones EXCEPT ![p[1]].inner[p[2]].comments = f] /\ comments' = comments
            BY <3>1 DEF Recomment, p
        <3>3. zones' = Recommented(zones, t, f)
            BY <2>3, <3>1, <3>2 DEF Recommented
        <3> QED BY <1>2, <2>1, <3>2, <3>3
    <2> QED BY <2>2, <2>3
<1> QED BY <1>1, <1>2

LEMMA ChangeType ==
    ASSUME zones \in Seq(ZoneType), comments \in Maps(Notes), NEW line, NEW z, Housed(line, z),
           NEW f \in Maps(Notes), Recomment(Innermost(line), f)
    PROVE  zones' \in Seq(ZoneType) /\ comments' \in Maps(Notes) /\ Len(zones') = Len(zones) /\ Spots(zones') = Spots(zones)
<1>1. CASE zones = <<>>
    BY <1>1, ChangeIs
<1>2. CASE zones # <<>>
    <2>1. PICK t : Holds(zones, t, line) /\ z = Spot(zones, t) /\ zones' = Recommented(zones, t, f)
        BY <1>2, ChangeIs
    <2>2. t \in Spots(zones) /\ Spot(zones, t).inner = <<>>
        BY <2>1 DEF Holds
    <2>3. Recommented(zones, t, f) \in Seq(ZoneType) /\ Len(Recommented(zones, t, f)) = Len(zones)
          /\ Spots(Recommented(zones, t, f)) = Spots(zones)
        BY <2>2, RecommentSpots
    <2>4. comments' = comments
        BY <1>2, ChangeIs
    <2> QED BY <2>1, <2>3, <2>4
<1> QED BY <1>1, <1>2

\* One comment of the zone and of the history changes.
SameChange(z, f, m, line) ==
    /\ AgreesBut(notes, m, Origins(ranges)[line]) /\ KeptBut(Remarked(z, f), z, Key(line))
    /\ Key(line) \in DOMAIN f <=> Origins(ranges)[line] \in DOMAIN m
    /\ Key(line) \in DOMAIN f => f[Key(line)] = m[Origins(ranges)[line]]

\* Such a change keeps the listing.
LEMMA ChangeKeeps ==
    ASSUME zones \in Seq(ZoneType), comments \in Maps(Notes), ZonesOK(zones, ranges, notes, comments),
           NEW line \in 0 .. Wrap, NEW z, Housed(line, z),
           NEW f \in Maps(Notes), Recomment(Innermost(line), f), NEW m, SameChange(z, f, m, line)
    PROVE  ZonesOK(zones', ranges, m, comments')
<1> DEFINE o == Origins(ranges)
<1>0. End \in Nat /\ End > 0
    BY EndIs
<1>1. Spanned(ranges, zones, o) /\ Keyed(z, o, line) /\ Spans(z, o, line)
    BY DEF ZonesOK, Housed
<1>2. CASE zones = <<>>
    <2>1. zones' = <<>> /\ comments' = f /\ z = BareRoot(comments)
        BY <1>2, ChangeIs DEF Housed
    <2> DEFINE y == BareRoot(f)
    <2>2. /\ z.low = 0 /\ z.high = End /\ y.low = 0 /\ y.high = End /\ y.comments = f /\ z.comments = comments
        BY <2>1 DEF BareRoot, Zone
    <2>3. Remarked(z, f).comments = f /\ Remarked(z, f).low = z.low
        <3>1. z \in ZonesWith({<<>>})
            BY DEF Housed, LeafType
        <3> QED BY <3>1, RemarkedIs DEF SameButComments
    <2>4. KeptBut(y, z, Key(line))
        BY <2>2, <2>3 DEF SameChange, KeptBut
    <2>5. Noted(z, o, notes)
        BY DEF Housed, Leaf
    <2>6. o[0] = 0
        BY <1>1, SpansFold DEF Orderly
    <2>7. /\ AgreesBut(notes, m, o[line])
          /\ Key(line) \in DOMAIN y.comments <=> o[line] \in DOMAIN m
          /\ Key(line) \in DOMAIN y.comments => y.comments[Key(line)] = m[o[line]]
        BY <2>2 DEF SameChange
    <2>8. y.high = z.high /\ o[z.low] \in Int /\ o[z.low] >= 0 /\ o[z.low] <= End /\ z.low \in Int /\ 0 <= z.low /\ z.low <= End
        BY <1>0, <2>2, <2>6
    <2> HIDE DEF y, o
    <2>9. Noted(y, o, m)
        BY <1>1, <2>4, <2>5, <2>7, <2>8, NotedAt
    <2> QED BY <1>1, <1>2, <2>1, <2>9 DEF ZonesOK, y, o
<1>3. CASE zones # <<>>
    <2>1. PICK t : Holds(zones, t, line) /\ z = Spot(zones, t) /\ zones' = Recommented(zones, t, f)
        BY <1>3, ChangeIs
    <2>2. Laid(zones, o, notes)
        BY <1>3 DEF ZonesOK
    <2>3. /\ AgreesBut(notes, m, o[line]) /\ Keyed(Spot(zones, t), o, line) /\ Spans(Spot(zones, t), o, line)
          /\ KeptBut(Remarked(Spot(zones, t), f), Spot(zones, t), Key(line))
          /\ Key(line) \in DOMAIN f <=> o[line] \in DOMAIN m
          /\ Key(line) \in DOMAIN f => f[Key(line)] = m[o[line]]
        BY <1>1, <2>1 DEF SameChange
    <2>4. /\ Recommented(zones, t, f) \in Seq(ZoneType) /\ Recommented(zones, t, f) # <<>>
          /\ Spanned(ranges, Recommented(zones, t, f), o) /\ Laid(Recommented(zones, t, f), o, m)
        BY <1>1, <2>1, <2>2, <2>3, RecommentKeeps
    <2> QED BY <2>1, <2>4 DEF ZonesOK
<1> QED BY <1>2, <1>3

LEMMA KeyIsWord ==
    ASSUME NEW line \in 0 .. Wrap
    PROVE  Key(line) \in Words
<1>1. line \in Int /\ -1 \in Int /\ -Wrap <= line + (-1) /\ line + (-1) < 2 * Wrap
    BY EndIs
<1> QED BY <1>1, PlusIs DEF Key

\* AddOrUpdateComment and RemoveComment keep the listing.
LEMMA AddCommentKeeps ==
    ASSUME zones \in Seq(ZoneType), comments \in Maps(Notes), plain, ZonesOK(zones, ranges, notes, comments),
           NEW line \in 0 .. Wrap, NEW note \in Notes, AddOrUpdateComment(line, note)
    PROVE  /\ zones' \in Seq(ZoneType) /\ comments' \in Maps(Notes)
           /\ Len(zones') = Len(zones) /\ Spots(zones') = Spots(zones)
           /\ plain' \in BOOLEAN
           /\ plain' => ZonesOK(zones', ranges', notes', comments')
           /\ UNCHANGED <<reader, size, stuck>>
<1> DEFINE o == Origins(ranges)
           l == o[line]
<1>1. zones = <<>> \/ At(zones, line) # 0
    BY DEF AddOrUpdateComment
<1>2. PICK z : Housed(line, z)
    BY <1>1, SomeHouse
<1>3. z = ZoneAt(Innermost(line)) /\ z \in LeafType
    BY <1>2 DEF Housed, Home
<1> DEFINE f == Put(z.comments, Key(line), note)
           m == Put(notes, l, note)
<1>4. z.comments \in Maps(Notes) /\ z \in ZonesWith({<<>>})
    BY <1>3, ZoneFields DEF LeafType
<1>5. /\ f \in Maps(Notes) /\ DOMAIN f = DOMAIN z.comments \cup {Key(line)}
      /\ \A k \in DOMAIN z.comments \cup {Key(line)} : f[k] = IF k = Key(line) THEN note ELSE z.comments[k]
    <2> DEFINE c == z.comments  k0 == Key(line)
    <2>1. c \in Maps(Notes) /\ k0 \in Words /\ note \in Notes
        BY <1>4, KeyIsWord
    <2> HIDE DEF c, k0
    <2>2. /\ Put(c, k0, note) \in Maps(Notes) /\ DOMAIN Put(c, k0, note) = DOMAIN c \cup {k0}
          /\ \A k \in DOMAIN c \cup {k0} : Put(c, k0, note)[k] = IF k = k0 THEN note ELSE c[k]
        <3>1. /\ DOMAIN Put(c, k0, note) = DOMAIN c \cup {k0}
              /\ \A k \in DOMAIN c \cup {k0} : Put(c, k0, note)[k] = IF k = k0 THEN note ELSE c[k]
            BY DEF Put
        <3>2. Put(c, k0, note) \in Maps(Notes)
            BY <2>1, PutIs
        <3> QED BY <3>1, <3>2
    <2> QED BY <2>2 DEF c, k0
<1>6. Recomment(Innermost(line), f)
    BY <1>3 DEF AddOrUpdateComment
<1>7. Origin(line) = l
    BY OriginSame
<1>8. Remember(Origin(line) < End, ranges, m)
    BY <1>7 DEF AddOrUpdateComment
<1>9. SameChange(z, f, m, line)
    <2>1. DOMAIN m = DOMAIN notes \cup {l} /\ \A k \in DOMAIN notes \cup {l} : m[k] = IF k = l THEN note ELSE notes[k]
        BY DEF Put
    <2>2. Remarked(z, f).comments = f /\ Remarked(z, f).low = z.low
        <3> HIDE DEF f
        <3> QED BY <1>4, <1>5, RemarkedIs DEF SameButComments
    <2> HIDE DEF f, m
    <2>3. AgreesBut(notes, m, l)
        BY <2>1 DEF AgreesBut
    <2>4. KeptBut(Remarked(z, f), z, Key(line))
        BY <1>5, <2>2 DEF KeptBut
    <2>5. Key(line) \in DOMAIN f /\ l \in DOMAIN m /\ f[Key(line)] = m[l]
        BY <1>5, <2>1
    <2> QED BY <2>3, <2>4, <2>5 DEF SameChange
<1> HIDE DEF f, m
<1>10. zones' \in Seq(ZoneType) /\ comments' \in Maps(Notes) /\ Len(zones') = Len(zones) /\ Spots(zones') = Spots(zones)
    BY <1>2, <1>5, <1>6, ChangeType
<1>11. ZonesOK(zones', ranges, m, comments')
    BY <1>2, <1>5, <1>6, <1>9, ChangeKeeps
<1>12. plain' \in BOOLEAN /\ (plain' => ranges' = ranges /\ notes' = m)
    BY <1>8 DEF Remember, Forget
<1> QED BY <1>10, <1>11, <1>12 DEF AddOrUpdateComment

LEMMA RemoveCommentKeeps ==
    ASSUME zones \in Seq(ZoneType), comments \in Maps(Notes), plain, ZonesOK(zones, ranges, notes, comments),
           NEW line \in 0 .. Wrap, RemoveComment(line)
    PROVE  /\ zones' \in Seq(ZoneType) /\ comments' \in Maps(Notes)
           /\ Len(zones') = Len(zones) /\ Spots(zones') = Spots(zones)
           /\ plain' \in BOOLEAN
           /\ plain' => ZonesOK(zones', ranges', notes', comments')
           /\ UNCHANGED <<reader, size, stuck>>
<1> DEFINE o == Origins(ranges)
           l == o[line]
<1>0. CommentAt(line) # {}
    BY DEF RemoveComment
<1>1. zones = <<>> \/ At(zones, line) # 0
    BY <1>0 DEF CommentAt
<1>2. PICK z : Housed(line, z)
    BY <1>1, SomeHouse
<1> DEFINE p == Innermost(line)
           f == Drop(z.comments, Key(line))
           m == Drop(notes, l)
<1>3. z = ZoneAt(p) /\ z \in LeafType /\ Home(line, p, z)
    BY <1>2 DEF Housed, Home
<1>4. z.comments \in Maps(Notes) /\ z \in ZonesWith({<<>>})
    BY <1>3, ZoneFields DEF LeafType
<1>5. /\ f \in Maps(Notes) /\ DOMAIN f = DOMAIN z.comments \ {Key(line)}
      /\ \A k \in DOMAIN z.comments \ {Key(line)} : f[k] = z.comments[k]
    BY <1>4, DropIs, DropType
<1>6. Recomment(p, f)
    <2>1. (CHOOSE q \in Places(line) : \A r \in Places(line) : Len(r) <= Len(q)) = p
        BY <1>0, <1>3, HomeComment
    <2>2. LET q0 == CHOOSE q \in Places(line) : \A r \in Places(line) : Len(r) <= Len(q)
          IN  Recomment(q0, Drop(ZoneAt(q0).comments, Key(line)))
        BY DEF RemoveComment, Drop
    <2>3. Recomment(p, Drop(ZoneAt(p).comments, Key(line)))
        BY <2>1, <2>2
    <2> QED BY <1>3, <2>3
<1>7. Origin(line) = l
    BY OriginSame
<1>8. Remember(TRUE, ranges, m)
    <2>1. Remember(TRUE, ranges, Drop(notes, Origin(line)))
        BY DEF RemoveComment, Drop
    <2> QED BY <1>7, <2>1
<1>9. SameChange(z, f, m, line)
    <2>1. DOMAIN m = DOMAIN notes \ {l} /\ \A k \in DOMAIN notes \ {l} : m[k] = notes[k]
        BY DropIs
    <2>2. Remarked(z, f).comments = f /\ Remarked(z, f).low = z.low
        <3> HIDE DEF f
        <3> QED BY <1>4, <1>5, RemarkedIs DEF SameButComments
    <2> HIDE DEF f, m
    <2>3. AgreesBut(notes, m, l)
        BY <2>1 DEF AgreesBut
    <2>4. KeptBut(Remarked(z, f), z, Key(line))
        BY <1>5, <2>2 DEF KeptBut
    <2>5. Key(line) \notin DOMAIN f /\ l \notin DOMAIN m
        BY <1>5, <2>1
    <2> QED BY <2>3, <2>4, <2>5 DEF SameChange
<1> HIDE DEF f, m, p
<1>10. zones' \in Seq(ZoneType) /\ comments' \in Maps(Notes) /\ Len(zones') = Len(zones) /\ Spots(zones') = Spots(zones)
    BY <1>2, <1>5, <1>6, ChangeType DEF p
<1>11. ZonesOK(zones', ranges, m, comments')
    BY <1>2, <1>5, <1>6, <1>9, ChangeKeeps DEF p
<1>12. plain' \in BOOLEAN /\ (plain' => ranges' = ranges /\ notes' = m)
    BY <1>8 DEF Remember, Forget
<1> QED BY <1>10, <1>11, <1>12 DEF RemoveComment

=============================================================================
