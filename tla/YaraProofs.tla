----------------------------- MODULE YaraProofs -----------------------------
(***************************************************************************)
(* Proofs about the Yara view, the interface and the scan, which share     *)
(* the lemmas on sequences.  Of the interface (YaraViewer): for any rules  *)
(* folder and any report, any size of the control and any order of keys,   *)
(* clicks and commands.  Of the scan (YaraScan): for any rule files and    *)
(* anything the scanner may print the matches of the report are those of   *)
(* the outputs, and every rule file is answered.                           *)
(***************************************************************************)
EXTENDS YaraViewer, YaraScan, SequenceTheorems, FiniteSetTheorems, WellFoundedInduction, TLAPS

-----------------------------------------------------------------------------
(* Numbers.                                                                *)

(* A set of numbers that is not empty has a least one.                     *)
LEMMA LeastExists ==
    ASSUME NEW S, S \subseteq Nat, S # {}
    PROVE  \E x \in S : \A y \in S : x <= y
<1>1. PICK x \in S : \A y \in S : ~ (<<y, x>> \in OpToRel(<, Nat))
    BY NatLessThanWellFounded, WFMin
<1>2. \A y \in S : x <= y
    <2> TAKE y \in S
    <2>1. y \in Nat /\ x \in Nat /\ <<y, x>> \in Nat \X Nat
        OBVIOUS
    <2>2. <<y, x>> \notin {ss \in Nat \X Nat : ss[1] < ss[2]}
        BY <1>1 DEF OpToRel
    <2>3. ~(y < x)
        BY <2>1, <2>2
    <2> QED BY <2>1, <2>3
<1> QED BY <1>2

(* A set of numbers up to n that is not empty has a greatest one.          *)
LEMMA GreatestExists ==
    ASSUME NEW n \in Nat, NEW S, S \subseteq 0 .. n, S # {}
    PROVE  \E x \in S : \A y \in S : y <= x
<1> DEFINE D == {n - a : a \in S}
<1>1. D \subseteq Nat /\ D # {}
    <2>1. PICK a \in S : TRUE
        OBVIOUS
    <2>2. n - a \in D
        BY <2>1
    <2>3. \A b \in S : n - b \in Nat
        OBVIOUS
    <2> QED BY <2>2, <2>3
<1>2. PICK d \in D : \A e \in D : d <= e
    <2> HIDE DEF D
    <2> QED BY <1>1, LeastExists
<1>3. PICK a \in S : d = n - a
    OBVIOUS
<1>4. \A b \in S : b <= a
    <2> TAKE b \in S
    <2>1. n - b \in D
        OBVIOUS
    <2>2. d <= n - b
        BY <1>2, <2>1
    <2>3. a \in Int /\ b \in Int
        OBVIOUS
    <2> QED BY <1>3, <2>2, <2>3
<1> QED BY <1>4

(* Induction up to n, for a set: it holds 0 and goes on from each number.  *)
LEMMA UpTo ==
    ASSUME NEW n \in Nat, NEW B, 0 \in B,
           \A i \in 1 .. n : i - 1 \in B => i \in B
    PROVE  0 .. n \subseteq B
<1> DEFINE Bad == {i \in 0 .. n : i \notin B}
<1>1. SUFFICES ASSUME Bad # {}
               PROVE  FALSE
    OBVIOUS
<1>2. PICK m \in Bad : \A k \in Bad : m <= k
    <2>1. Bad \subseteq Nat
        OBVIOUS
    <2> HIDE DEF Bad
    <2> QED BY <1>1, <2>1, LeastExists
<1>3. m \in 1 .. n
    OBVIOUS
<1>4. m - 1 \in 0 .. n /\ m - 1 \notin Bad
    BY <1>2, <1>3
<1> QED BY <1>3, <1>4

-----------------------------------------------------------------------------
(* Sequences joined from pieces: FlattenSeq.                               *)

Joins(s, f, n) == f = [i \in 1 .. n |-> IF i = 1 THEN s[i] ELSE f[i - 1] \o s[i]]

LEMMA JoinExists ==
    ASSUME NEW s, NEW n \in Nat
    PROVE  \E f : Joins(s, f, n)
<1> DEFINE B == {i \in Nat : \E f : Joins(s, f, i)}
<1>1. 0 \in B
    <2> DEFINE f == [i \in 1 .. 0 |-> <<>>]
    <2>1. Joins(s, f, 0)
        BY DEF Joins
    <2> QED BY <2>1
<1>2. ASSUME NEW i \in 1 .. n, i - 1 \in B
      PROVE  i \in B
    <2>1. PICK f : Joins(s, f, i - 1)
        BY <1>2
    <2> DEFINE g == [j \in 1 .. i |->
                        IF j = i THEN IF i = 1 THEN s[i] ELSE f[i - 1] \o s[i] ELSE f[j]]
    <2>2. \A j \in 1 .. i - 1 : g[j] = f[j]
        OBVIOUS
    <2>3. \A j \in 1 .. i - 1 : f[j] = IF j = 1 THEN s[j] ELSE f[j - 1] \o s[j]
        BY <2>1 DEF Joins
    <2>4. \A j \in 1 .. i : g[j] = IF j = 1 THEN s[j] ELSE g[j - 1] \o s[j]
        <3> TAKE j \in 1 .. i
        <3>1. CASE j = i
            <4>1. j # 1 => g[j - 1] = f[j - 1]
                BY <3>1, <2>2
            <4> QED BY <3>1, <4>1
        <3>2. CASE j # i
            <4>1. j \in 1 .. i - 1 /\ (j # 1 => j - 1 \in 1 .. i - 1)
                BY <3>2
            <4>2. g[j] = f[j] /\ (j # 1 => g[j - 1] = f[j - 1])
                BY <4>1, <2>2
            <4> HIDE DEF g
            <4> QED BY <4>1, <4>2, <2>3
        <3> QED BY <3>1, <3>2
    <2>5. g = [j \in 1 .. i |-> g[j]]
        OBVIOUS
    <2>6. Joins(s, g, i)
        <3> HIDE DEF g
        <3> QED BY <2>4, <2>5 DEF Joins
    <2> QED BY <2>6
<1>3. 0 .. n \subseteq B
    <2> HIDE DEF B
    <2> QED BY <1>1, <1>2, UpTo
<1> QED BY <1>3

(* g joins the pieces f up to each place.                                  *)
Joining(g, f, n) == \A i \in 1 .. n : g[i] = IF i = 1 THEN f[i] ELSE g[i - 1] \o f[i]

LEMMA FlattenIs ==
    ASSUME NEW s, NEW n \in Nat \ {0}, Len(s) = n
    PROVE  \E g : FlattenSeq(s) = g[n] /\ Joining(g, s, n)
<1> DEFINE g == CHOOSE g : Joins(s, g, n)
<1>1. FlattenSeq(s) = g[n]
    BY DEF FlattenSeq, Joins
<1>2. Joins(s, g, n)
    BY JoinExists
<1> HIDE DEF g
<1>3. Joining(g, s, n)
    BY <1>2 DEF Joins, Joining
<1> QED BY <1>1, <1>3

(* What the first n places of f give, joined.                              *)
Joined(f, n) == FlattenSeq([k \in 1 .. n |-> f[k]])
Pieces(f, n, X) == \A k \in 1 .. n : f[k] \in Seq(X)

LEMMA FewerPieces ==
    ASSUME NEW X, NEW f, NEW n \in Nat, Pieces(f, n, X), NEW m \in Nat, m <= n
    PROVE  Pieces(f, m, X)
BY DEF Pieces

LEMMA JoinedZero ==
    ASSUME NEW f
    PROVE  Joined(f, 0) = <<>>
BY DEF Joined, FlattenSeq

LEMMA JoinedIs ==
    ASSUME NEW f, NEW n \in Nat \ {0}
    PROVE  \E g : Joined(f, n) = g[n] /\ Joining(g, f, n)
<1> DEFINE s == [k \in 1 .. n |-> f[k]]
<1>1. Len(s) = n
    OBVIOUS
<1>2. \A i \in 1 .. n : s[i] = f[i]
    OBVIOUS
<1> HIDE DEF s
<1>3. PICK g : FlattenSeq(s) = g[n] /\ Joining(g, s, n)
    BY <1>1, FlattenIs
<1>4. Joining(g, f, n)
    BY <1>2, <1>3 DEF Joining
<1> QED BY <1>3, <1>4 DEF Joined, s

(* Two ways to join the same pieces agree at every place.                  *)
LEMMA OneJoin ==
    ASSUME NEW f, NEW n \in Nat, NEW m \in Nat, m <= n, NEW g, NEW h,
           Joining(g, f, n), Joining(h, f, m)
    PROVE  \A i \in 1 .. m : g[i] = h[i]
<1> DEFINE B == {0} \cup {i \in 1 .. m : g[i] = h[i]}
<1>1. 0 \in B
    OBVIOUS
<1>2. ASSUME NEW i \in 1 .. m, i - 1 \in B
      PROVE  i \in B
    <2>1. i \in 1 .. n
        OBVIOUS
    <2>2. i # 1 => g[i - 1] = h[i - 1]
        BY <1>2
    <2>3. g[i] = h[i]
        BY <2>1, <2>2 DEF Joining
    <2> QED BY <2>3
<1>3. 0 .. m \subseteq B
    <2> HIDE DEF B
    <2> QED BY <1>1, <1>2, UpTo
<1> QED BY <1>3

LEMMA EmptyFirst ==
    ASSUME NEW X, NEW s \in Seq(X)
    PROVE  s \o <<>> = s /\ <<>> \o s = s
BY ConcatEmptySeq

LEMMA AppendIs ==
    ASSUME NEW X, NEW s \in Seq(X), NEW x \in X
    PROVE  s \o <<x>> = Append(s, x) /\ Append(s, x) \in Seq(X)
BY AppendIsConcat, AppendProperties

(* One piece more.                                                         *)
LEMMA JoinedNext ==
    ASSUME NEW X, NEW f, NEW n \in Nat, Pieces(f, n + 1, X)
    PROVE  Joined(f, n + 1) = Joined(f, n) \o f[n + 1]
<1>0. n + 1 \in Nat \ {0} /\ n <= n + 1
    OBVIOUS
<1>1. PICK g : Joined(f, n + 1) = g[n + 1] /\ Joining(g, f, n + 1)
    BY <1>0, JoinedIs
<1>2. CASE n = 0
    <2>1. g[1] = f[1] /\ f[1] \in Seq(X)
        BY <1>1, <1>2 DEF Joining, Pieces
    <2>2. <<>> \o f[1] = f[1]
        BY <2>1, EmptyFirst
    <2>3. Joined(f, n) = <<>> /\ n + 1 = 1
        BY <1>2, JoinedZero
    <2> QED BY <1>1, <2>1, <2>2, <2>3
<1>3. CASE n # 0
    <2>1. PICK h : Joined(f, n) = h[n] /\ Joining(h, f, n)
        BY <1>3, JoinedIs
    <2>2. g[n] = h[n]
        <3>1. \A i \in 1 .. n : g[i] = h[i]
            BY <1>0, <1>1, <2>1, OneJoin
        <3> QED BY <1>3, <3>1
    <2>3. g[n + 1] = g[n] \o f[n + 1]
        <3>1. n + 1 \in 1 .. n + 1 /\ n + 1 # 1 /\ (n + 1) - 1 = n
            BY <1>3
        <3>2. g[n + 1] = IF n + 1 = 1 THEN f[n + 1] ELSE g[(n + 1) - 1] \o f[n + 1]
            BY <1>1, <3>1 DEF Joining
        <3> QED BY <3>1, <3>2
    <2> QED BY <1>1, <2>1, <2>2, <2>3
<1> QED BY <1>2, <1>3

LEMMA JoinedTurn ==
    ASSUME NEW X, NEW f, NEW n \in Nat, Pieces(f, n, X), NEW i \in 1 .. n
    PROVE  Joined(f, i) = Joined(f, i - 1) \o f[i] /\ f[i] \in Seq(X)
<1>1. i - 1 \in Nat /\ (i - 1) + 1 = i
    OBVIOUS
<1>2. Pieces(f, (i - 1) + 1, X)
    BY DEF Pieces
<1> QED BY <1>1, <1>2, JoinedNext DEF Pieces

LEMMA JoinedType ==
    ASSUME NEW X, NEW f, NEW n \in Nat, Pieces(f, n, X)
    PROVE  Joined(f, n) \in Seq(X)
<1> DEFINE B == {i \in 0 .. n : Joined(f, i) \in Seq(X)}
<1>1. 0 \in B
    <2>1. <<>> \in Seq(X)
        OBVIOUS
    <2>2. Joined(f, 0) \in Seq(X)
        BY <2>1, JoinedZero, Zenon
    <2>3. 0 \in 0 .. n
        OBVIOUS
    <2> QED BY <2>2, <2>3, Zenon
<1>2. ASSUME NEW i \in 1 .. n, i - 1 \in B
      PROVE  i \in B
    <2>1. Joined(f, i) = Joined(f, i - 1) \o f[i] /\ f[i] \in Seq(X)
        BY JoinedTurn
    <2>2. Joined(f, i - 1) \in Seq(X)
        BY <1>2
    <2>3. Joined(f, i) \in Seq(X)
        BY <2>1, <2>2, ConcatProperties
    <2> QED BY <2>3
<1>3. 0 .. n \subseteq B
    <2> HIDE DEF B
    <2> QED BY <1>1, <1>2, UpTo
<1> QED BY <1>3

(* The same pieces.                                                        *)
LEMMA JoinedSame ==
    ASSUME NEW f, NEW g, NEW n \in Nat, \A k \in 1 .. n : f[k] = g[k]
    PROVE  Joined(f, n) = Joined(g, n)
<1>1. [k \in 1 .. n |-> f[k]] = [k \in 1 .. n |-> g[k]]
    OBVIOUS
<1> QED BY <1>1 DEF Joined

(* Empty pieces at the end add nothing.                                    *)
LEMMA JoinedRest ==
    ASSUME NEW X, NEW f, NEW n \in Nat, NEW m \in 0 .. n, Pieces(f, n, X),
           \A k \in m + 1 .. n : f[k] = <<>>
    PROVE  Joined(f, n) = Joined(f, m)
<1> DEFINE B == {i \in 0 .. n : i >= m => Joined(f, i) = Joined(f, m)}
<1>1. 0 \in B
    OBVIOUS
<1>2. ASSUME NEW i \in 1 .. n, i - 1 \in B
      PROVE  i \in B
    <2>1. CASE i <= m
        BY <2>1
    <2>2. CASE i > m
        <3>1. Joined(f, i) = Joined(f, i - 1) \o f[i]
            BY JoinedTurn
        <3>2. f[i] = <<>> /\ i - 1 >= m /\ i - 1 \in 0 .. n
            BY <2>2
        <3>3. Joined(f, i - 1) \in Seq(X)
            <4>1. Pieces(f, i - 1, X) /\ i - 1 \in Nat
                BY DEF Pieces
            <4> QED BY <4>1, JoinedType
        <3>4. Joined(f, i) = Joined(f, i - 1)
            BY <3>1, <3>2, <3>3, EmptyFirst
        <3> QED BY <1>2, <3>2, <3>4
    <2> QED BY <2>1, <2>2
<1>3. 0 .. n \subseteq B
    <2> HIDE DEF B
    <2> QED BY <1>1, <1>2, UpTo
<1> QED BY <1>3

(* An empty piece in front adds nothing.                                   *)
LEMMA JoinedShift ==
    ASSUME NEW X, NEW f, NEW g, NEW n \in Nat, Pieces(f, n, X), g[1] = <<>>,
           \A k \in 1 .. n : g[k + 1] = f[k]
    PROVE  Joined(g, n + 1) = Joined(f, n)
<1> DEFINE B == {i \in 0 .. n : Joined(g, i + 1) = Joined(f, i)}
<1>1. Pieces(g, n + 1, X)
    <2> SUFFICES ASSUME NEW k \in 1 .. n + 1 PROVE g[k] \in Seq(X)
        BY DEF Pieces
    <2>1. CASE k = 1
        <3>1. <<>> \in Seq(X)
            OBVIOUS
        <3> QED BY <2>1, <3>1
    <2>2. CASE k # 1
        <3>1. k - 1 \in 1 .. n /\ (k - 1) + 1 = k
            BY <2>2
        <3>2. g[(k - 1) + 1] = f[k - 1]
            BY <3>1
        <3> QED BY <3>1, <3>2 DEF Pieces
    <2> QED BY <2>1, <2>2
<1>2. 0 \in B
    <2>0. n + 1 \in Nat /\ 1 \in 1 .. n + 1 /\ 1 - 1 = 0
        OBVIOUS
    <2>1. Joined(g, 1) = Joined(g, 1 - 1) \o g[1]
        BY <1>1, <2>0, JoinedTurn
    <2>2. Joined(g, 0) = <<>> /\ Joined(f, 0) = <<>>
        BY JoinedZero
    <2>3. <<>> \o <<>> = <<>>
        OBVIOUS
    <2>4. Joined(g, 0 + 1) = Joined(f, 0)
        BY <2>0, <2>1, <2>2, <2>3
    <2> QED BY <2>4
<1>3. ASSUME NEW i \in 1 .. n, i - 1 \in B
      PROVE  i \in B
    <2>1. n + 1 \in Nat /\ i + 1 \in 1 .. n + 1 /\ (i + 1) - 1 = i /\ (i - 1) + 1 = i
        OBVIOUS
    <2>2. Joined(g, i + 1) = Joined(g, i) \o g[i + 1]
        BY <1>1, <2>1, JoinedTurn
    <2>3. Joined(f, i) = Joined(f, i - 1) \o f[i]
        BY JoinedTurn
    <2>4. Joined(g, (i - 1) + 1) = Joined(f, i - 1)
        BY <1>3
    <2>5. g[i + 1] = f[i]
        OBVIOUS
    <2>6. Joined(g, i + 1) = Joined(f, i)
        BY <2>1, <2>2, <2>3, <2>4, <2>5
    <2> QED BY <2>6
<1>4. 0 .. n \subseteq B
    <2> HIDE DEF B
    <2> QED BY <1>2, <1>3, UpTo
<1> QED BY <1>4

-----------------------------------------------------------------------------
(* The map of visible lines.                                               *)

Loops(ls, f, n) ==
    f = [i \in 0 .. n |-> IF i = 0 THEN <<>>
                          ELSE IF ls[i].isVisible THEN Append(f[i - 1], i) ELSE f[i - 1]]

(* The loop of UpdateVisibleIndices has a result.                          *)
LEMMA LoopExists ==
    ASSUME NEW ls, NEW n \in Nat
    PROVE  \E f : Loops(ls, f, n)
<1> DEFINE B == {i \in Nat : \E f : Loops(ls, f, i)}
<1>1. 0 \in B
    <2> DEFINE f == [i \in 0 .. 0 |-> <<>>]
    <2>1. Loops(ls, f, 0)
        BY DEF Loops
    <2> QED BY <2>1
<1>2. ASSUME NEW i \in 1 .. n, i - 1 \in B
      PROVE  i \in B
    <2>1. PICK f : Loops(ls, f, i - 1)
        BY <1>2
    <2> DEFINE last == IF ls[i].isVisible THEN Append(f[i - 1], i) ELSE f[i - 1]
               g == [j \in 0 .. i |-> IF j = i THEN last ELSE f[j]]
    <2>2. \A j \in 0 .. i - 1 : g[j] = f[j]
        OBVIOUS
    <2>3. \A j \in 0 .. i - 1 :
             f[j] = IF j = 0 THEN <<>>
                    ELSE IF ls[j].isVisible THEN Append(f[j - 1], j) ELSE f[j - 1]
        BY <2>1 DEF Loops
    <2>4. \A j \in 0 .. i :
             g[j] = IF j = 0 THEN <<>>
                    ELSE IF ls[j].isVisible THEN Append(g[j - 1], j) ELSE g[j - 1]
        <3> TAKE j \in 0 .. i
        <3>1. CASE j = i
            <4>1. j # 0 /\ g[j - 1] = f[j - 1]
                BY <3>1, <2>2
            <4> QED BY <3>1, <4>1
        <3>2. CASE j # i
            <4>1. j \in 0 .. i - 1 /\ (j # 0 => j - 1 \in 0 .. i - 1)
                BY <3>2
            <4>2. g[j] = f[j] /\ (j # 0 => g[j - 1] = f[j - 1])
                BY <4>1, <2>2
            <4> HIDE DEF g
            <4> QED BY <4>1, <4>2, <2>3
        <3> QED BY <3>1, <3>2
    <2>5. g = [j \in 0 .. i |-> g[j]]
        OBVIOUS
    <2>6. Loops(ls, g, i)
        <3> HIDE DEF g
        <3> QED BY <2>4, <2>5 DEF Loops
    <2> QED BY <2>6
<1>3. 0 .. n \subseteq B
    <2> HIDE DEF B
    <2> QED BY <1>1, <1>2, UpTo
<1> QED BY <1>3

(* One turn of it.                                                         *)
LEMMA LoopTurns ==
    ASSUME NEW ls, NEW n \in Nat, NEW f, Loops(ls, f, n)
    PROVE  /\ f[0] = <<>>
           /\ \A i \in 1 .. n :
                 /\ ls[i].isVisible => f[i] = Append(f[i - 1], i)
                 /\ ~ls[i].isVisible => f[i] = f[i - 1]
<1>1. \A i \in 0 .. n :
          f[i] = IF i = 0 THEN <<>>
                 ELSE IF ls[i].isVisible THEN Append(f[i - 1], i) ELSE f[i - 1]
    BY DEF Loops
<1>2. f[0] = <<>>
    <2>1. 0 \in 0 .. n
        OBVIOUS
    <2> QED BY <1>1, <2>1
<1>3. ASSUME NEW i \in 1 .. n
      PROVE  /\ ls[i].isVisible => f[i] = Append(f[i - 1], i)
             /\ ~ls[i].isVisible => f[i] = f[i - 1]
    <2>1. i \in 0 .. n /\ i # 0
        OBVIOUS
    <2> QED BY <1>1, <2>1, Zenon
<1> QED BY <1>2, <1>3

LEMMA VisibleUpToLoops ==
    ASSUME NEW ls, Len(ls) \in Nat
    PROVE  Loops(ls, VisibleUpTo(ls), Len(ls))
<1>1. PICK f : Loops(ls, f, Len(ls))
    BY LoopExists
<1>2. VisibleUpTo(ls) = CHOOSE g : Loops(ls, g, Len(ls))
    BY DEF VisibleUpTo, Loops
<1> QED BY <1>1, <1>2

(* v holds the visible ones of the first i lines, in order.                *)
Shows(ls, i, v) ==
    /\ v \in Seq(Nat \ {0})
    /\ \A a \in 1 .. Len(v) : v[a] \in 1 .. i /\ ls[v[a]].isVisible
    /\ \A a, b \in 1 .. Len(v) : a < b => v[a] < v[b]
    /\ \A j \in 1 .. i : ls[j].isVisible => \E a \in 1 .. Len(v) : v[a] = j

Begins(v, w) == Len(v) <= Len(w) /\ \A a \in 1 .. Len(v) : w[a] = v[a]

LEMMA LoopShows ==
    ASSUME NEW ls, NEW n \in Nat, NEW f, Loops(ls, f, n)
    PROVE  \A i \in 0 .. n : Shows(ls, i, f[i])
<1> DEFINE B == {i \in 0 .. n : Shows(ls, i, f[i])}
<1>1. 0 \in B
    <2>1. f[0] = <<>>
        BY LoopTurns
    <2>2. Shows(ls, 0, <<>>)
        BY DEF Shows
    <2> QED BY <2>1, <2>2
<1>2. ASSUME NEW i \in 1 .. n, i - 1 \in B
      PROVE  i \in B
    <2> DEFINE v == f[i - 1]
    <2>1. Shows(ls, i - 1, v)
        BY <1>2
    <2>2. v \in Seq(Nat \ {0}) /\ i \in Nat \ {0}
        BY <2>1 DEF Shows
    <2>3. CASE ls[i].isVisible
        <3>1. f[i] = Append(v, i)
            BY <2>3, LoopTurns
        <3>2. /\ Append(v, i) \in Seq(Nat \ {0})
              /\ Len(Append(v, i)) = Len(v) + 1
              /\ \A a \in 1 .. Len(v) : Append(v, i)[a] = v[a]
              /\ Append(v, i)[Len(v) + 1] = i
            BY <2>2, AppendProperties
        <3>3. \A a \in 1 .. Len(v) : v[a] \in 1 .. i - 1 /\ v[a] < i
            BY <2>1 DEF Shows
        <3>0. Len(v) \in Nat /\ \A a \in 1 .. Len(v) + 1 : a \in 1 .. Len(v) \/ a = Len(v) + 1
            BY <2>2, LenProperties
        <3> HIDE DEF v
        <3> DEFINE w == Append(v, i)
        <3>4. \A a \in 1 .. Len(w) : w[a] \in 1 .. i /\ ls[w[a]].isVisible
            <4> TAKE a \in 1 .. Len(w)
            <4>1. CASE a \in 1 .. Len(v)
                BY <4>1, <3>2, <2>1, <3>3 DEF Shows
            <4>2. CASE a = Len(v) + 1
                BY <4>2, <3>2, <2>3
            <4> QED BY <4>1, <4>2, <3>2, <3>0
        <3>5. \A a, b \in 1 .. Len(w) : a < b => w[a] < w[b]
            <4> TAKE a, b \in 1 .. Len(w)
            <4> HAVE a < b
            <4>1. a \in 1 .. Len(v) /\ w[a] = v[a]
                BY <3>2, <3>0
            <4>2. CASE b \in 1 .. Len(v)
                BY <4>1, <4>2, <3>2, <2>1 DEF Shows
            <4>3. CASE b = Len(v) + 1
                BY <4>1, <4>3, <3>2, <3>3
            <4> QED BY <4>2, <4>3, <3>2, <3>0
        <3>6. \A j \in 1 .. i : ls[j].isVisible => \E a \in 1 .. Len(w) : w[a] = j
            <4> TAKE j \in 1 .. i
            <4> HAVE ls[j].isVisible
            <4>1. CASE j = i
                BY <4>1, <3>2, <3>0
            <4>2. CASE j \in 1 .. i - 1
                <5>1. PICK a \in 1 .. Len(v) : v[a] = j
                    BY <4>2, <2>1 DEF Shows
                <5>2. a \in 1 .. Len(w) /\ w[a] = j
                    BY <5>1, <3>2, <3>0
                <5> QED BY <5>2
            <4> QED BY <4>1, <4>2
        <3>7. Shows(ls, i, w)
            BY <3>2, <3>4, <3>5, <3>6 DEF Shows
        <3>8. Shows(ls, i, f[i])
            BY <3>1, <3>7
        <3> QED BY <3>8
    <2>4. CASE ~ls[i].isVisible
        <3>1. f[i] = v
            BY <2>4, LoopTurns
        <3> HIDE DEF v
        <3>2. \A j \in 1 .. i : ls[j].isVisible => j \in 1 .. i - 1
            BY <2>4
        <3>3. 1 .. i - 1 \subseteq 1 .. i
            OBVIOUS
        <3>4. Shows(ls, i, v)
            BY <2>1, <3>2, <3>3 DEF Shows
        <3>5. Shows(ls, i, f[i])
            BY <3>1, <3>4
        <3> QED BY <3>5
    <2> QED BY <2>3, <2>4
<1>3. 0 .. n \subseteq B
    <2> HIDE DEF B
    <2> QED BY <1>1, <1>2, UpTo
<1> QED BY <1>3

(* What the loop has put down stays.                                       *)
LEMMA LoopGrows ==
    ASSUME NEW ls, NEW n \in Nat, NEW f, Loops(ls, f, n), NEW i \in 0 .. n
    PROVE  Begins(f[i], f[n])
<1> DEFINE B == {d \in 0 .. n - i : Begins(f[i], f[i + d])}
<1>1. 0 \in B
    BY DEF Begins
<1>2. ASSUME NEW d \in 1 .. n - i, d - 1 \in B
      PROVE  d \in B
    <2> DEFINE v == f[i + d - 1]
    <2>1. Begins(f[i], v)
        BY <1>2
    <2>2. i + d \in 1 .. n /\ i + d - 1 \in 0 .. n
        BY <1>2
    <2>3. f[i + d] = Append(v, i + d) \/ f[i + d] = v
        <3> DEFINE e == i + d
        <3>1. e \in 1 .. n /\ v = f[e - 1]
            BY <2>2
        <3> HIDE DEF e, v
        <3>2. f[e] = Append(v, e) \/ f[e] = v
            BY <3>1, LoopTurns
        <3> QED BY <3>2 DEF e
    <2>4. v \in Seq(Nat \ {0}) /\ f[i] \in Seq(Nat \ {0})
        BY <2>2, LoopShows DEF Shows
    <2>5. Begins(f[i], f[i + d])
        <3> HIDE DEF v
        <3>1. CASE f[i + d] = v
            BY <3>1, <2>1
        <3>2. CASE f[i + d] = Append(v, i + d)
            <4>1. /\ Len(Append(v, i + d)) = Len(v) + 1
                  /\ \A a \in 1 .. Len(v) : Append(v, i + d)[a] = v[a]
                BY <2>2, <2>4, AppendProperties
            <4>2. Len(v) \in Nat /\ Len(f[i]) \in Nat
                BY <2>4, LenProperties
            <4> QED BY <3>2, <4>1, <4>2, <2>1 DEF Begins
        <3> QED BY <2>3, <3>1, <3>2
    <2> QED BY <2>5
<1>3. n - i \in B
    <2>1. n - i \in Nat
        OBVIOUS
    <2> HIDE DEF B
    <2>2. 0 .. n - i \subseteq B
        BY <1>1, <1>2, <2>1, UpTo
    <2> QED BY <2>1, <2>2
<1> QED BY <1>3

SeenAlike(ls, ms, h) == \A k \in 1 .. h : ls[k].isVisible <=> ms[k].isVisible

(* It depends on the lines it has seen only.                               *)
LEMMA LoopsAgree ==
    ASSUME NEW ls, NEW ms, NEW n \in Nat, NEW m \in Nat, NEW f, NEW g,
           Loops(ls, f, n), Loops(ms, g, m), NEW h \in Nat, h <= n, h <= m,
           SeenAlike(ls, ms, h)
    PROVE  f[h] = g[h]
<1> DEFINE B == {i \in 0 .. h : f[i] = g[i]}
<1>1. 0 \in B
    <2>1. f[0] = <<>> /\ g[0] = <<>>
        BY LoopTurns
    <2> QED BY <2>1
<1>2. ASSUME NEW i \in 1 .. h, i - 1 \in B
      PROVE  i \in B
    <2>1. f[i - 1] = g[i - 1] /\ i \in 1 .. n /\ i \in 1 .. m
        BY <1>2
    <2>2. /\ ls[i].isVisible => f[i] = Append(f[i - 1], i)
          /\ ~ls[i].isVisible => f[i] = f[i - 1]
        BY <2>1, LoopTurns
    <2>3. /\ ms[i].isVisible => g[i] = Append(g[i - 1], i)
          /\ ~ms[i].isVisible => g[i] = g[i - 1]
        BY <2>1, LoopTurns
    <2>4. f[i] = g[i]
        BY <2>1, <2>2, <2>3 DEF SeenAlike
    <2> QED BY <2>4
<1>3. 0 .. h \subseteq B
    <2> HIDE DEF B
    <2> QED BY <1>1, <1>2, UpTo
<1> QED BY <1>3

(* The map holds the visible lines in order.                               *)
LEMMA MapShows ==
    ASSUME NEW ls, Len(ls) \in Nat
    PROVE  Shows(ls, Len(ls), VisibleOf(ls))
BY VisibleUpToLoops, LoopShows DEF VisibleOf

KeepsRow(v, w, h) == \A a \in 1 .. Len(v) : v[a] = h => a \in 1 .. Len(w) /\ w[a] = h

LEMMA RowStaysInLoop ==
    ASSUME NEW ls, NEW ms, NEW n \in Nat, NEW f, NEW g, Loops(ls, f, n), Loops(ms, g, n),
           NEW h \in 1 .. n, SeenAlike(ls, ms, h)
    PROVE  KeepsRow(f[n], g[n], h)
<1> SUFFICES ASSUME NEW v \in 1 .. Len(f[n]), f[n][v] = h
             PROVE  v \in 1 .. Len(g[n]) /\ g[n][v] = h
    BY DEF KeepsRow
<1>3. h \in 0 .. n /\ n \in 0 .. n
    OBVIOUS
<1>4. f[h] = g[h]
    <2>1. h \in Nat /\ h <= n
        OBVIOUS
    <2> QED BY <2>1, LoopsAgree
<1>5. Shows(ls, h, f[h]) /\ Shows(ls, n, f[n]) /\ Begins(f[h], f[n]) /\ Begins(g[h], g[n])
    BY <1>3, LoopShows, LoopGrows
<1>6. Len(f[h]) \in Nat /\ Len(f[n]) \in Nat /\ Len(g[n]) \in Nat
    <2>1. Shows(ms, n, g[n])
        BY <1>3, LoopShows
    <2> QED BY <1>5, <2>1, LenProperties DEF Shows
<1>7. ls[h].isVisible
    BY <1>5 DEF Shows
<1>8. PICK a \in 1 .. Len(f[h]) : f[h][a] = h
    BY <1>3, <1>5, <1>7 DEF Shows
<1>9. a \in 1 .. Len(f[n]) /\ f[n][a] = h
    BY <1>5, <1>6, <1>8 DEF Begins
<1>10. a = v
    <2>1. v \in 1 .. Len(f[n]) /\ f[n][v] = h
        OBVIOUS
    <2>2. a < v => f[n][a] < f[n][v]
        BY <1>5, <1>9, <2>1 DEF Shows
    <2>3. v < a => f[n][v] < f[n][a]
        BY <1>5, <1>9, <2>1 DEF Shows
    <2> QED BY <1>3, <1>6, <1>9, <2>1, <2>2, <2>3
<1> QED BY <1>4, <1>5, <1>6, <1>8, <1>10 DEF Begins

(* A line that is visible stays in its row whatever happens after it.      *)
LEMMA RowStays ==
    ASSUME NEW ls, NEW ms, Len(ls) \in Nat, Len(ms) = Len(ls), NEW h \in 1 .. Len(ls),
           SeenAlike(ls, ms, h)
    PROVE  KeepsRow(VisibleOf(ls), VisibleOf(ms), h)
<1>1. /\ Len(ls) \in Nat /\ Loops(ls, VisibleUpTo(ls), Len(ls))
      /\ Loops(ms, VisibleUpTo(ms), Len(ls))
    BY VisibleUpToLoops
<1>2. /\ VisibleOf(ls) = VisibleUpTo(ls)[Len(ls)]
      /\ VisibleOf(ms) = VisibleUpTo(ms)[Len(ls)]
    BY DEF VisibleOf
<1>3. KeepsRow(VisibleUpTo(ls)[Len(ls)], VisibleUpTo(ms)[Len(ls)], h)
    BY <1>1, RowStaysInLoop
<1> QED BY <1>2, <1>3

-----------------------------------------------------------------------------
(* The list of rules.                                                      *)

(* A list as GetRulesFiles leaves it, with every section folded.           *)
AllFolded(ls) ==
    /\ ls \in Seq(LineType)
    /\ \A i \in 1 .. Len(ls) :
          /\ IsHeader(ls, i) => ~ls[i].isExpanded
          /\ ls[i].type = "RuleContent" => ~ls[i].isVisible
          /\ ~ls[i].isVisible =>
                ls[i].type = "RuleContent" /\ \E h \in 1 .. i - 1 : IsHeader(ls, h)

LEMMA ConcatAllFolded ==
    ASSUME NEW ls, NEW ms, AllFolded(ls), AllFolded(ms)
    PROVE  AllFolded(ls \o ms)
<1> DEFINE both == ls \o ms
<1>1. ls \in Seq(LineType) /\ ms \in Seq(LineType)
    BY DEF AllFolded
<1>2. /\ both \in Seq(LineType) /\ Len(both) = Len(ls) + Len(ms)
      /\ \A i \in 1 .. Len(ls) + Len(ms) :
            both[i] = IF i <= Len(ls) THEN ls[i] ELSE ms[i - Len(ls)]
    BY <1>1, ConcatProperties
<1>3. Len(ls) \in Nat /\ Len(ms) \in Nat
    BY <1>1, LenProperties
<1> HIDE DEF both
<1>4. ASSUME NEW i \in 1 .. Len(both)
      PROVE  /\ IsHeader(both, i) => ~both[i].isExpanded
             /\ both[i].type = "RuleContent" => ~both[i].isVisible
             /\ ~both[i].isVisible =>
                   both[i].type = "RuleContent" /\ \E h \in 1 .. i - 1 : IsHeader(both, h)
    <2>1. CASE i <= Len(ls)
        <3>1. i \in 1 .. Len(ls) /\ both[i] = ls[i]
            BY <1>2, <1>3, <2>1
        <3>2. \A h \in 1 .. i - 1 : both[h] = ls[h]
            BY <1>2, <1>3, <2>1
        <3> QED BY <3>1, <3>2 DEF AllFolded, IsHeader
    <2>2. CASE i > Len(ls)
        <3> DEFINE j == i - Len(ls)
        <3>1. j \in 1 .. Len(ms) /\ both[i] = ms[j]
            BY <1>2, <1>3, <2>2
        <3>2. ASSUME NEW h \in 1 .. j - 1
              PROVE  h + Len(ls) \in 1 .. i - 1 /\ both[h + Len(ls)] = ms[h]
            <4>1. /\ h + Len(ls) \in 1 .. Len(ls) + Len(ms) /\ ~(h + Len(ls) <= Len(ls))
                  /\ h + Len(ls) - Len(ls) = h /\ h + Len(ls) \in 1 .. i - 1
                BY <1>2, <1>3, <2>2
            <4> QED BY <4>1, <1>2
        <3> HIDE DEF j
        <3>3. /\ IsHeader(ms, j) => ~ms[j].isExpanded
              /\ ms[j].type = "RuleContent" => ~ms[j].isVisible
              /\ ~ms[j].isVisible =>
                    ms[j].type = "RuleContent" /\ \E h \in 1 .. j - 1 : IsHeader(ms, h)
            BY <3>1 DEF AllFolded
        <3>4. (\E h \in 1 .. j - 1 : IsHeader(ms, h)) => \E h \in 1 .. i - 1 : IsHeader(both, h)
            BY <3>2 DEF IsHeader
        <3> QED BY <3>1, <3>3, <3>4 DEF IsHeader
    <2> QED BY <2>1, <2>2, <1>2, <1>3
<1>5. AllFolded(both)
    BY <1>2, <1>4 DEF AllFolded
<1> QED BY <1>5 DEF both

LEMMA FlattenAllFolded ==
    ASSUME NEW s, Len(s) \in Nat, s = <<>> \/ Len(s) > 0,
           \A i \in 1 .. Len(s) : AllFolded(s[i])
    PROVE  AllFolded(FlattenSeq(s))
<1> DEFINE n == Len(s)
<1>1. CASE n = 0
    <2>1. FlattenSeq(s) = <<>>
        BY <1>1 DEF FlattenSeq
    <2>2. AllFolded(<<>>)
        BY DEF AllFolded
    <2> QED BY <2>1, <2>2
<1>2. CASE n # 0
    <2>1. PICK f : Joins(s, f, n)
        BY JoinExists
    <2>2. \E g : Joins(s, g, n) /\ FlattenSeq(s) = g[n]
        <3> DEFINE g == CHOOSE g : Joins(s, g, n)
        <3>1. FlattenSeq(s) = g[n]
            BY <1>2 DEF FlattenSeq, Joins
        <3>2. Joins(s, g, n)
            BY <2>1
        <3> QED BY <3>1, <3>2
    <2>3. PICK g : Joins(s, g, n) /\ FlattenSeq(s) = g[n]
        BY <2>2
    <2>4. n \in Nat /\ n \in 1 .. n
        BY <1>2
    <2> HIDE DEF n
    <2>5. \A i \in 1 .. n : g[i] = IF i = 1 THEN s[i] ELSE g[i - 1] \o s[i]
        BY <2>3 DEF Joins
    <2> DEFINE B == {0} \cup {i \in 1 .. n : AllFolded(g[i])}
    <2>6. ASSUME NEW i \in 1 .. n, i - 1 \in B
          PROVE  i \in B
        <3>1. AllFolded(s[i])
            BY DEF n
        <3>2. CASE i = 1
            <4>1. AllFolded(g[i])
                BY <2>5, <3>1, <3>2
            <4> QED BY <4>1
        <3>3. CASE i # 1
            <4>1. i - 1 \in 1 .. n /\ AllFolded(g[i - 1])
                BY <2>6, <3>3
            <4>2. g[i] = g[i - 1] \o s[i]
                BY <2>5, <3>3
            <4>3. AllFolded(g[i])
                BY <3>1, <4>1, <4>2, ConcatAllFolded
            <4> QED BY <4>3
        <3> QED BY <3>2, <3>3
    <2>7. n \in B
        <3>1. 0 \in B
            OBVIOUS
        <3> HIDE DEF B
        <3>2. 0 .. n \subseteq B
            BY <2>4, <2>6, <3>1, UpTo
        <3> QED BY <2>4, <3>2
    <2>8. AllFolded(g[n])
        BY <2>4, <2>7
    <2> QED BY <2>3, <2>8
<1> QED BY <1>1, <1>2

LEMMA LineTyped ==
    ASSUME NEW text \in TextType, NEW type \in {"Normal", "FileHeader", "RuleContent"}
    PROVE  Line(type, text) \in LineType
BY DEF Line, LineType

LEMMA BlankLine == AllFolded(<<Line("Normal", Blank)>>)
<1>1. Blank \in TextType
    BY DEF Blank, TextType
<1>2. Line("Normal", Blank) \in LineType
    BY <1>1, LineTyped
<1> QED BY <1>2 DEF AllFolded, IsHeader, Line

LEMMA FileAllFolded ==
    ASSUME NEW file \in FileType
    PROVE  AllFolded(FileLines(file))
<1> DEFINE body == [i \in DOMAIN file.body |-> Content(file.body[i])]
           top  == <<Header(file.name)>>
           both == top \o body
<1>1. /\ file.name \in TextType /\ file.body \in Seq(TextType) /\ Len(file.body) \in Nat
      /\ DOMAIN file.body = 1 .. Len(file.body)
      /\ \A i \in 1 .. Len(file.body) : file.body[i] \in TextType
    BY LenProperties, ElementOfSeq DEF FileType
<1>2. \A t \in TextType : /\ Content(t) \in LineType /\ Content(t).type = "RuleContent"
                          /\ ~Content(t).isVisible
    BY DEF Content, Line, LineType
<1>3. /\ Header(file.name) \in LineType /\ Header(file.name).type = "FileHeader"
      /\ ~Header(file.name).isExpanded /\ Header(file.name).isVisible
    BY <1>1 DEF Header, Line, LineType
<1>4. /\ body \in Seq(LineType) /\ Len(body) = Len(file.body)
      /\ \A i \in 1 .. Len(body) : body[i].type = "RuleContent" /\ ~body[i].isVisible
    BY <1>1, <1>2
<1>5. /\ top \in Seq(LineType) /\ Len(top) = 1 /\ top[1] = Header(file.name)
    BY <1>3
<1> HIDE DEF top, body
<1>6. /\ both \in Seq(LineType) /\ Len(both) = 1 + Len(body)
      /\ \A i \in 1 .. 1 + Len(body) : both[i] = IF i <= 1 THEN top[i] ELSE body[i - 1]
    <2>1. /\ both \in Seq(LineType) /\ Len(both) = Len(top) + Len(body)
          /\ \A i \in 1 .. Len(top) + Len(body) :
                both[i] = IF i <= Len(top) THEN top[i] ELSE body[i - Len(top)]
        <3>1. top \in Seq(LineType) /\ body \in Seq(LineType)
            BY <1>4, <1>5
        <3> QED BY <3>1, ConcatProperties
    <2> HIDE DEF both
    <2> QED BY <1>5, <2>1
<1>7. Len(body) \in Nat
    BY <1>4, LenProperties
<1> HIDE DEF both
<1>8. /\ both[1].type = "FileHeader" /\ ~both[1].isExpanded /\ both[1].isVisible
    BY <1>3, <1>5, <1>6, <1>7
<1>9. \A i \in 1 .. Len(both) :
          i = 1 \/ (1 \in 1 .. i - 1 /\ both[i].type = "RuleContent" /\ ~both[i].isVisible)
    BY <1>4, <1>6, <1>7
<1>10. AllFolded(both)
    BY <1>6, <1>8, <1>9 DEF AllFolded, IsHeader
<1> QED BY <1>10, BlankLine, ConcatAllFolded DEF FileLines, both, top, body

LEMMA RulesAllFolded ==
    ASSUME NEW folder \in Seq(FileType)
    PROVE  AllFolded(RulesLines(folder))
<1> DEFINE s == [i \in DOMAIN folder |-> FileLines(folder[i])]
<1>1. /\ DOMAIN folder = 1 .. Len(folder) /\ Len(folder) \in Nat
      /\ \A i \in 1 .. Len(folder) : folder[i] \in FileType
    BY LenProperties, ElementOfSeq
<1>2. Len(s) = Len(folder)
    BY <1>1
<1>3. \A i \in 1 .. Len(s) : AllFolded(s[i])
    BY <1>1, <1>2, FileAllFolded
<1>4. s = <<>> \/ Len(s) > 0
    BY <1>1, <1>2
<1>5. AllFolded(FlattenSeq(s))
    <2> HIDE DEF s
    <2> QED BY <1>1, <1>2, <1>3, <1>4, FlattenAllFolded
<1> QED BY <1>5, BlankLine, ConcatAllFolded DEF RulesLines

-----------------------------------------------------------------------------
(* Folds.                                                                  *)

(* The folds of a list agree with what is visible, and what is hidden has  *)
(* a header above it that reveals it.                                      *)
WellFolded(ls) ==
    \A h, i \in DOMAIN ls :
        (/\ IsHeader(ls, h) /\ h < i
         /\ ls[i].type = "RuleContent"
         /\ \A k \in h + 1 .. i : ~IsHeader(ls, k))
        => (ls[i].isVisible <=> ls[h].isExpanded)
HiddenBelowHeader(ls) ==
    \A i \in DOMAIN ls :
        ~ls[i].isVisible => ls[i].type = "RuleContent" /\ \E h \in 1 .. i - 1 : IsHeader(ls, h)
Sound(ls) == ls \in Seq(LineType) /\ WellFolded(ls) /\ HiddenBelowHeader(ls)

LEMMA SoundTyped ==
    ASSUME NEW ls, Sound(ls)
    PROVE  /\ Len(ls) \in Nat /\ DOMAIN ls = 1 .. Len(ls)
           /\ \A i \in 1 .. Len(ls) : ls[i] \in LineType
BY LenProperties, ElementOfSeq DEF Sound

LEMMA AllFoldedSound ==
    ASSUME NEW ls, AllFolded(ls)
    PROVE  Sound(ls)
<1>1. ls \in Seq(LineType) /\ DOMAIN ls = 1 .. Len(ls)
    BY LenProperties DEF AllFolded
<1> QED BY <1>1 DEF AllFolded, Sound, WellFolded, HiddenBelowHeader

LEMMA ReportSound ==
    ASSUME NEW ls \in Reports
    PROVE  Sound(ls)
<1>1. ls \in Seq(ResultLine)
    BY ReportsAssumption
<1>2. ls \in Seq(LineType) /\ DOMAIN ls = 1 .. Len(ls)
    <2>1. ResultLine \subseteq LineType
        BY DEF ResultLine
    <2> QED BY <1>1, <2>1, SeqMonotonic, LenProperties
<1>3. \A i \in DOMAIN ls : ls[i].isVisible /\ ~IsHeader(ls, i)
    BY <1>1, <1>2, ElementOfSeq DEF ResultLine, IsHeader
<1> QED BY <1>2, <1>3 DEF Sound, WellFolded, HiddenBelowHeader

(* Two lists whose lines differ in their check marks only.                 *)
SameFolds(ls, ms) ==
    /\ ms \in Seq(LineType) /\ Len(ms) = Len(ls)
    /\ \A i \in 1 .. Len(ls) : /\ ms[i].type = ls[i].type
                               /\ ms[i].isVisible = ls[i].isVisible
                               /\ ms[i].isExpanded = ls[i].isExpanded

LEMMA SameFoldsSound ==
    ASSUME NEW ls, NEW ms, Sound(ls), SameFolds(ls, ms)
    PROVE  Sound(ms) /\ VisibleOf(ms) = VisibleOf(ls)
<1>1. Len(ls) \in Nat /\ DOMAIN ls = 1 .. Len(ls) /\ DOMAIN ms = 1 .. Len(ls)
    BY SoundTyped, LenProperties DEF SameFolds
<1>2. \A i \in 1 .. Len(ls) : /\ IsHeader(ms, i) <=> IsHeader(ls, i)
                              /\ ms[i].type = ls[i].type
                              /\ ms[i].isVisible = ls[i].isVisible
                              /\ ms[i].isExpanded = ls[i].isExpanded
    BY DEF SameFolds, IsHeader
<1>3. WellFolded(ms)
    <2> SUFFICES ASSUME NEW h \in 1 .. Len(ls), NEW i \in 1 .. Len(ls),
                        IsHeader(ms, h), h < i, ms[i].type = "RuleContent",
                        \A k \in h + 1 .. i : ~IsHeader(ms, k)
                 PROVE  ms[i].isVisible <=> ms[h].isExpanded
        BY <1>1 DEF WellFolded
    <2>1. h + 1 .. i \subseteq 1 .. Len(ls)
        BY <1>1
    <2>2. ls[i].isVisible <=> ls[h].isExpanded
        BY <1>1, <1>2, <2>1 DEF Sound, WellFolded
    <2> QED BY <1>2, <2>2
<1>4. HiddenBelowHeader(ms)
    <2> SUFFICES ASSUME NEW i \in 1 .. Len(ls), ~ms[i].isVisible
                 PROVE  ms[i].type = "RuleContent" /\ \E h \in 1 .. i - 1 : IsHeader(ms, h)
        BY <1>1 DEF HiddenBelowHeader
    <2>1. ls[i].type = "RuleContent" /\ \E h \in 1 .. i - 1 : IsHeader(ls, h)
        BY <1>1, <1>2 DEF Sound, HiddenBelowHeader
    <2>2. 1 .. i - 1 \subseteq 1 .. Len(ls)
        BY <1>1
    <2> QED BY <1>2, <2>1, <2>2
<1>5. VisibleOf(ms) = VisibleOf(ls)
    <2>1. SeenAlike(ls, ms, Len(ls))
        BY <1>2 DEF SeenAlike
    <2>2. /\ Len(ls) \in Nat /\ Len(ls) <= Len(ls)
          /\ Loops(ls, VisibleUpTo(ls), Len(ls)) /\ Loops(ms, VisibleUpTo(ms), Len(ls))
        BY <1>1, VisibleUpToLoops DEF SameFolds
    <2>3. VisibleUpTo(ls)[Len(ls)] = VisibleUpTo(ms)[Len(ls)]
        BY <2>1, <2>2, LoopsAgree
    <2> QED BY <2>3 DEF VisibleOf, SameFolds
<1> QED BY <1>3, <1>4, <1>5 DEF Sound, SameFolds

LEMMA ToggledSound ==
    ASSUME NEW ls, Sound(ls), NEW i \in 1 .. Len(ls)
    PROVE  SameFolds(ls, Toggled(ls, i)) /\ Toggled(ls, i) # ls
<1> DEFINE l == [ls[i] EXCEPT !.isChecked = ~@]
           ms == [ls EXCEPT ![i] = l]
<1>1. ls[i] \in LineType /\ ls \in Seq(LineType)
    BY SoundTyped DEF Sound
<1>2. /\ l \in LineType /\ l.type = ls[i].type /\ l.isVisible = ls[i].isVisible
      /\ l.isExpanded = ls[i].isExpanded /\ l.isChecked # ls[i].isChecked
    BY <1>1 DEF LineType
<1>3. Toggled(ls, i) = ms
    BY DEF Toggled
<1> HIDE DEF l
<1>4. /\ ms \in Seq(LineType) /\ Len(ms) = Len(ls)
      /\ \A j \in 1 .. Len(ls) : ms[j] = IF j = i THEN l ELSE ls[j]
    BY <1>1, <1>2, ExceptSeq
<1> HIDE DEF ms
<1>5. SameFolds(ls, ms) /\ ms # ls
    BY <1>2, <1>4 DEF SameFolds
<1> QED BY <1>3, <1>5

(* Folding a section agrees with the arrow it flips and leaves what is     *)
(* above it, and every text, alone.                                        *)
FoldsFrom(ls, ms, h) ==
    /\ Sound(ms) /\ Len(ms) = Len(ls) /\ ms # ls /\ SeenAlike(ls, ms, h)
    /\ \A i \in 1 .. Len(ls) : /\ ms[i].type = ls[i].type /\ ms[i].text = ls[i].text
                               /\ ms[i].indented = ls[i].indented
    /\ ms[h].isExpanded = ~ls[h].isExpanded

LEMMA FoldedSound ==
    ASSUME NEW ls, Sound(ls), NEW h \in 1 .. Len(ls), IsHeader(ls, h)
    PROVE  FoldsFrom(ls, Folded(ls, h), h)
<1> DEFINE open == ~ls[h].isExpanded
           inSection(i) == i > h /\ \A k \in h + 1 .. i : ~IsHeader(ls, k)
           ms == Folded(ls, h)
<1>1. /\ Len(ls) \in Nat /\ DOMAIN ls = 1 .. Len(ls) /\ open \in BOOLEAN
      /\ \A i \in 1 .. Len(ls) : ls[i] \in LineType
    BY SoundTyped
<1>2. ms = [i \in 1 .. Len(ls) |->
                IF i = h THEN [ls[i] EXCEPT !.isExpanded = open]
                ELSE IF inSection(i) /\ ls[i].type = "RuleContent"
                     THEN [ls[i] EXCEPT !.isVisible = open]
                     ELSE ls[i]]
    BY <1>1, Zenon DEF Folded
<1> HIDE DEF ms, open
<1>3. ASSUME NEW i \in 1 .. Len(ls)
      PROVE  /\ ms[i] \in LineType /\ ms[i].type = ls[i].type /\ ms[i].text = ls[i].text
             /\ ms[i].indented = ls[i].indented
             /\ i = h => ms[i].isExpanded = open /\ ms[i].isVisible = ls[i].isVisible
             /\ i # h => ms[i].isExpanded = ls[i].isExpanded
             /\ (i # h /\ inSection(i) /\ ls[i].type = "RuleContent") => ms[i].isVisible = open
             /\ (i # h /\ ~(inSection(i) /\ ls[i].type = "RuleContent")) =>
                    ms[i].isVisible = ls[i].isVisible
    <2> HIDE DEF inSection
    <2>1. ls[i] \in LineType /\ open \in BOOLEAN
        BY <1>1
    <2>2. CASE i = h
        <3>1. ms[i] = [ls[i] EXCEPT !.isExpanded = open]
            BY <1>2, <2>2
        <3> QED BY <2>1, <2>2, <3>1 DEF LineType
    <2>3. CASE i # h /\ inSection(i) /\ ls[i].type = "RuleContent"
        <3>1. ms[i] = [ls[i] EXCEPT !.isVisible = open]
            BY <1>2, <2>3
        <3> QED BY <2>1, <2>3, <3>1 DEF LineType
    <2>4. CASE i # h /\ ~(inSection(i) /\ ls[i].type = "RuleContent")
        <3>1. ms[i] = ls[i]
            BY <1>2, <2>4
        <3> QED BY <2>1, <2>4, <3>1
    <2> QED BY <2>2, <2>3, <2>4
<1>4. ms \in Seq(LineType) /\ Len(ms) = Len(ls) /\ DOMAIN ms = 1 .. Len(ls)
    <2>1. DOMAIN ms = 1 .. Len(ls) /\ ms = [i \in 1 .. Len(ls) |-> ms[i]]
        BY <1>2
    <2>2. ms \in [1 .. Len(ls) -> LineType]
        BY <1>3, <2>1
    <2> QED BY <1>1, <2>1, <2>2
<1>5. \A i \in 1 .. Len(ls) : IsHeader(ms, i) <=> IsHeader(ls, i)
    BY <1>3 DEF IsHeader
<1>6. WellFolded(ms)
    <2> SUFFICES ASSUME NEW g \in 1 .. Len(ls), NEW i \in 1 .. Len(ls),
                        IsHeader(ms, g), g < i, ms[i].type = "RuleContent",
                        \A k \in g + 1 .. i : ~IsHeader(ms, k)
                 PROVE  ms[i].isVisible <=> ms[g].isExpanded
        BY <1>4 DEF WellFolded
    <2>1. /\ g + 1 .. i \subseteq 1 .. Len(ls) /\ ls[i].type = "RuleContent" /\ IsHeader(ls, g)
          /\ \A k \in g + 1 .. i : ~IsHeader(ls, k)
        BY <1>1, <1>3, <1>5
    <2>2. i # h
        BY <2>1 DEF IsHeader
    <2>3. CASE g = h
        <3>1. inSection(i)
            BY <2>1, <2>3
        <3> QED BY <1>3, <2>1, <2>2, <2>3, <3>1
    <2>4. CASE g # h
        <3>1. ~inSection(i)
            <4>1. CASE g < h
                <5>1. ~(i > h)
                    BY <2>1, <4>1
                <5> QED BY <5>1
            <4>2. CASE h < g
                <5>1. g \in h + 1 .. i
                    BY <4>2
                <5> QED BY <2>1, <5>1
            <4> QED BY <2>4, <4>1, <4>2
        <3>2. ls[i].isVisible <=> ls[g].isExpanded
            BY <1>1, <2>1 DEF Sound, WellFolded
        <3> HIDE DEF inSection
        <3> QED BY <1>3, <2>2, <2>4, <3>1, <3>2
    <2> QED BY <2>3, <2>4
<1>7. HiddenBelowHeader(ms)
    <2> SUFFICES ASSUME NEW i \in 1 .. Len(ls), ~ms[i].isVisible
                 PROVE  ms[i].type = "RuleContent" /\ \E g \in 1 .. i - 1 : IsHeader(ms, g)
        BY <1>4 DEF HiddenBelowHeader
    <2>1. 1 .. i - 1 \subseteq 1 .. Len(ls)
        BY <1>1
    <2>2. CASE ~ls[i].isVisible
        <3>1. ls[i].type = "RuleContent" /\ \E g \in 1 .. i - 1 : IsHeader(ls, g)
            BY <1>1, <2>2 DEF Sound, HiddenBelowHeader
        <3> QED BY <1>3, <1>5, <2>1, <3>1
    <2>3. CASE ls[i].isVisible
        <3>1. i # h /\ inSection(i) /\ ls[i].type = "RuleContent"
            <4> HIDE DEF inSection
            <4> QED BY <1>3, <2>3
        <3>2. h \in 1 .. i - 1
            BY <3>1
        <3> QED BY <1>3, <1>5, <3>1, <3>2
    <2> QED BY <2>2, <2>3
<1>8. SeenAlike(ls, ms, h)
    <2> SUFFICES ASSUME NEW k \in 1 .. h
                 PROVE  ls[k].isVisible <=> ms[k].isVisible
        BY DEF SeenAlike
    <2>1. k \in 1 .. Len(ls) /\ ~inSection(k)
        BY <1>1
    <2> HIDE DEF inSection
    <2> QED BY <1>3, <2>1
<1>9. ms[h].isExpanded = ~ls[h].isExpanded /\ ms # ls
    <2>1. ms[h].isExpanded = open
        BY <1>3
    <2>2. ms[h].isExpanded = ~ls[h].isExpanded
        BY <2>1 DEF open
    <2>3. ls[h].isExpanded # ~ls[h].isExpanded
        BY <1>1 DEF LineType
    <2> QED BY <2>2, <2>3
<1>10. FoldsFrom(ls, ms, h)
    <2>1. Sound(ms)
        BY <1>4, <1>6, <1>7 DEF Sound
    <2> HIDE DEF inSection
    <2> QED BY <1>3, <1>4, <1>8, <1>9, <2>1 DEF FoldsFrom
<1> QED BY <1>10 DEF ms

(* A match in a hidden line is revealed.                                   *)
LEMMA RevealedShows ==
    ASSUME NEW ls, Sound(ls), NEW i \in 1 .. Len(ls)
    PROVE  /\ Sound(Revealed(ls, i)) /\ Len(Revealed(ls, i)) = Len(ls)
           /\ Revealed(ls, i)[i].isVisible
           /\ Revealed(ls, i)[i].type = ls[i].type /\ Revealed(ls, i)[i].text = ls[i].text
           /\ Revealed(ls, i)[i].indented = ls[i].indented
<1> DEFINE above == {k \in 1 .. i - 1 : IsHeader(ls, k)}
           parent == CHOOSE k \in above : \A j \in above : j <= k
<1>1. Len(ls) \in Nat /\ DOMAIN ls = 1 .. Len(ls) /\ \A k \in 1 .. Len(ls) : ls[k] \in LineType
    BY SoundTyped
<1>2. Revealed(ls, i) = IF ~ls[i].isVisible /\ above # {} /\ ~ls[parent].isExpanded
                        THEN Folded(ls, parent) ELSE ls
    BY DEF Revealed
<1>3. CASE ls[i].isVisible
    <2>1. Revealed(ls, i) = ls
        BY <1>2, <1>3
    <2> QED BY <1>3, <2>1
<1>4. CASE ~ls[i].isVisible
    <2>1. ls[i].type = "RuleContent" /\ above # {}
        BY <1>1, <1>4 DEF Sound, HiddenBelowHeader
    <2>2. \E k \in above : \A j \in above : j <= k
        <3>1. above \subseteq 0 .. Len(ls)
            BY <1>1
        <3> HIDE DEF above
        <3> QED BY <1>1, <2>1, <3>1, GreatestExists
    <2>3. parent \in above /\ \A j \in above : j <= parent
        <3> HIDE DEF above
        <3> QED BY <2>2
    <2> HIDE DEF parent
    <2>4. parent \in 1 .. Len(ls) /\ parent < i /\ IsHeader(ls, parent)
        BY <1>1, <2>3
    <2>5. ASSUME NEW k \in parent + 1 .. i
          PROVE  ~IsHeader(ls, k)
        <3>1. CASE k = i
            BY <2>1, <3>1 DEF IsHeader
        <3>2. CASE k # i
            <4>1. k \in 1 .. i - 1 /\ ~(k <= parent)
                BY <1>1, <2>4, <3>2
            <4> QED BY <2>3, <4>1
        <3> QED BY <3>1, <3>2
    <2>6. \A ms : (WellFolded(ms) /\ DOMAIN ms = 1 .. Len(ls) /\
                   \A k \in 1 .. Len(ls) : ms[k].type = ls[k].type)
                  => (ms[i].isVisible <=> ms[parent].isExpanded)
        <3> SUFFICES ASSUME NEW ms, WellFolded(ms), DOMAIN ms = 1 .. Len(ls),
                            \A k \in 1 .. Len(ls) : ms[k].type = ls[k].type
                     PROVE  ms[i].isVisible <=> ms[parent].isExpanded
            OBVIOUS
        <3>1. parent + 1 .. i \subseteq 1 .. Len(ls)
            BY <1>1, <2>4
        <3>2. /\ IsHeader(ms, parent) /\ ms[i].type = "RuleContent"
              /\ \A k \in parent + 1 .. i : ~IsHeader(ms, k)
            BY <2>1, <2>4, <2>5, <3>1 DEF IsHeader
        <3> QED BY <2>4, <3>2 DEF WellFolded
    <2>7. ~ls[parent].isExpanded
        BY <1>1, <1>4, <2>6 DEF Sound
    <2> DEFINE ms == Folded(ls, parent)
    <2>8. Revealed(ls, i) = ms
        <3> HIDE DEF above
        <3> QED BY <1>2, <1>4, <2>1, <2>7
    <2>9. FoldsFrom(ls, ms, parent)
        BY <2>4, FoldedSound
    <2> HIDE DEF ms
    <2>10. ms[i].isVisible
        <3>1. DOMAIN ms = 1 .. Len(ls) /\ WellFolded(ms) /\ ms[parent].isExpanded
            BY <2>7, <2>9, SoundTyped DEF FoldsFrom, Sound
        <3> QED BY <2>6, <2>9, <3>1 DEF FoldsFrom
    <2> QED BY <2>8, <2>9, <2>10 DEF FoldsFrom
<1> QED BY <1>3, <1>4

-----------------------------------------------------------------------------
(* Scrolling.                                                              *)

(* Whatever MoveTo scrolls from, it ends with the place in view.           *)
LEMMA ScrollShows ==
    ASSUME NEW at \in Nat, NEW from \in Nat, NEW size \in Nat \ {0}
    PROVE  /\ ScrollTo(at, from, size) \in Nat
           /\ at \in ScrollTo(at, from, size) .. ScrollTo(at, from, size) + size - 1
BY DEF ScrollTo

CursorTyped == {cursorRow, cursorCol, startViewLine, leftViewCol} \subseteq Nat

LEMMA MoveToShows ==
    ASSUME CursorTyped, height \in Heights, height' = height, NEW row \in Nat, NEW col \in Nat,
           NEW from \in Nat, NEW total \in Nat, row < total, MoveTo(row, col, from, total),
           Rows' = total
    PROVE  CursorTyped' /\ CursorOnLine' /\ RowInView' /\ ColInView'
<1>1. height \in Nat \ {0} /\ Width \in Nat \ {0} /\ leftViewCol \in Nat
    BY SizesAssumption DEF CursorTyped
<1>2. /\ Scrolled(row, from, total) = ScrollTo(row, from, height)
      /\ ScrollTo(row, from, height) \in Nat
      /\ row \in ScrollTo(row, from, height) .. ScrollTo(row, from, height) + height - 1
    <2>1. /\ ScrollTo(row, from, height) \in Nat
          /\ row \in ScrollTo(row, from, height) .. ScrollTo(row, from, height) + height - 1
        BY <1>1, ScrollShows
    <2>2. ~(ScrollTo(row, from, height) > total)
        BY <2>1
    <2> QED BY <2>1, <2>2 DEF Scrolled
<1>3. /\ ScrollTo(col, leftViewCol, Width) \in Nat
      /\ col \in ScrollTo(col, leftViewCol, Width) .. ScrollTo(col, leftViewCol, Width) + Width - 1
    BY <1>1, ScrollShows
<1>4. /\ cursorRow' = row /\ cursorCol' = col
      /\ startViewLine' = ScrollTo(row, from, height)
      /\ leftViewCol' = ScrollTo(col, leftViewCol, Width)
    BY <1>2 DEF MoveTo
<1>5. CursorTyped'
    BY <1>2, <1>3, <1>4 DEF CursorTyped
<1>6. CursorOnLine'
    BY <1>2, <1>4 DEF CursorOnLine
<1>7. RowInView' /\ ColInView'
    BY <1>2, <1>3, <1>4 DEF RowInView, ColInView
<1> QED BY <1>5, <1>6, <1>7

LEMMA ResetShows ==
    ASSUME ResetCursor, height' \in Heights
    PROVE  CursorTyped' /\ CursorOnLine' /\ RowInView' /\ ColInView'
<1>1. height' \in Nat \ {0} /\ Width \in Nat \ {0}
    BY SizesAssumption
<1>2. cursorRow' = 0 /\ cursorCol' = 0 /\ startViewLine' = 0 /\ leftViewCol' = 0
    BY DEF ResetCursor
<1>3. Rows' > 0 => 0 < Rows'
    OBVIOUS
<1>4. CursorTyped'
    BY <1>2 DEF CursorTyped
<1>5. CursorOnLine'
    BY <1>2, <1>3 DEF CursorOnLine
<1>6. RowInView' /\ ColInView'
    <2>1. \A size \in Nat \ {0} : 0 \in 0 .. 0 + size - 1
        OBVIOUS
    <2>2. 0 \in 0 .. 0 + height' - 1 /\ 0 \in 0 .. 0 + Width - 1
        BY <1>1, <2>1
    <2> QED BY <1>2, <2>2 DEF RowInView, ColInView
<1> QED BY <1>4, <1>5, <1>6

-----------------------------------------------------------------------------
(* The invariant: the type invariant, the folds and the map as promised,   *)
(* the cursor on a line, and above every hidden line a header to reveal it *)
(* with.                                                                   *)
HiddenInSection == HiddenBelowHeader(lines)
IInv == TypeOK /\ ShownAsFolded /\ HiddenInSection /\ CursorOnLine

(* Its part about the list, and its part about the rest.                   *)
ListInv ==
    /\ Sound(lines)
    /\ visibleIndices \in Seq(Nat \ {0})
    /\ lines # <<>> => visibleIndices = VisibleOf(lines)
RestTyped ==
    /\ {selectionAnchorRow, selectionAnchorCol, searchLine, searchCol} \subseteq Nat
    /\ selectionActive \in BOOLEAN /\ searchActive \in BOOLEAN /\ searched \in BOOLEAN
    /\ isButtonFindPressed \in BOOLEAN /\ yaraExecuted \in BOOLEAN
    /\ yaraGetRulesFiles \in BOOLEAN /\ editing \in BOOLEAN
    /\ shown \in {"nothing", "rules", "results"}
    /\ rulesDir \in Seq(FileType) \cup {Missing}
    /\ height \in Heights

LEMMA Parts == IInv <=> ListInv /\ CursorTyped /\ RestTyped /\ CursorOnLine
BY DEF IInv, TypeOK, ShownAsFolded, HiddenInSection, ListInv, CursorTyped, RestTyped, Sound,
       WellFolded

LEMMA PartsNext == IInv' <=> ListInv' /\ CursorTyped' /\ RestTyped' /\ CursorOnLine'
BY Parts, PTL

(* What a step has to show.                                                *)
MovesInView == cursor' # cursor /\ Rows' > 0 => RowInView' /\ (ColInView' \/ lines' # lines)
FindsMatch == search' # search /\ searchActive' => FoundIsShown'
GoodStep == IInv' /\ MovesInView /\ FindsMatch

(* The list.                                                               *)
LEMMA ListKept ==
    ASSUME ListInv, UNCHANGED list
    PROVE  ListInv'
BY DEF ListInv, list, Sound, WellFolded, HiddenBelowHeader, IsHeader

LEMMA ListMade ==
    ASSUME Sound(lines'), visibleIndices' = VisibleOf(lines')
    PROVE  ListInv' /\ Rows' \in Nat /\ Shows(lines', Len(lines'), visibleIndices')
<1>1. Len(lines') \in Nat
    BY SoundTyped
<1>2. Shows(lines', Len(lines'), visibleIndices')
    BY <1>1, MapShows
<1>3. visibleIndices' \in Seq(Nat \ {0}) /\ Rows' \in Nat
    BY <1>2, LenProperties DEF Shows, Rows
<1> QED BY <1>2, <1>3 DEF ListInv

(* Where no row is missing, each row is that of a visible line.            *)
LEMMA RowsShow ==
    ASSUME ListInv, ~Dangling
    PROVE  /\ Rows \in Nat /\ DOMAIN visibleIndices = 1 .. Rows
           /\ Rows > 0 => lines # <<>>
           /\ \A row \in 0 .. Rows - 1 :
                 /\ LineAt(row) \in 1 .. Len(lines) /\ lines[LineAt(row)].isVisible
                 /\ lines[LineAt(row)] \in LineType /\ TextLen(row) \in Nat
           /\ \A i \in 1 .. Len(lines) :
                 lines[i].isVisible => \E v \in DOMAIN visibleIndices : visibleIndices[v] = i
<1>1. /\ Rows \in Nat /\ DOMAIN visibleIndices = 1 .. Rows
      /\ \A v \in 1 .. Rows : visibleIndices[v] \in Nat \ {0}
    BY LenProperties, ElementOfSeq DEF ListInv, Rows
<1>2. CASE lines = <<>>
    <2>1. \A v \in 1 .. Rows : visibleIndices[v] <= 0
        BY <1>1, <1>2 DEF Dangling
    <2>2. Rows = 0
        <3>1. ASSUME Rows # 0
              PROVE  FALSE
            <4>1. 1 \in 1 .. Rows
                BY <1>1, <3>1
            <4> QED BY <1>1, <2>1, <4>1
        <3> QED BY <3>1
    <2>3. Len(lines) = 0
        BY <1>2
    <2> QED BY <1>1, <2>2, <2>3
<1>3. CASE lines # <<>>
    <2>1. Len(lines) \in Nat /\ \A i \in 1 .. Len(lines) : lines[i] \in LineType
        BY SoundTyped DEF ListInv
    <2>2. Shows(lines, Len(lines), visibleIndices)
        BY <1>3, <2>1, MapShows DEF ListInv
    <2>3. ASSUME NEW row \in 0 .. Rows - 1
          PROVE  /\ LineAt(row) \in 1 .. Len(lines) /\ lines[LineAt(row)].isVisible
                 /\ lines[LineAt(row)] \in LineType /\ TextLen(row) \in Nat
        <3>1. row + 1 \in 1 .. Rows
            BY <1>1
        <3>2. LineAt(row) \in 1 .. Len(lines) /\ lines[LineAt(row)].isVisible
            BY <2>2, <3>1 DEF Shows, LineAt, Rows
        <3>3. lines[LineAt(row)] \in LineType
            BY <2>1, <3>2
        <3> QED BY <3>2, <3>3 DEF LineType, TextType, TextLen
    <2>4. \A i \in 1 .. Len(lines) :
              lines[i].isVisible => \E v \in DOMAIN visibleIndices : visibleIndices[v] = i
        BY <1>1, <2>2 DEF Shows, Rows
    <2> QED BY <1>1, <1>3, <2>3, <2>4
<1> QED BY <1>2, <1>3

-----------------------------------------------------------------------------
(* Reloading.                                                              *)
LEMMA LoadRulesGood ==
    ASSUME ListInv, LoadRules, rulesDir \in Seq(FileType) \cup {Missing}, height' \in Heights
    PROVE  /\ ListInv' /\ CursorTyped' /\ CursorOnLine' /\ RowInView' /\ ColInView'
           /\ selectionActive' = FALSE /\ selectionAnchorRow' = 0 /\ selectionAnchorCol' = 0
           /\ shown' \in {"nothing", "rules", "results"} /\ yaraGetRulesFiles' \in BOOLEAN
<1>1. CursorTyped' /\ CursorOnLine' /\ RowInView' /\ ColInView'
    BY ResetShows DEF LoadRules
<1>2. CASE rulesDir = Missing
    <2>1. lines' = <<>> /\ visibleIndices' = visibleIndices
        BY <1>2 DEF LoadRules
    <2>2. Sound(<<>>)
        BY DEF Sound, WellFolded, HiddenBelowHeader
    <2>3. ListInv'
        BY <2>1, <2>2 DEF ListInv
    <2> QED BY <1>1, <1>2, <2>3 DEF LoadRules, ResetCursor
<1>3. CASE rulesDir # Missing
    <2>1. rulesDir \in Seq(FileType)
        BY <1>3
    <2>2. lines' = RulesLines(rulesDir) /\ visibleIndices' = VisibleOf(lines')
        BY <1>3 DEF LoadRules
    <2>3. Sound(lines')
        BY <2>1, <2>2, RulesAllFolded, AllFoldedSound
    <2>4. ListInv'
        BY <2>2, <2>3, ListMade
    <2> QED BY <1>1, <1>3, <2>4 DEF LoadRules, ResetCursor
<1> QED BY <1>2, <1>3

LEMMA LoadingGood ==
    ASSUME IInv, LoadRules, UNCHANGED <<search, finding, height>>,
           rulesDir' \in Seq(FileType) \cup {Missing},
           yaraExecuted' \in BOOLEAN, editing' \in BOOLEAN
    PROVE  GoodStep
<1>1. ListInv /\ RestTyped
    BY Parts
<1>2. height' \in Heights /\ search' = search
    BY <1>1 DEF RestTyped
<1>3. /\ ListInv' /\ CursorTyped' /\ CursorOnLine' /\ RowInView' /\ ColInView'
      /\ selectionActive' = FALSE /\ selectionAnchorRow' = 0 /\ selectionAnchorCol' = 0
      /\ shown' \in {"nothing", "rules", "results"} /\ yaraGetRulesFiles' \in BOOLEAN
    BY <1>1, <1>2, LoadRulesGood DEF RestTyped
<1>4. RestTyped'
    <2>1. /\ selectionActive' \in BOOLEAN /\ searchActive' \in BOOLEAN /\ searched' \in BOOLEAN
          /\ isButtonFindPressed' \in BOOLEAN
        BY <1>1, <1>3 DEF RestTyped, search, finding
    <2>2. {selectionAnchorRow', selectionAnchorCol', searchLine', searchCol'} \subseteq Nat
        BY <1>1, <1>3 DEF RestTyped, search
    <2> QED BY <1>2, <1>3, <2>1, <2>2 DEF RestTyped
<1>5. IInv'
    BY <1>3, <1>4, PartsNext
<1> QED BY <1>2, <1>3, <1>5 DEF GoodStep, MovesInView, FindsMatch

LEMMA ReloadingGood ==
    ASSUME IInv, Reloading
    PROVE  GoodStep
<1>1. RestTyped
    BY Parts
<1>2. /\ yaraExecuted \in BOOLEAN /\ editing \in BOOLEAN
      /\ rulesDir \in Seq(FileType) \cup {Missing} /\ <<>> \in Seq(FileType)
    BY <1>1 DEF RestTyped
<1>3. CASE Paint
    BY <1>2, <1>3, LoadingGood DEF Paint, outside
<1>4. CASE ViewRules
    BY <1>2, <1>4, LoadingGood DEF ViewRules, outside
<1>5. CASE EditRules
    BY <1>2, <1>5, LoadingGood DEF EditRules
<1>6. ASSUME NEW ok \in BOOLEAN, EditRulesDone(ok)
      PROVE  GoodStep
    <2>1. CASE ok
        BY <1>2, <1>6, <2>1, LoadingGood DEF EditRulesDone, outside
    <2>2. CASE ~ok
        <3>1. /\ UNCHANGED <<cursor, viewport, selection, list, shown, yaraGetRulesFiles>>
              /\ UNCHANGED <<search, finding, yaraExecuted, outside>> /\ editing' = FALSE
            BY <1>6, <2>2 DEF EditRulesDone, KeepCursor
        <3>2. ListInv'
            BY <3>1, Parts, ListKept
        <3>3. CursorTyped' /\ RestTyped' /\ CursorOnLine'
            BY <3>1, Parts DEF CursorTyped, RestTyped, CursorOnLine, Rows, cursor, viewport,
                               selection, list, search, finding, outside
        <3> QED BY <3>1, <3>2, <3>3, PartsNext DEF GoodStep, MovesInView, FindsMatch
    <2> QED BY <2>1, <2>2
<1>7. CASE FolderChanges
    <2>1. /\ UNCHANGED <<list, cursor, viewport, selection, search, finding, content, height>>
          /\ rulesDir' \in Seq(FileType) \cup {Missing}
        BY <1>7, FoldersAssumption DEF FolderChanges
    <2>2. ListInv'
        BY <2>1, Parts, ListKept
    <2>3. CursorTyped' /\ RestTyped' /\ CursorOnLine'
        BY <2>1, Parts DEF CursorTyped, RestTyped, CursorOnLine, Rows, cursor, viewport,
                           selection, list, search, finding, content
    <2> QED BY <2>1, <2>2, <2>3, PartsNext DEF GoodStep, MovesInView, FindsMatch
<1> QED BY <1>3, <1>4, <1>5, <1>6, <1>7, Reloading DEF Reloading

(* Running a scan, and check marks.                                        *)
LEMMA CheckedGood ==
    ASSUME IInv, SameFolds(lines, lines'), UNCHANGED visibleIndices, KeepCursor,
           UNCHANGED <<search, finding, content, outside>>, lines # <<>>
    PROVE  GoodStep
<1>1. ListInv /\ CursorTyped /\ RestTyped /\ CursorOnLine
    BY Parts
<1>2. Sound(lines') /\ VisibleOf(lines') = VisibleOf(lines)
    BY <1>1, SameFoldsSound DEF ListInv
<1>3. ListInv'
    BY <1>1, <1>2 DEF ListInv
<1>4. CursorTyped' /\ RestTyped' /\ CursorOnLine'
    BY <1>1 DEF CursorTyped, RestTyped, CursorOnLine, Rows, KeepCursor, cursor, viewport,
                selection, search, finding, content, outside
<1>5. cursor' = cursor /\ search' = search
    BY DEF KeepCursor
<1> QED BY <1>3, <1>4, <1>5, PartsNext DEF GoodStep, MovesInView, FindsMatch

LEMMA KeySpaceGood ==
    ASSUME IInv, KeySpace
    PROVE  GoodStep
<1>1. ListInv /\ ~Dangling /\ CursorTyped /\ CursorOnLine
    BY Parts DEF KeySpace, Key, Ready
<1>2. /\ Rows \in Nat /\ Rows > 0 /\ lines # <<>>
      /\ cursorRow \in 0 .. Rows - 1
    BY <1>1, RowsShow DEF KeySpace, Key, CursorOnLine, CursorTyped
<1>3. LineAt(cursorRow) \in 1 .. Len(lines)
    BY <1>1, <1>2, RowsShow
<1>4. SameFolds(lines, lines')
    BY <1>1, <1>3, ToggledSound DEF KeySpace, ListInv
<1> QED BY <1>2, <1>4, CheckedGood DEF KeySpace

LEMMA CheckAllGood ==
    ASSUME IInv, NEW value \in BOOLEAN, CheckAll(value)
    PROVE  GoodStep
<1>1. ListInv /\ CursorTyped /\ RestTyped /\ CursorOnLine
    BY Parts
<1>2. /\ Len(lines) \in Nat /\ DOMAIN lines = 1 .. Len(lines)
      /\ \A i \in 1 .. Len(lines) : lines[i] \in LineType
    BY <1>1, SoundTyped DEF ListInv
<1>3. lines' = [i \in 1 .. Len(lines) |->
                    IF IsHeader(lines, i) THEN [lines[i] EXCEPT !.isChecked = value]
                    ELSE lines[i]]
    BY <1>2 DEF CheckAll
<1>4. ASSUME NEW i \in 1 .. Len(lines)
      PROVE  /\ lines'[i] \in LineType /\ lines'[i].type = lines[i].type
             /\ lines'[i].isVisible = lines[i].isVisible
             /\ lines'[i].isExpanded = lines[i].isExpanded
    <2>1. lines[i] \in LineType
        BY <1>2
    <2>2. CASE IsHeader(lines, i)
        <3>1. lines'[i] = [lines[i] EXCEPT !.isChecked = value]
            BY <1>3, <2>2
        <3> QED BY <2>1, <3>1 DEF LineType
    <2>3. CASE ~IsHeader(lines, i)
        <3>1. lines'[i] = lines[i]
            BY <1>3, <2>3
        <3> QED BY <2>1, <3>1
    <2> QED BY <2>2, <2>3
<1>5. SameFolds(lines, lines')
    <2>1. DOMAIN lines' = 1 .. Len(lines) /\ lines' = [i \in 1 .. Len(lines) |-> lines'[i]]
        BY <1>3
    <2>2. lines' \in [1 .. Len(lines) -> LineType]
        BY <1>4, <2>1
    <2>3. lines' \in Seq(LineType) /\ Len(lines') = Len(lines)
        BY <1>2, <2>1, <2>2
    <2> QED BY <1>4, <2>3 DEF SameFolds
<1>6. CASE lines = <<>>
    <2>1. lines' = lines
        BY <1>2, <1>5, <1>6 DEF SameFolds
    <2>2. /\ UNCHANGED <<list, cursor, viewport, selection>>
          /\ UNCHANGED <<search, finding, content, outside>>
        BY <2>1 DEF CheckAll, KeepCursor, list
    <2>3. ListInv'
        BY <1>1, <2>2, ListKept
    <2>4. CursorTyped' /\ RestTyped' /\ CursorOnLine'
        BY <1>1, <2>2 DEF CursorTyped, RestTyped, CursorOnLine, Rows, cursor, viewport,
                          selection, list, search, finding, content, outside
    <2> QED BY <2>2, <2>3, <2>4, PartsNext DEF GoodStep, MovesInView, FindsMatch
<1>7. CASE lines # <<>>
    BY <1>5, <1>7, CheckedGood DEF CheckAll
<1> QED BY <1>6, <1>7

LEMMA RunYaraGood ==
    ASSUME IInv, NEW scannerFound, NEW result \in Reports, RunYara(scannerFound, result)
    PROVE  GoodStep
<1>1. ListInv /\ CursorTyped /\ RestTyped /\ CursorOnLine
    BY Parts
<1>2. Sound(lines') /\ visibleIndices' = VisibleOf(lines')
    BY ReportSound DEF RunYara
<1>3. ListInv'
    BY <1>2, ListMade
<1>4. /\ height' = height /\ search' = search /\ finding' = finding /\ editing' = editing
      /\ yaraExecuted' = TRUE /\ yaraGetRulesFiles' = TRUE /\ shown' = "results"
      /\ ResetCursor
    BY DEF RunYara, StopsLoading, outside
<1>5. CursorTyped' /\ CursorOnLine' /\ RowInView' /\ ColInView'
    BY <1>1, <1>4, ResetShows DEF RestTyped
<1>6. RestTyped'
    <2>1. /\ selectionActive' \in BOOLEAN /\ searchActive' \in BOOLEAN /\ searched' \in BOOLEAN
          /\ isButtonFindPressed' \in BOOLEAN /\ yaraExecuted' \in BOOLEAN
          /\ yaraGetRulesFiles' \in BOOLEAN /\ editing' \in BOOLEAN
        BY <1>1, <1>4 DEF RestTyped, search, finding, ResetCursor
    <2>2. {selectionAnchorRow', selectionAnchorCol', searchLine', searchCol'} \subseteq Nat
        BY <1>1, <1>4 DEF RestTyped, search, ResetCursor
    <2>3. height' \in Heights /\ rulesDir' \in Seq(FileType) \cup {Missing}
        BY <1>1 DEF RestTyped, RunYara, outside
    <2> QED BY <1>4, <2>1, <2>2, <2>3 DEF RestTyped
<1> QED BY <1>3, <1>4, <1>5, <1>6, PartsNext DEF GoodStep, MovesInView, FindsMatch

-----------------------------------------------------------------------------
(* Keys.                                                                   *)
LEMMA StillGood ==
    ASSUME IInv, UNCHANGED <<list, cursor, viewport, selectionAnchorRow, selectionAnchorCol>>,
           UNCHANGED <<searchLine, searchCol, content, rulesDir>>,
           height' \in Heights, selectionActive' \in BOOLEAN, searched' \in BOOLEAN,
           isButtonFindPressed' \in BOOLEAN, searchActive' \in BOOLEAN,
           searchActive' = FALSE \/ searchActive' = searchActive
    PROVE  GoodStep
<1>1. ListInv /\ CursorTyped /\ RestTyped /\ CursorOnLine
    BY Parts
<1>2. ListInv'
    BY <1>1, ListKept
<1>3. CursorTyped' /\ CursorOnLine'
    BY <1>1 DEF CursorTyped, CursorOnLine, Rows, cursor, viewport, list
<1>4. RestTyped'
    <2>1. /\ yaraExecuted' \in BOOLEAN /\ yaraGetRulesFiles' \in BOOLEAN /\ editing' \in BOOLEAN
          /\ shown' \in {"nothing", "rules", "results"}
        BY <1>1 DEF RestTyped, content
    <2>2. {selectionAnchorRow', selectionAnchorCol', searchLine', searchCol'} \subseteq Nat
        BY <1>1 DEF RestTyped
    <2>3. rulesDir' \in Seq(FileType) \cup {Missing}
        BY <1>1 DEF RestTyped
    <2> QED BY <2>1, <2>2, <2>3 DEF RestTyped
<1>5. MovesInView
    BY DEF MovesInView
<1>6. FindsMatch
    BY DEF FindsMatch, search
<1> QED BY <1>2, <1>3, <1>4, <1>5, <1>6, PartsNext DEF GoodStep

(* Where MoveTo takes the cursor to a row, everything else being left      *)
(* alone but the selection.                                                *)
LEMMA MovingGood ==
    ASSUME IInv, ~Dangling, NEW row \in Nat, row < Rows, NEW col \in Nat, NEW from \in Nat,
           MoveTo(row, col, from, Rows), UNCHANGED <<list, search, finding, content, outside>>,
           selectionActive' \in BOOLEAN, selectionAnchorRow' \in Nat, selectionAnchorCol' \in Nat
    PROVE  GoodStep
<1>1. ListInv /\ CursorTyped /\ RestTyped /\ CursorOnLine
    BY Parts
<1>2. ListInv'
    BY <1>1, ListKept
<1>3. Rows \in Nat /\ Rows' = Rows /\ height \in Heights /\ height' = height
    BY <1>1, RowsShow DEF RestTyped, outside, list, Rows
<1>4. CursorTyped' /\ CursorOnLine' /\ RowInView' /\ ColInView'
    BY <1>1, <1>3, MoveToShows
<1>5. RestTyped'
    <2>1. /\ searchActive' \in BOOLEAN /\ searched' \in BOOLEAN /\ isButtonFindPressed' \in BOOLEAN
          /\ yaraExecuted' \in BOOLEAN /\ yaraGetRulesFiles' \in BOOLEAN /\ editing' \in BOOLEAN
        BY <1>1 DEF RestTyped, search, finding, content
    <2>2. {selectionAnchorRow', selectionAnchorCol', searchLine', searchCol'} \subseteq Nat
        BY <1>1 DEF RestTyped, search
    <2>3. /\ height' \in Heights /\ rulesDir' \in Seq(FileType) \cup {Missing}
          /\ shown' \in {"nothing", "rules", "results"}
        BY <1>1 DEF RestTyped, content, outside
    <2> QED BY <2>1, <2>2, <2>3 DEF RestTyped
<1> QED BY <1>2, <1>4, <1>5, PartsNext DEF GoodStep, MovesInView, FindsMatch

LEMMA KeyMovesGood ==
    ASSUME IInv, Key, NEW row \in Nat, row < Rows, NEW col \in Nat, NEW from \in Nat,
           MoveTo(row, col, from, Rows), KeyRest
    PROVE  GoodStep
<1>1. /\ selectionActive' \in BOOLEAN /\ selectionAnchorRow' \in Nat
      /\ selectionAnchorCol' \in Nat
    BY Parts DEF RestTyped, KeyRest, selection
<1> QED BY <1>1, MovingGood DEF Key, Ready, KeyRest

(* Where the cursor is, and what the keys compute from.                    *)
LEMMA AtCursor ==
    ASSUME IInv, Key
    PROVE  /\ Rows \in Nat /\ Rows > 0 /\ cursorRow \in Nat /\ cursorRow < Rows
           /\ cursorCol \in Nat /\ startViewLine \in Nat /\ startViewLine <= cursorRow
           /\ leftViewCol \in Nat /\ height \in Nat \ {0}
           /\ \A row \in 0 .. Rows - 1 : TextLen(row) \in Nat
           /\ \A row \in Nat : DownFrom(row) \in Nat /\ UpFrom(row) \in Nat
           /\ LineAt(cursorRow) \in 1 .. Len(lines) /\ lines[LineAt(cursorRow)].isVisible
<1>1. ListInv /\ CursorTyped /\ RestTyped /\ CursorOnLine /\ ~Dangling /\ Rows > 0
    BY Parts DEF Key, Ready
<1>2. /\ Rows \in Nat /\ cursorRow \in Nat /\ cursorRow < Rows
      /\ cursorCol \in Nat /\ startViewLine \in Nat /\ startViewLine <= cursorRow
      /\ leftViewCol \in Nat /\ height \in Nat \ {0}
    BY <1>1, RowsShow, SizesAssumption DEF CursorTyped, CursorOnLine, RestTyped
<1>3. \A row \in Nat : DownFrom(row) \in Nat /\ UpFrom(row) \in Nat
    BY <1>2 DEF DownFrom, UpFrom
<1>4. cursorRow \in 0 .. Rows - 1
    BY <1>2
<1> QED BY <1>1, <1>2, <1>3, <1>4, RowsShow

LEMMA MovingKeysGood ==
    ASSUME IInv, KeyRight \/ KeyLeft \/ KeyDown \/ KeyUp
    PROVE  GoodStep
<1>0. Key /\ KeyRest
    BY DEF KeyRight, KeyLeft, KeyDown, KeyUp
<1>1. /\ Rows \in Nat /\ Rows > 0 /\ cursorRow \in Nat /\ cursorRow < Rows
      /\ cursorCol \in Nat /\ startViewLine \in Nat
      /\ \A row \in 0 .. Rows - 1 : TextLen(row) \in Nat
      /\ \A row \in Nat : DownFrom(row) \in Nat /\ UpFrom(row) \in Nat
    BY <1>0, AtCursor
<1>2. \A a, b \in Nat : LesserOf(a, b) \in Nat
    BY DEF LesserOf
<1>3. CASE MoveTo(cursorRow, cursorCol, startViewLine, Rows)
    BY <1>0, <1>1, <1>3, KeyMovesGood
<1>4. CASE KeyRight
    <2>1. CASE cursorCol < TextLen(cursorRow)
        <3>1. cursorCol + 1 \in Nat /\ MoveTo(cursorRow, cursorCol + 1, startViewLine, Rows)
            BY <1>1, <1>4, <2>1 DEF KeyRight
        <3> QED BY <1>0, <1>1, <3>1, KeyMovesGood
    <2>2. CASE ~(cursorCol < TextLen(cursorRow)) /\ cursorRow + 1 < Rows
        <3>1. /\ cursorRow + 1 \in Nat /\ DownFrom(cursorRow + 1) \in Nat /\ 0 \in Nat
              /\ MoveTo(cursorRow + 1, 0, DownFrom(cursorRow + 1), Rows)
            BY <1>1, <1>4, <2>2 DEF KeyRight
        <3> QED BY <1>0, <1>1, <2>2, <3>1, KeyMovesGood
    <2> QED BY <1>3, <1>4, <2>1, <2>2 DEF KeyRight
<1>5. CASE KeyLeft
    <2>1. CASE cursorCol > 0
        <3>1. cursorCol - 1 \in Nat /\ MoveTo(cursorRow, cursorCol - 1, startViewLine, Rows)
            BY <1>1, <1>5, <2>1 DEF KeyLeft
        <3> QED BY <1>0, <1>1, <3>1, KeyMovesGood
    <2>2. CASE ~(cursorCol > 0) /\ cursorRow > 0
        <3>1. /\ cursorRow - 1 \in Nat /\ cursorRow - 1 < Rows /\ TextLen(cursorRow - 1) \in Nat
              /\ UpFrom(cursorRow - 1) \in Nat
              /\ MoveTo(cursorRow - 1, TextLen(cursorRow - 1), UpFrom(cursorRow - 1), Rows)
            BY <1>1, <1>5, <2>2 DEF KeyLeft
        <3> QED BY <1>0, <1>1, <3>1, KeyMovesGood
    <2> QED BY <1>3, <1>5, <2>1, <2>2 DEF KeyLeft
<1>6. CASE KeyDown
    <2>1. CASE cursorRow + 1 < Rows
        <3>1. /\ cursorRow + 1 \in Nat /\ DownFrom(cursorRow + 1) \in Nat
              /\ LesserOf(cursorCol, TextLen(cursorRow + 1)) \in Nat
              /\ MoveTo(cursorRow + 1, LesserOf(cursorCol, TextLen(cursorRow + 1)),
                        DownFrom(cursorRow + 1), Rows)
            BY <1>1, <1>2, <1>6, <2>1 DEF KeyDown
        <3> QED BY <1>0, <1>1, <2>1, <3>1, KeyMovesGood
    <2> QED BY <1>3, <1>6, <2>1 DEF KeyDown
<1>7. CASE KeyUp
    <2>1. CASE cursorRow > 0
        <3>1. /\ cursorRow - 1 \in Nat /\ cursorRow - 1 < Rows /\ UpFrom(cursorRow - 1) \in Nat
              /\ LesserOf(cursorCol, TextLen(cursorRow - 1)) \in Nat
              /\ MoveTo(cursorRow - 1, LesserOf(cursorCol, TextLen(cursorRow - 1)),
                        UpFrom(cursorRow - 1), Rows)
            BY <1>1, <1>2, <1>7, <2>1 DEF KeyUp
        <3> QED BY <1>0, <1>1, <3>1, KeyMovesGood
    <2> QED BY <1>3, <1>7, <2>1 DEF KeyUp
<1> QED BY <1>4, <1>5, <1>6, <1>7

LEMMA PageKeysGood ==
    ASSUME IInv, KeyPageDown \/ KeyPageUp
    PROVE  GoodStep
<1>0. Key /\ KeyRest
    BY DEF KeyPageDown, KeyPageUp
<1>1. /\ Rows \in Nat /\ Rows > 0 /\ cursorRow \in Nat /\ cursorRow < Rows
      /\ cursorCol \in Nat /\ startViewLine \in Nat /\ height \in Nat \ {0}
    BY <1>0, AtCursor
<1>2. CASE KeyPageDown
    <2> DEFINE from == IF cursorRow + height < Rows THEN startViewLine + height
                       ELSE IF Rows > height THEN Rows - height
                       ELSE startViewLine
    <2>1. PageDownTarget \in Nat /\ PageDownTarget < Rows /\ from \in Nat
        BY <1>1 DEF PageDownTarget
    <2>2. MoveTo(PageDownTarget, cursorCol, from, Rows)
        BY <1>2 DEF KeyPageDown
    <2> HIDE DEF from
    <2> QED BY <1>0, <1>1, <2>1, <2>2, KeyMovesGood
<1>3. CASE KeyPageUp
    <2> DEFINE from == IF cursorRow > height /\ startViewLine > height
                       THEN startViewLine - height ELSE 0
    <2>1. PageUpTarget \in Nat /\ PageUpTarget < Rows /\ from \in Nat
        BY <1>1 DEF PageUpTarget
    <2>2. MoveTo(PageUpTarget, cursorCol, from, Rows)
        BY <1>3 DEF KeyPageUp
    <2> HIDE DEF from
    <2> QED BY <1>0, <1>1, <2>1, <2>2, KeyMovesGood
<1> QED BY <1>2, <1>3

LEMMA QuietGood ==
    ASSUME IInv, Resize \/ KeyEscape \/ CopySelectionToClipboard
    PROVE  GoodStep
<1>1. RestTyped
    BY Parts
<1>2. /\ height \in Heights /\ selectionActive \in BOOLEAN /\ searchActive \in BOOLEAN
      /\ searched \in BOOLEAN /\ isButtonFindPressed \in BOOLEAN
    BY <1>1 DEF RestTyped
<1>3. CASE Resize
    BY <1>2, <1>3, StillGood DEF Resize, selection, search, finding
<1>4. CASE KeyEscape
    BY <1>2, <1>4, StillGood DEF KeyEscape, outside
<1>5. CASE CopySelectionToClipboard
    BY <1>2, <1>5, StillGood DEF CopySelectionToClipboard, selection, search, finding
<1> QED BY <1>3, <1>4, <1>5

(* Folding the section of a header in view leaves the header in its row.   *)
LEMMA FoldKeepsRow ==
    ASSUME IInv, ~Dangling, NEW row \in 0 .. Rows - 1, IsHeader(lines, LineAt(row)),
           ToggleFold(LineAt(row))
    PROVE  ListInv' /\ Rows' \in Nat /\ row < Rows' /\ lines' # lines
<1>1. ListInv
    BY Parts
<1> DEFINE h == LineAt(row)
<1>2. /\ h \in 1 .. Len(lines) /\ lines # <<>> /\ Rows \in Nat
      /\ row + 1 \in 1 .. Rows /\ visibleIndices[row + 1] = h
    <2>1. Rows \in Nat /\ Rows > 0 /\ h \in 1 .. Len(lines)
        BY <1>1, RowsShow
    <2> QED BY <1>1, <2>1, RowsShow DEF LineAt
<1>3. FoldsFrom(lines, lines', h)
    BY <1>1, <1>2, FoldedSound DEF ListInv, ToggleFold
<1>4. ListInv' /\ Rows' \in Nat
    BY <1>3, ListMade DEF FoldsFrom, ToggleFold
<1>5. visibleIndices = VisibleOf(lines) /\ visibleIndices' = VisibleOf(lines')
    BY <1>1, <1>2 DEF ListInv, ToggleFold
<1>6. KeepsRow(VisibleOf(lines), VisibleOf(lines'), h)
    <2>1. Len(lines) \in Nat /\ Len(lines') = Len(lines) /\ SeenAlike(lines, lines', h)
        BY <1>1, <1>3, SoundTyped DEF ListInv, FoldsFrom
    <2> HIDE DEF h
    <2> QED BY <1>2, <2>1, RowStays
<1>7. row + 1 \in 1 .. Rows'
    BY <1>2, <1>5, <1>6 DEF KeepsRow, Rows
<1> QED BY <1>3, <1>4, <1>7 DEF FoldsFrom

LEMMA KeyEnterGood ==
    ASSUME IInv, KeyEnter
    PROVE  GoodStep
<1>1. ListInv /\ CursorTyped /\ RestTyped /\ CursorOnLine /\ ~Dangling
    BY Parts DEF KeyEnter, Key, Ready
<1>2. Rows \in Nat /\ cursorRow \in 0 .. Rows - 1 /\ startViewLine <= cursorRow
    BY AtCursor DEF KeyEnter
<1>3. ListInv' /\ Rows' \in Nat /\ cursorRow < Rows'
    BY <1>1, <1>2, FoldKeepsRow DEF KeyEnter
<1>4. /\ UNCHANGED <<cursor, viewport, selection>>
      /\ UNCHANGED <<search, finding, content, outside>>
    BY DEF KeyEnter, KeepCursor
<1>5. CursorTyped' /\ RestTyped'
    BY <1>1, <1>4 DEF CursorTyped, RestTyped, cursor, viewport, selection, search, finding,
                      content, outside
<1>6. CursorOnLine'
    BY <1>2, <1>3, <1>4 DEF CursorOnLine, cursor, viewport
<1> QED BY <1>3, <1>4, <1>5, <1>6, PartsNext DEF GoodStep, MovesInView, FindsMatch

-----------------------------------------------------------------------------
(* Search.                                                                 *)
LEMMA SelectMatchGood ==
    ASSUME IInv, Sound(lines'), visibleIndices' = VisibleOf(lines'),
           NEW i \in 1 .. Len(lines'), lines'[i].isVisible, NEW c \in lines'[i].text.hits,
           Indent(lines, i) = Indent(lines', i), SelectMatch(i, c),
           UNCHANGED <<content, outside>>, searched' \in BOOLEAN, isButtonFindPressed' \in BOOLEAN
    PROVE  GoodStep
<1>1. ListInv /\ CursorTyped /\ RestTyped /\ CursorOnLine
    BY Parts
<1>2. /\ ListInv' /\ Rows' \in Nat /\ Shows(lines', Len(lines'), visibleIndices')
    BY ListMade
<1>3. /\ Len(lines') \in Nat /\ DOMAIN lines' = 1 .. Len(lines') /\ lines'[i] \in LineType
      /\ DOMAIN visibleIndices' = 1 .. Rows' /\ Rows' = Len(visibleIndices')
    <2>1. visibleIndices' \in Seq(Nat \ {0})
        BY <1>2 DEF Shows
    <2> QED BY <2>1, SoundTyped, LenProperties DEF Rows
<1>4. c \in Nat
    BY <1>3 DEF LineType, TextType
<1> DEFINE row == RowOf(visibleIndices', i)
           col == c + Indent(lines, i)
<1>5. row \in Nat /\ row < Rows' /\ visibleIndices'[row + 1] = i
    <2>1. \E v \in DOMAIN visibleIndices' : visibleIndices'[v] = i
        BY <1>2, <1>3 DEF Shows
    <2> DEFINE v == CHOOSE v \in DOMAIN visibleIndices' : visibleIndices'[v] = i
    <2>2. v \in DOMAIN visibleIndices' /\ visibleIndices'[v] = i
        BY <2>1
    <2>3. row = v - 1
        BY DEF RowOf
    <2> HIDE DEF v, row
    <2> QED BY <1>2, <1>3, <2>2, <2>3
<1>6. col \in Nat /\ col + QueryLen \in Nat
    BY <1>4, SizesAssumption DEF Indent
<1>7. /\ searchActive' = TRUE /\ searchLine' = i /\ searchCol' = col /\ selectionActive' = FALSE
      /\ MoveTo(row, col + QueryLen, startViewLine, Rows')
      /\ selectionAnchorRow' = selectionAnchorRow /\ selectionAnchorCol' = selectionAnchorCol
    BY <1>3 DEF SelectMatch
<1> HIDE DEF row, col
<1>8. height \in Heights /\ height' = height /\ startViewLine \in Nat
    BY <1>1 DEF RestTyped, CursorTyped, outside
<1>9. CursorTyped' /\ CursorOnLine' /\ RowInView' /\ ColInView'
    BY <1>1, <1>2, <1>5, <1>6, <1>7, <1>8, MoveToShows
<1>10. RestTyped'
    <2>1. /\ searchActive' \in BOOLEAN /\ selectionActive' \in BOOLEAN
          /\ yaraExecuted' \in BOOLEAN /\ yaraGetRulesFiles' \in BOOLEAN /\ editing' \in BOOLEAN
        BY <1>1, <1>7 DEF RestTyped, content
    <2>2. {selectionAnchorRow', selectionAnchorCol', searchLine', searchCol'} \subseteq Nat
        BY <1>1, <1>6, <1>7 DEF RestTyped
    <2>3. /\ height' \in Heights /\ rulesDir' \in Seq(FileType) \cup {Missing}
          /\ shown' \in {"nothing", "rules", "results"}
        BY <1>1 DEF RestTyped, content, outside
    <2> QED BY <2>1, <2>2, <2>3 DEF RestTyped
<1>11. FoundIsShown'
    <2>1. searchLine' \in DOMAIN lines' /\ lines'[searchLine'].isVisible
        BY <1>3, <1>7
    <2>2. cursorRow' = row /\ cursorCol' = col + QueryLen
        BY <1>7 DEF MoveTo
    <2>3. LineAt(cursorRow)' = searchLine' /\ cursorCol' = searchCol' + QueryLen
        BY <1>5, <1>7, <2>2 DEF LineAt
    <2>4. DrawnAt(lines'[i], c) = col
        BY DEF DrawnAt, Indent, IsHeader, col
    <2>5. Highlights(searchLine, c)'
        BY <1>7, <2>4 DEF Highlights
    <2> QED BY <1>7, <2>1, <2>3, <2>5 DEF FoundIsShown
<1> QED BY <1>2, <1>9, <1>10, <1>11, PartsNext DEF GoodStep, MovesInView, FindsMatch

LEMMA GoToLineGood ==
    ASSUME IInv, NEW i \in DOMAIN lines, HasHit(lines, i), GoToLine(i),
           UNCHANGED <<content, outside>>, searched' \in BOOLEAN, isButtonFindPressed' \in BOOLEAN
    PROVE  GoodStep
<1>1. ListInv
    BY Parts
<1>2. /\ Len(lines) \in Nat /\ DOMAIN lines = 1 .. Len(lines) /\ lines[i] \in LineType
      /\ i \in 1 .. Len(lines) /\ lines # <<>>
    BY <1>1, SoundTyped DEF ListInv
<1>3. /\ Sound(lines') /\ Len(lines') = Len(lines) /\ lines'[i].isVisible
      /\ lines'[i].type = lines[i].type /\ lines'[i].text = lines[i].text
      /\ lines'[i].indented = lines[i].indented
    BY <1>1, <1>2, RevealedShows DEF ListInv, GoToLine
<1>4. visibleIndices' = VisibleOf(lines')
    BY <1>1, <1>2 DEF ListInv, GoToLine
<1>5. FirstHit(lines, i) \in lines'[i].text.hits
    <2> DEFINE hits == lines[i].text.hits
    <2>1. hits \subseteq Nat /\ hits # {}
        BY <1>2 DEF LineType, TextType, HasHit
    <2>2. FirstHit(lines, i) = CHOOSE c \in hits : \A d \in hits : c <= d
        BY DEF FirstHit
    <2> HIDE DEF hits
    <2>3. FirstHit(lines, i) \in hits
        BY <2>1, <2>2, LeastExists
    <2> QED BY <1>3, <2>3 DEF hits
<1>6. Indent(lines, i) = Indent(lines', i)
    BY <1>3 DEF Indent, IsHeader
<1>7. SelectMatch(i, FirstHit(lines, i))
    BY DEF GoToLine
<1> QED BY <1>2, <1>3, <1>4, <1>5, <1>6, <1>7, SelectMatchGood

LEMMA NothingFoundGood ==
    ASSUME IInv, NothingFound, UNCHANGED <<content, outside>>,
           searched' \in BOOLEAN, isButtonFindPressed' \in BOOLEAN
    PROVE  GoodStep
<1>1. selectionActive \in BOOLEAN /\ searchActive \in BOOLEAN /\ height \in Heights
    BY Parts DEF RestTyped
<1> QED BY <1>1, StillGood DEF NothingFound, selection, search, outside

LEMMA FindTextGood ==
    ASSUME IInv, FindText
    PROVE  GoodStep
<1>1. searched' \in BOOLEAN /\ isButtonFindPressed' \in BOOLEAN
    BY DEF FindText
<1>2. \/ NothingFound
      \/ \E i \in DOMAIN lines : HasHit(lines, i) /\ GoToLine(i)
    BY DEF FindText
<1>3. UNCHANGED <<content, outside>>
    BY DEF FindText
<1> QED BY <1>1, <1>2, <1>3, NothingFoundGood, GoToLineGood

LEMMA FindNextGood ==
    ASSUME IInv, FindNext
    PROVE  GoodStep
<1>1. searched' \in BOOLEAN /\ isButtonFindPressed' \in BOOLEAN /\ UNCHANGED <<content, outside>>
    BY Parts DEF FindNext, RestTyped, finding
<1>2. ListInv /\ Key
    BY Parts DEF FindNext, Key
<1> DEFINE here == LineAt(cursorRow)
<1>3. here \in 1 .. Len(lines) /\ lines[here].isVisible /\ lines # <<>>
    BY <1>2, AtCursor, RowsShow DEF Key, Ready
<1>4. \/ NothingFound
      \/ \E i \in DOMAIN lines : HasHit(lines, i) /\ GoToLine(i)
      \/ \E c \in RestOfLine(here) : UNCHANGED list /\ SelectMatch(here, c)
    BY DEF FindNext
<1>5. ASSUME NEW c \in RestOfLine(here), UNCHANGED list, SelectMatch(here, c)
      PROVE  GoodStep
    <2>1. lines' = lines /\ visibleIndices' = visibleIndices /\ c \in lines[here].text.hits
        BY <1>5 DEF list, RestOfLine
    <2>2. Sound(lines') /\ visibleIndices' = VisibleOf(lines')
        BY <1>2, <1>3, <2>1 DEF ListInv
    <2>3. Indent(lines, here) = Indent(lines', here)
        BY <2>1
    <2> HIDE DEF here
    <2> QED BY <1>1, <1>3, <1>5, <2>1, <2>2, <2>3, SelectMatchGood
<1> QED BY <1>1, <1>4, <1>5, NothingFoundGood, GoToLineGood

-----------------------------------------------------------------------------
(* The mouse.                                                              *)
LEMMA AtMouse ==
    ASSUME IInv, ~Dangling, Rows > 0, NEW y \in Int, NEW x \in Columns
    PROVE  /\ Rows \in Nat /\ startViewLine \in Nat
           /\ MouseRow(y) \in 0 .. Rows - 1 /\ MouseCol(x, MouseRow(y)) \in Nat
           /\ (0 <= y /\ startViewLine + y < Rows) => MouseRow(y) = startViewLine + y
<1>1. ListInv /\ CursorTyped
    BY Parts
<1>2. Rows \in Nat /\ startViewLine \in Nat /\ leftViewCol \in Nat /\ x \in Int
    BY <1>1, RowsShow, SizesAssumption DEF CursorTyped
<1>3. MouseRow(y) \in 0 .. Rows - 1
    BY <1>2 DEF MouseRow
<1>4. (0 <= y /\ startViewLine + y < Rows) => MouseRow(y) = startViewLine + y
    BY <1>2 DEF MouseRow
<1>5. \A row \in 0 .. Rows - 1 : MouseCol(x, row) \in Nat
    <2> TAKE row \in 0 .. Rows - 1
    <2>1. lines[LineAt(row)] \in LineType
        BY <1>1, RowsShow
    <2>2. lines[LineAt(row)].text.len \in Nat
        BY <2>1 DEF LineType, TextType
    <2>3. DisplayLen(LineAt(row)) \in Nat
        BY <2>2, SizesAssumption DEF DisplayLen
    <2> QED BY <1>2, <2>3 DEF MouseCol, LesserOf
<1> QED BY <1>2, <1>3, <1>4, <1>5

LEMMA MouseDragGood ==
    ASSUME IInv, NEW x \in Columns, NEW y \in Int, MouseDrag(x, y)
    PROVE  GoodStep
<1> DEFINE row == MouseRow(y)
           col == MouseCol(x, row)
<1>1. ~Dangling /\ Rows > 0
    BY DEF MouseDrag, Ready
<1>2. Rows \in Nat /\ startViewLine \in Nat /\ row \in 0 .. Rows - 1 /\ col \in Nat
    BY <1>1, AtMouse
<1>3. MoveTo(row, col, startViewLine, Rows)
    BY DEF MouseDrag
<1>4. /\ selectionActive' \in BOOLEAN
      /\ selectionAnchorRow' \in Nat /\ selectionAnchorCol' \in Nat
    BY Parts DEF MouseDrag, RestTyped
<1> HIDE DEF row, col
<1>5. row \in Nat /\ row < Rows
    BY <1>2
<1> QED BY <1>1, <1>2, <1>3, <1>4, <1>5, MovingGood DEF MouseDrag

LEMMA MousePressedGood ==
    ASSUME IInv, NEW x \in Columns, NEW y \in 0 .. height - 1, MousePressed(x, y)
    PROVE  GoodStep
<1> DEFINE row == MouseRow(y)
           col == MouseCol(x, row)
           i == LineAt(row)
<1>1. ListInv /\ CursorTyped /\ RestTyped /\ CursorOnLine /\ ~Dangling
    BY Parts DEF MousePressed, Ready
<1>2. height \in Nat \ {0} /\ y \in Int /\ 0 <= y /\ y <= height - 1 /\ startViewLine \in Nat
    BY <1>1, SizesAssumption DEF RestTyped, CursorTyped
<1>3. startViewLine + y < Rows /\ Rows \in Nat /\ Rows > 0
    BY <1>1, <1>2, RowsShow DEF MousePressed
<1>4. row \in 0 .. Rows - 1 /\ row = startViewLine + y /\ col \in Nat
    BY <1>1, <1>2, <1>3, AtMouse
<1>5. /\ selectionAnchorRow' = row /\ selectionAnchorCol' = col /\ selectionActive' = FALSE
      /\ UNCHANGED <<search, finding, content, outside>>
    BY DEF MousePressed
<1>6. i \in 1 .. Len(lines) /\ lines # <<>>
    BY <1>1, <1>3, <1>4, RowsShow
<1>7. \/ PutCursor(row, col) /\ lines' = Toggled(lines, i) /\ UNCHANGED visibleIndices
      \/ PutCursor(row, col) /\ IsHeader(lines, i) /\ ToggleFold(i)
      \/ MoveTo(row, col, startViewLine, Rows) /\ UNCHANGED list
    BY DEF MousePressed, OnArrow
<1> HIDE DEF row, col
<1>8. RestTyped'
    <2>1. /\ searchActive' \in BOOLEAN /\ searched' \in BOOLEAN /\ isButtonFindPressed' \in BOOLEAN
          /\ yaraExecuted' \in BOOLEAN /\ yaraGetRulesFiles' \in BOOLEAN /\ editing' \in BOOLEAN
          /\ selectionActive' \in BOOLEAN
        BY <1>1, <1>5 DEF RestTyped, search, finding, content
    <2>2. {selectionAnchorRow', selectionAnchorCol', searchLine', searchCol'} \subseteq Nat
        BY <1>1, <1>4, <1>5 DEF RestTyped, search
    <2>3. /\ height' \in Heights /\ rulesDir' \in Seq(FileType) \cup {Missing}
          /\ shown' \in {"nothing", "rules", "results"}
        BY <1>1, <1>5 DEF RestTyped, content, outside
    <2> QED BY <2>1, <2>2, <2>3 DEF RestTyped
(* A click that changes the list puts the cursor on a row in view.         *)
<1>9. ASSUME ListInv', lines' # lines, row < Rows', PutCursor(row, col)
      PROVE  GoodStep
    <2>1. cursorRow' = row /\ cursorCol' = col /\ startViewLine' = startViewLine
          /\ leftViewCol' = leftViewCol /\ height' = height
        BY <1>5, <1>9 DEF PutCursor, viewport, outside
    <2>2. CursorTyped'
        BY <1>1, <1>4, <2>1 DEF CursorTyped
    <2>3. CursorOnLine'
        BY <1>2, <1>4, <1>9, <2>1 DEF CursorOnLine
    <2>4. RowInView'
        BY <1>2, <1>4, <2>1 DEF RowInView
    <2> QED BY <1>5, <1>8, <1>9, <2>2, <2>3, <2>4, PartsNext
        DEF GoodStep, MovesInView, FindsMatch
<1>10. CASE PutCursor(row, col) /\ lines' = Toggled(lines, i) /\ UNCHANGED visibleIndices
    <2>1. SameFolds(lines, lines') /\ lines' # lines
        BY <1>1, <1>6, <1>10, ToggledSound DEF ListInv
    <2>2. Sound(lines') /\ VisibleOf(lines') = VisibleOf(lines)
        BY <1>1, <2>1, SameFoldsSound DEF ListInv
    <2>3. ListInv'
        BY <1>1, <1>6, <1>10, <2>2 DEF ListInv
    <2>4. row < Rows'
        BY <1>3, <1>4, <1>10 DEF Rows
    <2> QED BY <1>9, <1>10, <2>1, <2>3, <2>4
<1>11. CASE PutCursor(row, col) /\ IsHeader(lines, i) /\ ToggleFold(i)
    <2>1. ListInv' /\ row < Rows' /\ lines' # lines
        BY <1>1, <1>4, <1>11, FoldKeepsRow
    <2> QED BY <1>9, <1>11, <2>1
<1>12. CASE MoveTo(row, col, startViewLine, Rows) /\ UNCHANGED list
    <2>1. row \in Nat /\ row < Rows
        BY <1>3, <1>4
    <2>2. /\ selectionActive' \in BOOLEAN
          /\ selectionAnchorRow' \in Nat /\ selectionAnchorCol' \in Nat
        BY <1>4, <1>5, <2>1
    <2> QED BY <1>1, <1>2, <1>4, <1>5, <1>12, <2>1, <2>2, MovingGood
<1> QED BY <1>7, <1>10, <1>11, <1>12

-----------------------------------------------------------------------------
(* Every step.                                                             *)
LEMMA StepGood ==
    ASSUME IInv, Next
    PROVE  GoodStep
<1>1. CASE Reloading
    BY <1>1, ReloadingGood
<1>2. CASE Running
    BY <1>2, CheckAllGood, KeySpaceGood, RunYaraGood DEF Running
<1>3. CASE Moving
    BY <1>3, MovingKeysGood, PageKeysGood, QuietGood DEF Moving
<1>4. CASE KeyEnter
    BY <1>4, KeyEnterGood
<1>5. CASE Searching
    BY <1>5, FindTextGood, FindNextGood, QuietGood DEF Searching
<1>6. CASE Pointing
    <2>1. ASSUME NEW x \in Columns, NEW y \in -1 .. height, MouseDrag(x, y)
          PROVE  GoodStep
        <3>1. y \in Int
            OBVIOUS
        <3> QED BY <2>1, <3>1, MouseDragGood
    <2> QED BY <1>6, <2>1, MousePressedGood, QuietGood DEF Pointing
<1> QED BY <1>1, <1>2, <1>3, <1>4, <1>5, <1>6 DEF Next

LEMMA InitGood == Init => IInv
<1> SUFFICES ASSUME Init
             PROVE  IInv
    OBVIOUS
<1>1. Sound(<<>>)
    BY DEF Sound, WellFolded, HiddenBelowHeader
<1>2. ListInv
    BY <1>1 DEF Init, ListInv
<1>3. CursorTyped /\ RestTyped /\ CursorOnLine
    <2>1. rulesDir \in Seq(FileType) \cup {Missing}
        BY FoldersAssumption DEF Init
    <2>2. CursorOnLine
        <3>1. Rows = 0
            BY DEF Init, Rows
        <3> QED BY <3>1 DEF CursorOnLine
    <2>3. CursorTyped
        BY DEF Init, CursorTyped
    <2>4. /\ selectionActive \in BOOLEAN /\ searchActive \in BOOLEAN /\ searched \in BOOLEAN
          /\ isButtonFindPressed \in BOOLEAN /\ yaraExecuted \in BOOLEAN
          /\ yaraGetRulesFiles \in BOOLEAN /\ editing \in BOOLEAN
        BY DEF Init
    <2>5. {selectionAnchorRow, selectionAnchorCol, searchLine, searchCol} \subseteq Nat
        BY DEF Init
    <2>6. shown \in {"nothing", "rules", "results"} /\ height \in Heights
        BY DEF Init
    <2> QED BY <2>1, <2>2, <2>3, <2>4, <2>5, <2>6 DEF RestTyped
<1> QED BY <1>2, <1>3, Parts

LEMMA StutterGood ==
    ASSUME IInv, UNCHANGED vars
    PROVE  GoodStep
<1>1. /\ selectionActive \in BOOLEAN /\ searchActive \in BOOLEAN /\ height \in Heights
      /\ searched \in BOOLEAN /\ isButtonFindPressed \in BOOLEAN
    BY Parts DEF RestTyped
<1> QED BY <1>1, StillGood DEF vars, selection, search, finding, outside

LEMMA Invariant == Spec => []IInv
<1>1. IInv /\ [Next]_vars => IInv'
    BY StepGood, StutterGood DEF GoodStep
<1> QED BY InitGood, <1>1, PTL DEF Spec

(* The types of the view's state.                                          *)
THEOREM Typed == Spec => []TypeOK
<1>1. IInv => TypeOK
    BY DEF IInv
<1> QED BY Invariant, <1>1, PTL

(* The arrows, what is visible and the map of visible lines agree, whoever *)
(* folds, reveals, reloads, runs or checks (ToggleFold, FindNext,          *)
(* GetRulesFiles, RunYara).                                                *)
THEOREM FoldsAgree == Spec => []ShownAsFolded
<1>1. IInv => ShownAsFolded
    BY DEF IInv
<1> QED BY Invariant, <1>1, PTL

(* The cursor stays on a visible line, the viewport at or above it.        *)
THEOREM CursorStaysOnLine == Spec => []CursorOnLine
<1>1. IInv => CursorOnLine
    BY DEF IInv
<1> QED BY Invariant, <1>1, PTL

(* Every step that moves the cursor leaves it in view (MoveTo).            *)
THEOREM CursorStaysOnScreen == Spec => CursorOnScreen
<1>1. IInv /\ [Next]_vars => [MovesInView]_vars
    BY StepGood DEF GoodStep
<1>2. Spec => [][MovesInView]_vars
    BY Invariant, <1>1, PTL DEF Spec
<1> QED BY <1>2 DEF CursorOnScreen, MovesInView

(* A search that finds something shows it (ShowFindDialog, FindNext).      *)
THEOREM SearchShowsMatch == Spec => FindLandsOnMatch
<1>1. IInv /\ [Next]_vars => [FindsMatch]_vars
    BY StepGood DEF GoodStep
<1>2. Spec => [][FindsMatch]_vars
    BY Invariant, <1>1, PTL DEF Spec
<1> QED BY <1>2 DEF FindLandsOnMatch, FindsMatch

-----------------------------------------------------------------------------
(* What follows is about the scan.                                        *)
-----------------------------------------------------------------------------
(* Pieces of an output.                                                    *)

Names(printed, h) ==
    [k \in DOMAIN printed |-> IF k \in Behind(printed, h) THEN <<printed[k].name>> ELSE <<>>]
MatchAt(printed) ==
    [h \in DOMAIN printed |-> IF h \in Are(printed, "header")
                            THEN <<Block("match", printed[h].name, StringsOf(printed, h))>>
                            ELSE <<>>]

LEMMA LinesAre ==
    ASSUME NEW printed \in Seq(OutputLine)
    PROVE  /\ DOMAIN printed = 1 .. Len(printed) /\ Len(printed) \in Nat
           /\ \A k \in 1 .. Len(printed) : printed[k] \in OutputLine /\ printed[k].name \in STRING
<1>1. DOMAIN printed = 1 .. Len(printed) /\ Len(printed) \in Nat
    BY LenProperties
<1>2. ASSUME NEW k \in 1 .. Len(printed)
      PROVE  printed[k] \in OutputLine /\ printed[k].name \in STRING
    <2>1. printed[k] \in OutputLine
        BY ElementOfSeq
    <2> QED BY <2>1 DEF OutputLine
<1> QED BY <1>1, <1>2

LEMMA NamesFit ==
    ASSUME NEW printed \in Seq(OutputLine), NEW h
    PROVE  /\ Pieces(Names(printed, h), Len(printed), STRING)
           /\ StringsOf(printed, h) = Joined(Names(printed, h), Len(printed))
           /\ StringsOf(printed, h) \in Seq(STRING)
<1>1. Pieces(Names(printed, h), Len(printed), STRING)
    <2> SUFFICES ASSUME NEW k \in 1 .. Len(printed) PROVE Names(printed, h)[k] \in Seq(STRING)
        BY DEF Pieces
    <2>1. printed[k].name \in STRING /\ k \in DOMAIN printed
        BY LinesAre
    <2>2. <<printed[k].name>> \in Seq(STRING) /\ <<>> \in Seq(STRING)
        BY <2>1
    <2> QED BY <2>1, <2>2 DEF Names
<1>2. StringsOf(printed, h) = Joined(Names(printed, h), Len(printed))
    <2>1. [k \in 1 .. Len(printed) |-> Names(printed, h)[k]] =
             [k \in DOMAIN printed |-> IF k \in Behind(printed, h) THEN <<printed[k].name>> ELSE <<>>]
        BY LinesAre DEF Names
    <2> QED BY <2>1 DEF StringsOf, Joined
<1> QED BY <1>1, <1>2, LinesAre, JoinedType

LEMMA NamesTurn ==
    ASSUME NEW printed \in Seq(OutputLine), NEW h, NEW r \in Nat, r < Len(printed)
    PROVE  /\ Joined(Names(printed, h), r + 1) = Joined(Names(printed, h), r) \o Names(printed, h)[r + 1]
           /\ Joined(Names(printed, h), r) \in Seq(STRING)
<1>1. Len(printed) \in Nat /\ Pieces(Names(printed, h), Len(printed), STRING)
    BY NamesFit, LinesAre
<1>2. Pieces(Names(printed, h), r + 1, STRING) /\ Pieces(Names(printed, h), r, STRING)
    BY <1>1, FewerPieces
<1> QED BY <1>2, JoinedNext, JoinedType

LEMMA MatchType ==
    ASSUME NEW rule \in STRING, NEW strings \in Seq(STRING)
    PROVE  /\ Block("match", rule, strings) \in BlockType
           /\ IsMatch(Block("match", rule, strings))
BY DEF Block, BlockType, BlockTypes, IsMatch

LEMMA MatchesFit ==
    ASSUME NEW printed \in Seq(OutputLine)
    PROVE  /\ Pieces(MatchAt(printed), Len(printed), BlockType)
           /\ MatchesIn(printed) = Joined(MatchAt(printed), Len(printed))
           /\ MatchesIn(printed) \in Seq(BlockType)
<1>1. Pieces(MatchAt(printed), Len(printed), BlockType)
    <2> SUFFICES ASSUME NEW k \in 1 .. Len(printed) PROVE MatchAt(printed)[k] \in Seq(BlockType)
        BY DEF Pieces
    <2>1. printed[k].name \in STRING /\ k \in DOMAIN printed
        BY LinesAre
    <2>2. Block("match", printed[k].name, StringsOf(printed, k)) \in BlockType
        BY <2>1, NamesFit, MatchType
    <2>3. /\ <<Block("match", printed[k].name, StringsOf(printed, k))>> \in Seq(BlockType)
          /\ <<>> \in Seq(BlockType)
        BY <2>2
    <2> QED BY <2>1, <2>3 DEF MatchAt
<1>2. MatchesIn(printed) = Joined(MatchAt(printed), Len(printed))
    <2>1. [h \in 1 .. Len(printed) |-> MatchAt(printed)[h]] =
             [h \in DOMAIN printed |-> IF h \in Are(printed, "header")
                                     THEN <<Block("match", printed[h].name, StringsOf(printed, h))>>
                                     ELSE <<>>]
        BY LinesAre DEF MatchAt
    <2> QED BY <2>1 DEF MatchesIn, Joined
<1> QED BY <1>1, <1>2, LinesAre, JoinedType

-----------------------------------------------------------------------------
(* The reading of an output: rule and strings are those of the last header *)
(* of the first r printed, and reported holds the matches before it.         *)

UpToLine(printed, kind, r) == {i \in Are(printed, kind) : i <= r}
LastHeader(printed, r, h) ==
    h \in UpToLine(printed, "header", r) /\ \A i \in UpToLine(printed, "header", r) : i <= h

HasRead(printed, r, rule, strings, before, reported) ==
    /\ rule = NoRule => UpToLine(printed, "header", r) = {} /\ reported = before
    /\ rule # NoRule =>
          \E h \in 1 .. r : /\ LastHeader(printed, r, h)
                            /\ rule = printed[h].name
                            /\ strings = Joined(Names(printed, h), r)
                            /\ reported = before \o Joined(MatchAt(printed), h - 1)

LEMMA NothingRead ==
    ASSUME NEW printed \in Seq(OutputLine), NEW strings, NEW before
    PROVE  HasRead(printed, 0, NoRule, strings, before, before)
BY LinesAre DEF HasRead, UpToLine, Are

(* A line that is neither a header nor a string.                           *)
LEMMA OtherRead ==
    ASSUME NEW printed \in Seq(OutputLine), NEW r \in Nat, r < Len(printed), NEW rule, NEW strings,
           NEW before, NEW reported, HasRead(printed, r, rule, strings, before, reported),
           r + 1 \notin Are(printed, "header"), r + 1 \notin Are(printed, "string")
    PROVE  HasRead(printed, r + 1, rule, strings, before, reported)
<1>1. UpToLine(printed, "header", r + 1) = UpToLine(printed, "header", r)
    BY LinesAre DEF UpToLine, Are
<1>2. ASSUME rule # NoRule
      PROVE  \E h \in 1 .. r + 1 : /\ LastHeader(printed, r + 1, h)
                                   /\ rule = printed[h].name
                                   /\ strings = Joined(Names(printed, h), r + 1)
                                   /\ reported = before \o Joined(MatchAt(printed), h - 1)
    <2>1. PICK h \in 1 .. r : /\ LastHeader(printed, r, h)
                              /\ rule = printed[h].name
                              /\ strings = Joined(Names(printed, h), r)
                              /\ reported = before \o Joined(MatchAt(printed), h - 1)
        BY <1>2 DEF HasRead
    <2>2. Names(printed, h)[r + 1] = <<>> /\ r + 1 \in 1 .. Len(printed)
        BY LinesAre DEF Names, Behind
    <2>3. Joined(Names(printed, h), r + 1) = Joined(Names(printed, h), r)
        <3>1. /\ Joined(Names(printed, h), r + 1) = Joined(Names(printed, h), r) \o <<>>
              /\ Joined(Names(printed, h), r) \in Seq(STRING)
            BY <2>2, NamesTurn
        <3> QED BY <3>1, EmptyFirst
    <2> QED BY <1>1, <2>1, <2>3 DEF LastHeader
<1> QED BY <1>1, <1>2 DEF HasRead

(* A string: it lies behind the last header.                               *)
LEMMA StringRead ==
    ASSUME NEW printed \in Seq(OutputLine), NEW r \in Nat, r < Len(printed), NEW rule, NEW strings,
           NEW before, NEW reported, HasRead(printed, r, rule, strings, before, reported),
           r + 1 \notin Are(printed, "header"), r + 1 \in Are(printed, "string")
    PROVE  HasRead(printed, r + 1, rule, Append(strings, printed[r + 1].name), before, reported)
<1>1. UpToLine(printed, "header", r + 1) = UpToLine(printed, "header", r)
    BY LinesAre DEF UpToLine, Are
<1>2. ASSUME rule # NoRule
      PROVE  \E h \in 1 .. r + 1 : /\ LastHeader(printed, r + 1, h)
                                   /\ rule = printed[h].name
                                   /\ Append(strings, printed[r + 1].name) =
                                         Joined(Names(printed, h), r + 1)
                                   /\ reported = before \o Joined(MatchAt(printed), h - 1)
    <2>1. PICK h \in 1 .. r : /\ LastHeader(printed, r, h)
                              /\ rule = printed[h].name
                              /\ strings = Joined(Names(printed, h), r)
                              /\ reported = before \o Joined(MatchAt(printed), h - 1)
        BY <1>2 DEF HasRead
    <2>2. r + 1 \in Behind(printed, h)
        <3>1. ASSUME NEW j \in h + 1 .. r + 1, j \in Are(printed, "header")
              PROVE  FALSE
            <4>1. j # r + 1 /\ j <= r
                BY <3>1
            <4>2. j \in UpToLine(printed, "header", r)
                BY <3>1, <4>1 DEF UpToLine
            <4> QED BY <2>1, <4>2 DEF LastHeader
        <3> QED BY <3>1 DEF Behind
    <2>3. Names(printed, h)[r + 1] = <<printed[r + 1].name>> /\ r + 1 \in 1 .. Len(printed)
        BY <2>2, LinesAre DEF Names
    <2>4. Joined(Names(printed, h), r + 1) = Append(strings, printed[r + 1].name)
        <3>1. strings \in Seq(STRING) /\ printed[r + 1].name \in STRING
            BY <2>1, <2>3, NamesTurn, LinesAre
        <3>2. strings \o <<printed[r + 1].name>> = Append(strings, printed[r + 1].name)
            BY <3>1, AppendIs
        <3>3. Joined(Names(printed, h), r + 1) = Joined(Names(printed, h), r) \o Names(printed, h)[r + 1]
            BY NamesTurn
        <3>4. Joined(Names(printed, h), r + 1) = strings \o <<printed[r + 1].name>>
            BY <2>1, <2>3, <3>3, Zenon
        <3> QED BY <3>2, <3>4, Zenon
    <2>5. h \in 1 .. r + 1 /\ LastHeader(printed, r + 1, h)
        BY <1>1, <2>1 DEF LastHeader
    <2> QED BY <2>1, <2>4, <2>5
<1>3. rule = NoRule => UpToLine(printed, "header", r + 1) = {} /\ reported = before
    BY <1>1 DEF HasRead
<1> QED BY <1>2, <1>3 DEF HasRead

Closes(printed, r) == r < Len(printed) => r + 1 \in Are(printed, "header")

(* What AddMatchToUI is given at the end of a match: before a header, or   *)
(* at the end of the output.                                               *)
LEMMA MatchClosed ==
    ASSUME NEW printed \in Seq(OutputLine), NEW r \in Nat, r <= Len(printed), NEW h \in 1 .. r,
           LastHeader(printed, r, h), Closes(printed, r)
    PROVE  /\ StringsOf(printed, h) = Joined(Names(printed, h), r)
           /\ Joined(MatchAt(printed), r) =
                 Joined(MatchAt(printed), h - 1)
                    \o <<Block("match", printed[h].name, Joined(Names(printed, h), r))>>
<1>0. Len(printed) \in Nat /\ DOMAIN printed = 1 .. Len(printed)
    BY LinesAre
<1>1. StringsOf(printed, h) = Joined(Names(printed, h), r)
    <2>1. \A k \in r + 1 .. Len(printed) : Names(printed, h)[k] = <<>>
        <3> TAKE k \in r + 1 .. Len(printed)
        <3>1. r + 1 \in h + 1 .. k /\ r + 1 \in Are(printed, "header") /\ k \in DOMAIN printed
            BY <1>0 DEF Closes
        <3>2. k \notin Behind(printed, h)
            BY <3>1 DEF Behind
        <3> QED BY <3>1, <3>2 DEF Names
    <2>2. Joined(Names(printed, h), Len(printed)) = Joined(Names(printed, h), r)
        <3>1. Pieces(Names(printed, h), Len(printed), STRING) /\ r \in 0 .. Len(printed)
            BY <1>0, NamesFit
        <3> QED BY <1>0, <2>1, <3>1, JoinedRest
    <2> QED BY <2>2, NamesFit
<1>2. Pieces(MatchAt(printed), Len(printed), BlockType)
    BY MatchesFit
<1>3. Pieces(MatchAt(printed), r, BlockType)
    BY <1>0, <1>2, FewerPieces
<1>4. \A k \in h + 1 .. r : MatchAt(printed)[k] = <<>>
    <2> TAKE k \in h + 1 .. r
    <2>1. k \in DOMAIN printed
        BY <1>0
    <2>2. k \notin Are(printed, "header")
        BY DEF LastHeader, UpToLine
    <2> QED BY <2>1, <2>2 DEF MatchAt
<1>5. Joined(MatchAt(printed), r) = Joined(MatchAt(printed), h)
    <2>1. h \in 0 .. r
        OBVIOUS
    <2> QED BY <1>3, <1>4, <2>1, JoinedRest
<1>6. Joined(MatchAt(printed), h) = Joined(MatchAt(printed), h - 1) \o MatchAt(printed)[h]
    BY <1>3, JoinedTurn
<1>7. MatchAt(printed)[h] = <<Block("match", printed[h].name, StringsOf(printed, h))>>
    <2>1. h \in DOMAIN printed /\ h \in Are(printed, "header")
        BY <1>0 DEF LastHeader, UpToLine
    <2> QED BY <2>1 DEF MatchAt
<1> QED BY <1>1, <1>5, <1>6, <1>7

(* Dump, for the report's matches.                                         *)
Dumped(reported, rule, strings) ==
    IF rule = NoRule THEN reported ELSE Append(reported, Block("match", rule, strings))

MatchesUpTo(before, printed, r) == before \o Joined(MatchAt(printed), r)

(* The matches of the first r printed are those reported and the one that is *)
(* being read.                                                             *)
LEMMA ReadIsReported ==
    ASSUME NEW printed \in Seq(OutputLine), NEW r \in Nat, r <= Len(printed), NEW rule, NEW strings,
           NEW before \in Seq(BlockType), NEW reported,
           HasRead(printed, r, rule, strings, before, reported),
           Closes(printed, r)
    PROVE  MatchesUpTo(before, printed, r) = Dumped(reported, rule, strings)
<1>0. Len(printed) \in Nat /\ DOMAIN printed = 1 .. Len(printed)
    BY LinesAre
<1>1. Pieces(MatchAt(printed), Len(printed), BlockType)
    BY MatchesFit
<1>2. Pieces(MatchAt(printed), r, BlockType)
    BY <1>0, <1>1, FewerPieces
<1>3. CASE rule = NoRule
    <2>1. \A k \in 0 + 1 .. r : MatchAt(printed)[k] = <<>>
        <3> TAKE k \in 0 + 1 .. r
        <3>1. k \in DOMAIN printed
            BY <1>0
        <3>2. k \notin Are(printed, "header")
            BY <1>3 DEF HasRead, UpToLine
        <3> QED BY <3>1, <3>2 DEF MatchAt
    <2>2. Joined(MatchAt(printed), r) = Joined(MatchAt(printed), 0)
        <3>1. 0 \in 0 .. r
            OBVIOUS
        <3> QED BY <1>2, <2>1, <3>1, JoinedRest
    <2>3. Joined(MatchAt(printed), 0) = <<>>
        BY JoinedZero
    <2>4. before \o <<>> = before /\ reported = before
        BY <1>3, EmptyFirst DEF HasRead
    <2> QED BY <1>3, <2>2, <2>3, <2>4 DEF Dumped, MatchesUpTo
<1>4. CASE rule # NoRule
    <2>1. PICK h \in 1 .. r : /\ LastHeader(printed, r, h)
                              /\ rule = printed[h].name
                              /\ strings = Joined(Names(printed, h), r)
                              /\ reported = before \o Joined(MatchAt(printed), h - 1)
        BY <1>4 DEF HasRead
    <2> DEFINE b == Block("match", rule, strings)
               j == Joined(MatchAt(printed), h - 1)
    <2>2. Joined(MatchAt(printed), r) = j \o <<b>>
        BY <2>1, MatchClosed
    <2>3. rule \in STRING /\ strings \in Seq(STRING)
        <3>1. h \in 1 .. Len(printed)
            BY <1>0
        <3>2. Joined(Names(printed, h), r) = StringsOf(printed, h)
            BY <2>1, MatchClosed
        <3> QED BY <2>1, <3>1, <3>2, LinesAre, NamesFit
    <2>4. b \in BlockType
        BY <2>3, MatchType
    <2>5. j \in Seq(BlockType)
        <3>1. h - 1 \in Nat /\ h - 1 <= r
            OBVIOUS
        <3>2. Pieces(MatchAt(printed), h - 1, BlockType)
            BY <1>2, <3>1, FewerPieces
        <3> QED BY <3>1, <3>2, JoinedType
    <2> HIDE DEF b, j
    <2>6. before \o (j \o <<b>>) = Append(before \o j, b)
        <3>1. <<b>> \in Seq(BlockType) /\ before \o j \in Seq(BlockType)
            BY <2>4, <2>5, ConcatProperties
        <3>2. before \o (j \o <<b>>) = (before \o j) \o <<b>>
            BY <2>5, <3>1, ConcatAssociative
        <3>3. (before \o j) \o <<b>> = Append(before \o j, b)
            BY <2>4, <3>1, AppendIs
        <3> QED BY <3>2, <3>3
    <2>7. reported = before \o j
        BY <2>1 DEF j
    <2> QED BY <1>4, <2>2, <2>6, <2>7 DEF b, Dumped, MatchesUpTo
<1> QED BY <1>3, <1>4

LEMMA HeaderRead ==
    ASSUME NEW printed \in Seq(OutputLine), NEW r \in Nat, r < Len(printed), NEW rule, NEW strings,
           NEW before \in Seq(BlockType), NEW reported,
           HasRead(printed, r, rule, strings, before, reported),
           r + 1 \in Are(printed, "header"), printed[r + 1].name # NoRule
    PROVE  HasRead(printed, r + 1, printed[r + 1].name, <<>>, before,
              Dumped(reported, rule, strings))
<1>0. Len(printed) \in Nat /\ DOMAIN printed = 1 .. Len(printed)
    BY LinesAre
<1>1. LastHeader(printed, r + 1, r + 1)
    <2>1. \A i \in Are(printed, "header") : i \in Nat
        BY <1>0 DEF Are
    <2> QED BY <2>1 DEF LastHeader, UpToLine
<1>2. Joined(Names(printed, r + 1), r + 1) = <<>>
    <2>1. \A k \in 0 + 1 .. r + 1 : Names(printed, r + 1)[k] = <<>>
        <3> TAKE k \in 0 + 1 .. r + 1
        <3>1. k \notin Behind(printed, r + 1) /\ k \in DOMAIN printed
            BY <1>0 DEF Behind
        <3> QED BY <3>1 DEF Names
    <2>2. Pieces(Names(printed, r + 1), r + 1, STRING) /\ r + 1 \in Nat /\ 0 \in 0 .. r + 1
        BY <1>0, NamesFit, FewerPieces
    <2>3. Joined(Names(printed, r + 1), r + 1) = Joined(Names(printed, r + 1), 0)
        BY <2>1, <2>2, JoinedRest
    <2> QED BY <2>3, JoinedZero
<1>3. MatchesUpTo(before, printed, r) = Dumped(reported, rule, strings)
    <2>1. r <= Len(printed) /\ Closes(printed, r)
        BY <1>0 DEF Closes
    <2> QED BY <2>1, ReadIsReported
<1>4. (r + 1) - 1 = r /\ r + 1 \in 1 .. r + 1
    OBVIOUS
<1> DEFINE now == Dumped(reported, rule, strings)
<1>5. now = before \o Joined(MatchAt(printed), (r + 1) - 1)
    BY <1>3, <1>4 DEF MatchesUpTo
<1> HIDE DEF now
<1>6. HasRead(printed, r + 1, printed[r + 1].name, <<>>, before, now)
    BY <1>1, <1>2, <1>4, <1>5 DEF HasRead
<1> QED BY <1>6 DEF now

-----------------------------------------------------------------------------
(* The matches of the scans, and those of a report.                        *)

AnswerOf(sc) == [s \in DOMAIN sc |-> MatchesIn(sc[s].output)]
AnswersUpTo(sc, n) == Joined(AnswerOf(sc), n)

LEMMA ScansAre ==
    ASSUME NEW sc \in Seq(ScanType)
    PROVE  /\ DOMAIN sc = 1 .. Len(sc) /\ Len(sc) \in Nat
           /\ \A s \in 1 .. Len(sc) : sc[s] \in ScanType /\ sc[s].output \in Seq(OutputLine)
<1>1. DOMAIN sc = 1 .. Len(sc) /\ Len(sc) \in Nat
    BY LenProperties
<1>2. ASSUME NEW s \in 1 .. Len(sc)
      PROVE  sc[s] \in ScanType /\ sc[s].output \in Seq(OutputLine)
    <2>1. sc[s] \in ScanType
        BY ElementOfSeq
    <2> QED BY <2>1 DEF ScanType
<1> QED BY <1>1, <1>2

LEMMA AnswersFit ==
    ASSUME NEW sc \in Seq(ScanType)
    PROVE  /\ Pieces(AnswerOf(sc), Len(sc), BlockType)
           /\ \A n \in 0 .. Len(sc) : AnswersUpTo(sc, n) \in Seq(BlockType)
<1>1. Pieces(AnswerOf(sc), Len(sc), BlockType)
    <2> SUFFICES ASSUME NEW s \in 1 .. Len(sc) PROVE AnswerOf(sc)[s] \in Seq(BlockType)
        BY DEF Pieces
    <2> QED BY ScansAre, MatchesFit DEF AnswerOf
<1>2. ASSUME NEW n \in 0 .. Len(sc) PROVE AnswersUpTo(sc, n) \in Seq(BlockType)
    <2>1. Pieces(AnswerOf(sc), n, BlockType) /\ n \in Nat
        BY <1>1, ScansAre, FewerPieces
    <2> QED BY <2>1, JoinedType DEF AnswersUpTo
<1> QED BY <1>1, <1>2

LEMMA MatchesAre ==
    ASSUME scans \in Seq(ScanType)
    PROVE  Matches = AnswersUpTo(scans, Len(scans))
<1>1. [s \in 1 .. Len(scans) |-> AnswerOf(scans)[s]] =
         [s \in DOMAIN scans |-> MatchesIn(scans[s].output)]
    BY ScansAre DEF AnswerOf
<1> QED BY <1>1 DEF Matches, AnswersUpTo, Joined

(* One scan more.                                                          *)
LEMMA AnswersGrow ==
    ASSUME NEW sc \in Seq(ScanType), NEW x \in ScanType
    PROVE  AnswersUpTo(Append(sc, x), Len(sc)) = AnswersUpTo(sc, Len(sc))
<1>1. \A s \in 1 .. Len(sc) : AnswerOf(Append(sc, x))[s] = AnswerOf(sc)[s]
    <2> TAKE s \in 1 .. Len(sc)
    <2>1. s \in DOMAIN Append(sc, x) /\ s \in DOMAIN sc /\ Append(sc, x)[s] = sc[s]
        OBVIOUS
    <2> QED BY <2>1 DEF AnswerOf
<1> QED BY <1>1, ScansAre, JoinedSame DEF AnswersUpTo

(* The last scan, with what was read of its output.                        *)
LEMMA LastAnswer ==
    ASSUME NEW sc \in Seq(ScanType), Len(sc) > 0
    PROVE  LET out == sc[Len(sc)].output
           IN  AnswersUpTo(sc, Len(sc)) = MatchesUpTo(AnswersUpTo(sc, Len(sc) - 1), out, Len(out))
<1>1. Len(sc) \in 1 .. Len(sc) /\ Len(sc) \in Nat
    BY ScansAre
<1>2. Joined(AnswerOf(sc), Len(sc)) = Joined(AnswerOf(sc), Len(sc) - 1) \o AnswerOf(sc)[Len(sc)]
    BY <1>1, AnswersFit, JoinedTurn
<1>3. AnswerOf(sc)[Len(sc)] = Joined(MatchAt(sc[Len(sc)].output), Len(sc[Len(sc)].output))
    BY <1>1, ScansAre, MatchesFit DEF AnswerOf
<1> QED BY <1>2, <1>3 DEF AnswersUpTo, MatchesUpTo

LEMMA SilentAnswer ==
    ASSUME NEW sc \in Seq(ScanType), NEW x \in ScanType, x.output = <<>>
    PROVE  AnswersUpTo(Append(sc, x), Len(Append(sc, x))) = AnswersUpTo(sc, Len(sc))
<1> DEFINE more == Append(sc, x)
<1>1. /\ more \in Seq(ScanType) /\ Len(more) = Len(sc) + 1 /\ Len(more) > 0
      /\ more[Len(more)] = x /\ Len(more) - 1 = Len(sc) /\ Len(sc) \in 0 .. Len(sc)
    BY AppendProperties, ScansAre
<1>2. AnswersUpTo(more, Len(sc)) = AnswersUpTo(sc, Len(sc))
    BY AnswersGrow
<1> HIDE DEF more
<1>3. AnswersUpTo(more, Len(more)) = MatchesUpTo(AnswersUpTo(sc, Len(sc)), <<>>, Len(<<>>))
    BY <1>1, <1>2, LastAnswer
<1>4. Joined(MatchAt(<<>>), 0) = <<>> /\ Len(<<>>) = 0
    BY JoinedZero
<1>5. AnswersUpTo(sc, Len(sc)) \in Seq(BlockType)
    BY <1>1, AnswersFit
<1>6. MatchesUpTo(AnswersUpTo(sc, Len(sc)), <<>>, Len(<<>>)) = AnswersUpTo(sc, Len(sc))
    BY <1>4, <1>5, EmptyFirst DEF MatchesUpTo
<1> QED BY <1>3, <1>6 DEF more

(* The matches of a report r.                                              *)
ReportAt(r) == [b \in DOMAIN r |-> IF IsMatch(r[b]) THEN <<r[b]>> ELSE <<>>]
ReportedIn(r) == Joined(ReportAt(r), Len(r))

LEMMA BlocksAre ==
    ASSUME NEW r \in Seq(BlockType)
    PROVE  /\ DOMAIN r = 1 .. Len(r) /\ Len(r) \in Nat
           /\ \A b \in 1 .. Len(r) : r[b] \in BlockType
BY LenProperties, ElementOfSeq

LEMMA ReportFits ==
    ASSUME NEW r \in Seq(BlockType)
    PROVE  Pieces(ReportAt(r), Len(r), BlockType) /\ ReportedIn(r) \in Seq(BlockType)
<1>1. Pieces(ReportAt(r), Len(r), BlockType)
    <2> SUFFICES ASSUME NEW b \in 1 .. Len(r) PROVE ReportAt(r)[b] \in Seq(BlockType)
        BY DEF Pieces
    <2>1. r[b] \in BlockType /\ b \in DOMAIN r
        BY BlocksAre
    <2>2. <<r[b]>> \in Seq(BlockType) /\ <<>> \in Seq(BlockType)
        BY <2>1
    <2> QED BY <2>1, <2>2 DEF ReportAt
<1> QED BY <1>1, BlocksAre, JoinedType DEF ReportedIn

LEMMA ReportedIs ==
    ASSUME report \in Seq(BlockType)
    PROVE  Reported = ReportedIn(report)
<1>1. [b \in 1 .. Len(report) |-> ReportAt(report)[b]] =
         [b \in DOMAIN report |-> IF IsMatch(report[b]) THEN <<report[b]>> ELSE <<>>]
    BY BlocksAre DEF ReportAt
<1> QED BY <1>1 DEF Reported, ReportedIn, Joined

LEMMA BlockAdded ==
    ASSUME NEW r \in Seq(BlockType), NEW b \in BlockType
    PROVE  ReportedIn(Append(r, b)) = IF IsMatch(b) THEN Append(ReportedIn(r), b) ELSE ReportedIn(r)
<1> DEFINE more == Append(r, b)
           n == Len(r)
<1>1. /\ more \in Seq(BlockType) /\ Len(more) = n + 1 /\ n \in Nat /\ more[n + 1] = b
      /\ DOMAIN more = 1 .. n + 1 /\ DOMAIN r = 1 .. n /\ \A i \in 1 .. n : more[i] = r[i]
    BY AppendProperties, BlocksAre
<1> HIDE DEF more, n
<1>2. Pieces(ReportAt(more), n + 1, BlockType)
    BY <1>1, ReportFits
<1>3. Joined(ReportAt(more), n + 1) = Joined(ReportAt(more), n) \o ReportAt(more)[n + 1]
    BY <1>1, <1>2, JoinedNext
<1>4. Joined(ReportAt(more), n) = ReportedIn(r)
    <2>1. \A i \in 1 .. n : ReportAt(more)[i] = ReportAt(r)[i]
        BY <1>1 DEF ReportAt
    <2> QED BY <1>1, <2>1, JoinedSame DEF ReportedIn, n
<1>5. ReportAt(more)[n + 1] = IF IsMatch(b) THEN <<b>> ELSE <<>>
    <2>1. n + 1 \in DOMAIN more
        BY <1>1
    <2> QED BY <1>1, <2>1 DEF ReportAt
<1>6. ReportedIn(more) = IF IsMatch(b) THEN ReportedIn(r) \o <<b>> ELSE ReportedIn(r) \o <<>>
    BY <1>1, <1>3, <1>4, <1>5 DEF ReportedIn
<1>7. /\ ReportedIn(r) \o <<b>> = Append(ReportedIn(r), b)
      /\ ReportedIn(r) \o <<>> = ReportedIn(r)
    <2>1. ReportedIn(r) \in Seq(BlockType)
        BY ReportFits
    <2> HIDE DEF ReportedIn
    <2> QED BY <2>1, AppendIs, EmptyFirst
<1> QED BY <1>6, <1>7 DEF more

LEMMA BlockPrepended ==
    ASSUME NEW r \in Seq(BlockType), NEW b \in BlockType, ~IsMatch(b)
    PROVE  ReportedIn(<<b>> \o r) = ReportedIn(r)
<1> DEFINE more == <<b>> \o r
           n == Len(r)
<1>1. /\ more \in Seq(BlockType) /\ Len(more) = n + 1 /\ n \in Nat /\ more[1] = b
      /\ DOMAIN more = 1 .. n + 1 /\ DOMAIN r = 1 .. n /\ \A i \in 1 .. n : more[i + 1] = r[i]
    BY BlocksAre
<1> HIDE DEF more
<1>2. ReportAt(more)[1] = <<>>
    BY <1>1 DEF ReportAt
<1>3. \A i \in 1 .. n : ReportAt(more)[i + 1] = ReportAt(r)[i]
    BY <1>1 DEF ReportAt
<1>4. Pieces(ReportAt(r), n, BlockType)
    BY ReportFits
<1> HIDE DEF n
<1>5. Joined(ReportAt(more), n + 1) = Joined(ReportAt(r), n)
    BY <1>1, <1>2, <1>3, <1>4, JoinedShift
<1> QED BY <1>1, <1>5 DEF ReportedIn, more, n

-----------------------------------------------------------------------------
(* The titles of a report r, for the scans sc.                             *)

TitlesIn(r) == {b \in DOMAIN r : r[b].type = "scanning"}
TitlesTo(r, b) == {c \in 1 .. b : c \in TitlesIn(r)}
ScanIn(r, b) == Cardinality(TitlesTo(r, b))
Clean(scan) == scan.ok /\ Are(scan.output, "error") = {} /\ Are(scan.output, "header") = {}

(* Each title b has the rule file of its place and no title behind it.     *)
TitleFits(r, b) == r[b].rule = Rules[ScanIn(r, b)] /\ b + 1 \notin TitlesIn(r)
CleanFits(r, b, sc) == ScanIn(r, b) \in 1 .. Len(sc) /\ Clean(sc[ScanIn(r, b)])
TitledIn(r, sc) ==
    /\ ScanIn(r, Len(r)) = Len(sc)
    /\ \A b \in TitlesIn(r) : TitleFits(r, b)
    /\ \A b \in 1 .. Len(r) : r[b].type = "clean" => CleanFits(r, b, sc)
LastAnswered(r) == Len(r) \notin TitlesIn(r)

LEMMA TitlesCount ==
    ASSUME NEW r \in Seq(BlockType), NEW b \in Nat
    PROVE  /\ ScanIn(r, b) \in Nat
           /\ ScanIn(r, b + 1) =
                 IF b + 1 \in TitlesIn(r) THEN ScanIn(r, b) + 1 ELSE ScanIn(r, b)
           /\ ScanIn(r, 0) = 0
<1>1. IsFiniteSet(TitlesTo(r, b))
    <2>1. IsFiniteSet(1 .. b)
        BY FS_Interval
    <2>2. TitlesTo(r, b) \subseteq 1 .. b
        BY DEF TitlesTo
    <2> QED BY <2>1, <2>2, FS_Subset
<1>2. ScanIn(r, b) \in Nat
    BY <1>1, FS_CardinalityType DEF ScanIn
<1>3. ASSUME b + 1 \in TitlesIn(r) PROVE ScanIn(r, b + 1) = ScanIn(r, b) + 1
    <2>1. TitlesTo(r, b + 1) = TitlesTo(r, b) \cup {b + 1} /\ b + 1 \notin TitlesTo(r, b)
        BY <1>3 DEF TitlesTo
    <2>2. Cardinality(TitlesTo(r, b) \cup {b + 1}) = Cardinality(TitlesTo(r, b)) + 1
        BY <1>1, <2>1, FS_AddElement
    <2> QED BY <2>1, <2>2 DEF ScanIn
<1>4. ASSUME b + 1 \notin TitlesIn(r) PROVE ScanIn(r, b + 1) = ScanIn(r, b)
    <2>1. TitlesTo(r, b + 1) = TitlesTo(r, b)
        BY <1>4 DEF TitlesTo
    <2> QED BY <2>1 DEF ScanIn
<1>5. ScanIn(r, 0) = 0
    <2>1. TitlesTo(r, 0) = {}
        BY DEF TitlesTo
    <2> QED BY <2>1, FS_EmptySet DEF ScanIn
<1> QED BY <1>2, <1>3, <1>4, <1>5

LEMMA BlockCounted ==
    ASSUME NEW r \in Seq(BlockType), NEW x \in BlockType
    PROVE  /\ Append(r, x) \in Seq(BlockType) /\ Len(Append(r, x)) = Len(r) + 1
           /\ Append(r, x)[Len(r) + 1] = x
           /\ \A b \in 1 .. Len(r) : Append(r, x)[b] = r[b]
           /\ TitlesIn(Append(r, x)) =
                 TitlesIn(r) \cup (IF x.type = "scanning" THEN {Len(r) + 1} ELSE {})
           /\ TitlesIn(r) \subseteq 1 .. Len(r)
           /\ \A b \in 0 .. Len(r) : ScanIn(Append(r, x), b) = ScanIn(r, b)
           /\ ScanIn(Append(r, x), Len(r) + 1) =
                 IF x.type = "scanning" THEN ScanIn(r, Len(r)) + 1 ELSE ScanIn(r, Len(r))
<1> DEFINE more == Append(r, x)
           n == Len(r)
<1>1. /\ more \in Seq(BlockType) /\ Len(more) = n + 1 /\ n \in Nat /\ more[n + 1] = x
      /\ DOMAIN more = 1 .. n + 1 /\ DOMAIN r = 1 .. n /\ \A i \in 1 .. n : more[i] = r[i]
    BY AppendProperties, BlocksAre
<1> HIDE DEF more, n
<1>2. TitlesIn(more) = TitlesIn(r) \cup (IF x.type = "scanning" THEN {n + 1} ELSE {})
    BY <1>1 DEF TitlesIn
<1>3. TitlesIn(r) \subseteq 1 .. n
    BY <1>1 DEF TitlesIn
<1>4. ASSUME NEW b \in 0 .. n PROVE ScanIn(more, b) = ScanIn(r, b)
    <2>1. TitlesTo(more, b) = TitlesTo(r, b)
        BY <1>1, <1>2 DEF TitlesTo
    <2> QED BY <2>1 DEF ScanIn
<1>5. ScanIn(more, n + 1) = IF x.type = "scanning" THEN ScanIn(r, n) + 1 ELSE ScanIn(r, n)
    <2>1. n + 1 \in TitlesIn(more) <=> x.type = "scanning"
        BY <1>1, <1>2, <1>3
    <2>2. ScanIn(more, n + 1) =
             IF n + 1 \in TitlesIn(more) THEN ScanIn(more, n) + 1 ELSE ScanIn(more, n)
        BY <1>1, TitlesCount
    <2>3. ScanIn(more, n) = ScanIn(r, n)
        BY <1>1, <1>4
    <2> QED BY <2>1, <2>2, <2>3
<1> QED BY <1>1, <1>2, <1>3, <1>4, <1>5 DEF more, n

(* A scan begins: its title is added, and waits for a block.               *)
LEMMA TitleAdded ==
    ASSUME NEW r \in Seq(BlockType), NEW sc \in Seq(ScanType), TitledIn(r, sc),
           LastAnswered(r), NEW x \in BlockType, x.type = "scanning", x.rule = Rules[Len(sc) + 1],
           NEW s \in ScanType
    PROVE  TitledIn(Append(r, x), Append(sc, s))
<1> DEFINE more == Append(r, x)
           some == Append(sc, s)
           n == Len(r)
<1>1. /\ Len(some) = Len(sc) + 1 /\ \A i \in 1 .. Len(sc) : some[i] = sc[i]
      /\ Len(sc) \in Nat /\ n \in Nat
    BY AppendProperties, ScansAre, BlocksAre
<1>2. /\ Len(more) = n + 1 /\ more[n + 1] = x /\ \A b \in 1 .. n : more[b] = r[b]
      /\ TitlesIn(more) = TitlesIn(r) \cup {n + 1} /\ TitlesIn(r) \subseteq 1 .. n
    BY BlockCounted
<1>3. /\ \A b \in 0 .. n : ScanIn(more, b) = ScanIn(r, b)
      /\ ScanIn(more, n + 1) = ScanIn(r, n) + 1
    BY BlockCounted
<1> HIDE DEF more, some, n
<1>4. ScanIn(r, n) = Len(sc)
    BY DEF TitledIn, n
<1>5. ASSUME NEW b \in TitlesIn(more) PROVE TitleFits(more, b)
    <2>1. CASE b = n + 1
        BY <1>1, <1>2, <1>3, <1>4, <2>1 DEF TitleFits
    <2>2. CASE b # n + 1
        <3>1. b \in TitlesIn(r) /\ b \in 1 .. n
            BY <1>2, <2>2
        <3>2. TitleFits(r, b)
            BY <3>1 DEF TitledIn
        <3>3. b # n /\ b + 1 \notin TitlesIn(r)
            BY <3>1, <3>2 DEF TitleFits, LastAnswered, n
        <3>4. b + 1 \notin TitlesIn(more)
            BY <1>1, <1>2, <3>1, <3>3
        <3> QED BY <1>1, <1>2, <1>3, <3>1, <3>2, <3>4 DEF TitleFits
    <2> QED BY <2>1, <2>2
<1>6. ASSUME NEW b \in 1 .. Len(more), more[b].type = "clean" PROVE CleanFits(more, b, some)
    <2>1. b \in 1 .. n /\ r[b].type = "clean"
        BY <1>1, <1>2, <1>6
    <2>2. CleanFits(r, b, sc)
        BY <2>1 DEF TitledIn, n
    <2>3. ScanIn(more, b) = ScanIn(r, b)
        BY <1>1, <1>3, <2>1
    <2> QED BY <1>1, <2>2, <2>3 DEF CleanFits
<1> QED BY <1>1, <1>2, <1>3, <1>4, <1>5, <1>6 DEF TitledIn, more, some

(* Any other block answers the title it follows; "clean" only for a scan   *)
(* that was.                                                               *)
LEMMA NoteAdded ==
    ASSUME NEW r \in Seq(BlockType), NEW sc \in Seq(ScanType), TitledIn(r, sc),
           NEW x \in BlockType, x.type # "scanning",
           x.type = "clean" => Len(sc) > 0 /\ Clean(sc[Len(sc)])
    PROVE  TitledIn(Append(r, x), sc) /\ LastAnswered(Append(r, x))
<1> DEFINE more == Append(r, x)
           n == Len(r)
<1>1. n \in Nat /\ Len(sc) \in Nat
    BY ScansAre, BlocksAre
<1>2. /\ Len(more) = n + 1 /\ more[n + 1] = x /\ \A b \in 1 .. n : more[b] = r[b]
      /\ TitlesIn(more) = TitlesIn(r) /\ TitlesIn(r) \subseteq 1 .. n
    <2>1. TitlesIn(more) = TitlesIn(r) \cup {}
        BY BlockCounted
    <2> QED BY <2>1, BlockCounted
<1>3. /\ \A b \in 0 .. n : ScanIn(more, b) = ScanIn(r, b)
      /\ ScanIn(more, n + 1) = ScanIn(r, n)
    BY BlockCounted
<1> HIDE DEF more, n
<1>4. ScanIn(r, n) = Len(sc)
    BY DEF TitledIn, n
<1>5. ASSUME NEW b \in TitlesIn(more) PROVE TitleFits(more, b)
    <2>1. b \in TitlesIn(r) /\ b \in 1 .. n
        BY <1>2
    <2>2. TitleFits(r, b)
        BY <2>1 DEF TitledIn
    <2> QED BY <1>1, <1>2, <1>3, <2>1, <2>2 DEF TitleFits
<1>6. ASSUME NEW b \in 1 .. Len(more), more[b].type = "clean" PROVE CleanFits(more, b, sc)
    <2>1. CASE b = n + 1
        <3>1. Len(sc) > 0 /\ Clean(sc[Len(sc)])
            BY <1>2, <1>6, <2>1
        <3> QED BY <1>1, <1>3, <1>4, <2>1, <3>1 DEF CleanFits
    <2>2. CASE b # n + 1
        <3>1. b \in 1 .. n /\ r[b].type = "clean"
            BY <1>1, <1>2, <1>6, <2>2
        <3>2. CleanFits(r, b, sc)
            BY <3>1 DEF TitledIn, n
        <3>3. ScanIn(more, b) = ScanIn(r, b)
            BY <1>1, <1>3, <3>1
        <3> QED BY <3>2, <3>3 DEF CleanFits
    <2> QED BY <2>1, <2>2
<1>7. LastAnswered(more)
    BY <1>1, <1>2 DEF LastAnswered
<1> QED BY <1>2, <1>3, <1>4, <1>5, <1>6, <1>7 DEF TitledIn, more

(* The summary goes to the top: every place moves on by one.               *)
LEMMA SummaryAdded ==
    ASSUME NEW r \in Seq(BlockType), NEW sc \in Seq(ScanType), TitledIn(r, sc),
           LastAnswered(r), NEW x \in BlockType, x.type # "scanning", x.type # "clean"
    PROVE  TitledIn(<<x>> \o r, sc) /\ LastAnswered(<<x>> \o r)
<1> DEFINE more == <<x>> \o r
           n == Len(r)
<1>1. /\ more \in Seq(BlockType) /\ Len(more) = n + 1 /\ n \in Nat /\ more[1] = x
      /\ DOMAIN more = 1 .. n + 1 /\ DOMAIN r = 1 .. n /\ \A i \in 1 .. n : more[i + 1] = r[i]
    BY BlocksAre
<1> HIDE DEF more
<1>2. \A b \in 1 .. n : more[b + 1] = r[b] /\ (b + 1 \in TitlesIn(more) <=> b \in TitlesIn(r))
    BY <1>1 DEF TitlesIn
<1>3. 1 \notin TitlesIn(more) /\ TitlesIn(more) \subseteq 1 .. n + 1 /\ TitlesIn(r) \subseteq 1 .. n
    BY <1>1 DEF TitlesIn
<1> HIDE DEF n
<1>4. \A b \in 0 .. n : ScanIn(more, b + 1) = ScanIn(r, b)
    <2> DEFINE B == {b \in 0 .. n : ScanIn(more, b + 1) = ScanIn(r, b)}
    <2>1. 0 \in B
        <3>1. ScanIn(more, 0 + 1) = ScanIn(more, 0) /\ ScanIn(more, 0) = 0 /\ ScanIn(r, 0) = 0
            BY <1>1, <1>3, TitlesCount
        <3> QED BY <1>1, <3>1
    <2>2. ASSUME NEW b \in 1 .. n, b - 1 \in B PROVE b \in B
        <3>1. (b - 1) + 1 = b /\ b - 1 \in Nat /\ b \in Nat /\ b + 1 \in Nat
            BY <1>1
        <3>2. ScanIn(r, b) = IF b \in TitlesIn(r) THEN ScanIn(r, b - 1) + 1 ELSE ScanIn(r, b - 1)
            BY <3>1, TitlesCount
        <3>3. ScanIn(more, b + 1) = IF b + 1 \in TitlesIn(more) THEN ScanIn(more, b) + 1 ELSE ScanIn(more, b)
            BY <1>1, <3>1, TitlesCount
        <3>4. ScanIn(more, b) = ScanIn(r, b - 1)
            BY <2>2, <3>1
        <3>5. ScanIn(more, b + 1) = ScanIn(r, b)
            BY <1>2, <3>2, <3>3, <3>4
        <3> QED BY <1>1, <3>5
    <2> HIDE DEF B
    <2>3. 0 .. n \subseteq B
        BY <1>1, <2>1, <2>2, UpTo
    <2> QED BY <2>3 DEF B
<1>5. ASSUME NEW b \in TitlesIn(more) PROVE TitleFits(more, b)
    <2>1. b - 1 \in 1 .. n /\ (b - 1) + 1 = b
        BY <1>1, <1>3
    <2>2. b - 1 \in TitlesIn(r)
        BY <1>2, <2>1
    <2>3. TitleFits(r, b - 1)
        BY <2>2 DEF TitledIn
    <2>4. b - 1 # n /\ b \notin TitlesIn(r)
        BY <2>1, <2>2, <2>3 DEF TitleFits, LastAnswered, n
    <2>5. b \in 1 .. n
        BY <1>1, <2>1, <2>4
    <2>6. b + 1 \notin TitlesIn(more)
        BY <1>2, <2>4, <2>5
    <2>7. more[b] = r[b - 1] /\ ScanIn(more, b) = ScanIn(r, b - 1)
        <3>1. b - 1 \in 0 .. n
            BY <2>1
        <3> QED BY <1>2, <1>4, <2>1, <3>1
    <2> QED BY <1>1, <2>3, <2>5, <2>6, <2>7 DEF TitleFits
<1>6. ASSUME NEW b \in 1 .. Len(more), more[b].type = "clean" PROVE CleanFits(more, b, sc)
    <2>1. b - 1 \in 1 .. n /\ b - 1 \in 0 .. n /\ (b - 1) + 1 = b
        BY <1>1, <1>6
    <2>2. more[b] = r[b - 1] /\ ScanIn(more, b) = ScanIn(r, b - 1)
        BY <1>2, <1>4, <2>1
    <2>3. CleanFits(r, b - 1, sc)
        BY <1>6, <2>1, <2>2 DEF TitledIn, n
    <2> QED BY <2>2, <2>3 DEF CleanFits
<1>7. ScanIn(more, Len(more)) = Len(sc)
    <2>1. n \in 0 .. n
        BY <1>1
    <2> QED BY <1>1, <1>4, <2>1 DEF TitledIn, n
<1>8. LastAnswered(more)
    <2>1. CASE n = 0
        BY <1>1, <1>3, <2>1 DEF LastAnswered
    <2>2. CASE n # 0
        <3>1. n \in 1 .. n /\ n \notin TitlesIn(r)
            BY <1>1, <2>2 DEF LastAnswered, n
        <3> QED BY <1>1, <1>2, <3>1 DEF LastAnswered
    <2> QED BY <2>1, <2>2
<1> QED BY <1>5, <1>6, <1>7, <1>8 DEF TitledIn, more

-----------------------------------------------------------------------------
(* The inductive invariant: while an output is read, the report has what   *)
(* its first printed say, but for the match that is being read.              *)

Output == scans[Len(scans)].output
Read == Len(Output) - Len(in)
AnsweredBefore == AnswersUpTo(scans, Len(scans) - 1)

ReadSoFar ==
    /\ Len(scans) > 0 /\ scans[Len(scans)].ok
    /\ Output \in Outputs
    /\ Len(in) <= Len(Output) /\ in = SubSeq(Output, Read + 1, Len(Output))
    /\ hasErrors <=> UpToLine(Output, "error", Read) # {}
    /\ hasErrors => foundAnyInFile /\ LastAnswered(report)
    /\ HasRead(Output, Read, currentRule, matchedStrings, AnsweredBefore, Reported)

Reading == phase = "reading"
Counted == globalMatchCount = Len(Reported)
Answered == IF Reading THEN ReadSoFar ELSE Reported = Matches
Titled == TitledIn(report, scans) /\ (~Reading => LastAnswered(report))
Ended == Done => pending = <<>> /\ (report[1].type = "infected" <=> Reported # <<>>)

ScanInv == ScanTypeOK /\ Counted /\ Answered /\ Titled /\ Ended

LEMMA InitInv == ScanInit => ScanInv
<1> SUFFICES ASSUME ScanInit PROVE ScanInv
    OBVIOUS
<1>1. ScanTypeOK
    <2>1. SubSeq(Rules, 0 + 1, Len(Rules)) = Rules
        BY RulesAssumption
    <2>2. /\ pending = Rules /\ in = <<>> /\ currentRule = NoRule /\ matchedStrings = <<>>
          /\ foundAnyInFile = FALSE /\ hasErrors = FALSE /\ report = <<>>
          /\ globalMatchCount = 0 /\ phase = "scanning" /\ scans = <<>>
        BY DEF ScanInit
    <2>3. Len(scans) = 0 /\ Len(Rules) \in Nat
        BY <2>2, RulesAssumption
    <2>4. pending = SubSeq(Rules, Len(scans) + 1, Len(Rules)) /\ Len(scans) <= Len(Rules)
        BY <2>1, <2>2, <2>3
    <2>5. /\ scans \in Seq(ScanType) /\ in \in Seq(OutputLine) /\ matchedStrings \in Seq(STRING)
          /\ report \in Seq(BlockType)
        BY <2>2
    <2>6. currentRule \in STRING \cup {NoRule} /\ phase \in {"scanning", "reading", "done"}
        BY DEF ScanInit
    <2>7. foundAnyInFile \in BOOLEAN /\ hasErrors \in BOOLEAN
        BY DEF ScanInit
    <2>8. globalMatchCount \in Nat
        BY <2>2
    <2> QED BY <2>4, <2>5, <2>6, <2>7, <2>8 DEF ScanTypeOK
<1>2. /\ report \in Seq(BlockType) /\ scans \in Seq(ScanType) /\ report = <<>> /\ scans = <<>>
      /\ Len(report) = 0 /\ Len(scans) = 0
    BY <1>1 DEF ScanTypeOK, ScanInit
<1>3. Reported = <<>> /\ Matches = <<>>
    BY <1>2, JoinedZero, ReportedIs, MatchesAre DEF ReportedIn, AnswersUpTo
<1>4. TitledIn(report, scans) /\ LastAnswered(report)
    <2>1. ScanIn(report, 0) = 0
        BY <1>2, TitlesCount
    <2>2. TitlesIn(report) = {}
        BY <1>2 DEF TitlesIn
    <2> QED BY <1>2, <2>1, <2>2 DEF TitledIn, LastAnswered
<1>5. ~Reading /\ ~Done
    BY DEF ScanInit, Reading, Done
<1>6. globalMatchCount = Len(Reported)
    BY <1>3 DEF ScanInit
<1> QED BY <1>1, <1>3, <1>4, <1>5, <1>6 DEF ScanInv, Counted, Answered, Titled, Ended

-----------------------------------------------------------------------------
(* The steps of a scan.                                                    *)

LEMMA RuleIsNext ==
    ASSUME ScanTypeOK, pending # <<>>
    PROVE  /\ Len(scans) < Len(Rules) /\ Len(scans) \in Nat /\ Len(Rules) \in Nat
           /\ Head(pending) = Rules[Len(scans) + 1] /\ Head(pending) \in STRING
           /\ Tail(pending) = SubSeq(Rules, Len(scans) + 2, Len(Rules))
<1>1. Len(scans) \in Nat /\ Len(Rules) \in Nat /\ Len(scans) <= Len(Rules)
    BY RulesAssumption, LenProperties DEF ScanTypeOK
<1>2. pending = SubSeq(Rules, Len(scans) + 1, Len(Rules))
    BY DEF ScanTypeOK
<1>3. Len(scans) < Len(Rules)
    <2>1. Len(scans) = Len(Rules) => SubSeq(Rules, Len(scans) + 1, Len(Rules)) = <<>>
        BY <1>1, RulesAssumption
    <2> QED BY <1>1, <1>2, <2>1
<1> DEFINE s == Len(scans)
<1> HIDE DEF s
<1>4. /\ s \in Nat /\ s < Len(Rules)
      /\ pending = SubSeq(Rules, s + 1, Len(Rules))
    BY <1>1, <1>2, <1>3 DEF s
<1>5. Head(pending) = Rules[s + 1] /\ Rules[s + 1] \in STRING
    BY <1>1, <1>4, RulesAssumption
<1>6. Tail(pending) = SubSeq(Rules, s + 2, Len(Rules))
    BY <1>1, <1>4, RulesAssumption
<1> QED BY <1>1, <1>3, <1>5, <1>6 DEF s

LEMMA RestRead ==
    ASSUME NEW out \in Seq(OutputLine), NEW r \in Nat, r < Len(out)
    PROVE  LET q == SubSeq(out, r + 1, Len(out))
           IN  /\ Head(q) = out[r + 1] /\ out[r + 1].name \in STRING
               /\ Tail(q) \in Seq(OutputLine) /\ Len(Tail(q)) = Len(out) - (r + 1)
               /\ Tail(q) = SubSeq(out, r + 2, Len(out))
<1>1. Len(out) \in Nat
    BY LenProperties
<1>2. out[r + 1].name \in STRING
    BY <1>1, LinesAre
<1> DEFINE q == SubSeq(out, r + 1, Len(out))
<1>3. /\ q \in Seq(OutputLine) /\ Len(q) = Len(out) - r /\ Len(q) > 0
      /\ \A i \in 1 .. Len(out) - r : q[i] = out[r + i]
    BY <1>1
<1> HIDE DEF q
<1>4. Head(q) = out[r + 1]
    BY <1>1, <1>3
<1>5. Tail(q) \in Seq(OutputLine) /\ Len(Tail(q)) = Len(out) - (r + 1)
    BY <1>1, <1>3
<1>6. Tail(q) = SubSeq(out, r + 2, Len(out))
    <2> DEFINE t == SubSeq(out, r + 2, Len(out))
    <2>1. /\ t \in Seq(OutputLine) /\ Len(t) = Len(out) - (r + 1)
          /\ \A i \in 1 .. Len(out) - (r + 1) : t[i] = out[r + 1 + i]
        BY <1>1
    <2>2. \A i \in 1 .. Len(out) - (r + 1) : Tail(q)[i] = out[r + 1 + i]
        <3> TAKE i \in 1 .. Len(out) - (r + 1)
        <3>1. Tail(q)[i] = q[i + 1] /\ i + 1 \in 1 .. Len(out) - r
            BY <1>1, <1>3, <1>5
        <3> QED BY <1>1, <1>3, <3>1
    <2> HIDE DEF t
    <2>3. t = Tail(q)
        BY <1>5, <2>1, <2>2, SeqEqual
    <2> QED BY <2>3 DEF t
<1> QED BY <1>2, <1>4, <1>5, <1>6 DEF q

LEMMA LineIsNext ==
    ASSUME ScanTypeOK, ReadSoFar, ReadLine
    PROVE  /\ Output \in Seq(OutputLine) /\ Output' = Output /\ Read' = Read + 1 /\ AnsweredBefore' = AnsweredBefore
           /\ Read \in Nat /\ Read < Len(Output) /\ Len(Output) \in Nat
           /\ in' \in Seq(OutputLine) /\ Len(in') <= Len(Output)
           /\ in' = SubSeq(Output, Read + 2, Len(Output))
           /\ Head(in) = Output[Read + 1] /\ Head(in).name \in STRING
<1>1. Output \in Seq(OutputLine)
    BY OutputsAssumption DEF ReadSoFar
<1>2. Output' = Output /\ AnsweredBefore' = AnsweredBefore
    BY DEF ReadLine, Output, AnsweredBefore
<1>3. /\ in \in Seq(OutputLine) /\ in # <<>> /\ Read = Len(Output) - Len(in)
      /\ Len(in) <= Len(Output) /\ in = SubSeq(Output, Read + 1, Len(Output))
    BY DEF ScanTypeOK, ReadLine, ReadSoFar, Read
<1>4. in' = Tail(in)
    BY DEF ReadLine
<1>5. Read' = Len(Output) - Len(Tail(in))
    BY <1>2, <1>4 DEF Read
<1>6. /\ Len(Output) \in Nat /\ Len(in) \in Nat /\ Len(in) # 0
      /\ Read \in Nat /\ Read < Len(Output)
    <2>1. Len(Output) \in Nat /\ Len(in) \in Nat /\ Len(in) # 0
        BY <1>1, <1>3, EmptySeq, LenProperties
    <2> QED BY <1>3, <2>1
<1>7. /\ Head(in) = Output[Read + 1] /\ Output[Read + 1].name \in STRING
      /\ Tail(in) \in Seq(OutputLine) /\ Len(Tail(in)) = Len(Output) - (Read + 1)
      /\ Tail(in) = SubSeq(Output, Read + 2, Len(Output))
    BY <1>1, <1>3, <1>6, RestRead
<1>8. Read' = Read + 1 /\ Len(Tail(in)) <= Len(Output)
    BY <1>5, <1>6, <1>7
<1> QED BY <1>1, <1>2, <1>3, <1>4, <1>6, <1>7, <1>8

LEMMA LineTaken ==
    ASSUME NEW printed \in Seq(OutputLine), NEW r \in Nat, r < Len(printed), NEW kind
    PROVE  /\ r + 1 \in Are(printed, kind) <=>
                 IsText(printed[r + 1]) /\ TakenFor(printed[r + 1]) = kind
           /\ r + 1 \in Are(printed, kind) =>
                 UpToLine(printed, kind, r + 1) # {}
           /\ r + 1 \notin Are(printed, kind) =>
                 UpToLine(printed, kind, r + 1) = UpToLine(printed, kind, r)
<1>1. DOMAIN printed = 1 .. Len(printed) /\ Len(printed) \in Nat
    BY LinesAre
<1>2. r + 1 \in DOMAIN printed
    BY <1>1
<1>3. \A i \in Are(printed, kind) : i \in Nat
    BY <1>1 DEF Are
<1> QED BY <1>2, <1>3 DEF Are, UpToLine

(* A line that adds nothing to the matches.                                *)
LEMMA BlockIsAdded ==
    ASSUME ScanTypeOK, NEW b \in BlockType, report' = Append(report, b)
    PROVE  /\ report' \in Seq(BlockType)
           /\ Reported' = IF IsMatch(b) THEN Append(Reported, b) ELSE Reported
           /\ LastAnswered(report') <=> b.type # "scanning"
<1>0. report \in Seq(BlockType)
    BY DEF ScanTypeOK
<1>1. report' \in Seq(BlockType)
    BY <1>0, BlockCounted
<1>2. Reported = ReportedIn(report) /\ Reported' = ReportedIn(report')
    <2>1. report \in Seq(BlockType) => Reported = ReportedIn(report)
        BY ReportedIs
    <2>2. (report \in Seq(BlockType) => Reported = ReportedIn(report))'
        BY <2>1, ReportedIs, PTL
    <2> QED BY <1>0, <1>1, <2>1, <2>2 DEF ReportedIn, ReportAt, IsMatch
<1>3. ReportedIn(report') = IF IsMatch(b) THEN Append(ReportedIn(report), b) ELSE ReportedIn(report)
    BY <1>0, BlockAdded
<1>4. LastAnswered(report') <=> b.type # "scanning"
    <2>1. /\ Len(report') = Len(report) + 1 /\ Len(report) \in Nat
          /\ TitlesIn(report') =
                TitlesIn(report) \cup (IF b.type = "scanning" THEN {Len(report) + 1} ELSE {})
          /\ TitlesIn(report) \subseteq 1 .. Len(report)
        BY <1>0, BlockCounted, BlocksAre
    <2> QED BY <2>1 DEF LastAnswered
<1> QED BY <1>1, <1>2, <1>3, <1>4

LEMMA NotesAre ==
    ASSUME NEW type \in BlockTypes
    PROVE  /\ Note(type) \in BlockType /\ Note(type).type = type
           /\ IsMatch(Note(type)) <=> type = "match"
BY DEF Note, Block, BlockType, IsMatch

LEMMA TitleIs ==
    ASSUME ScanTypeOK, pending # <<>>
    PROVE  /\ Title \in BlockType /\ Title.type = "scanning" /\ ~IsMatch(Title)
           /\ Title.rule = Rules[Len(scans) + 1]
<1>1. Head(pending) \in STRING /\ Head(pending) = Rules[Len(scans) + 1]
    BY RuleIsNext
<1> QED BY <1>1 DEF Title, Block, BlockType, BlockTypes, IsMatch

(* What the names of the model say of the report and the scans.            *)
ReadAsWhole ==
    ScanTypeOK => Reported = ReportedIn(report) /\ Matches = AnswersUpTo(scans, Len(scans))

LEMMA WholeNow == ReadAsWhole
BY ReportedIs, MatchesAre DEF ReadAsWhole, ScanTypeOK

LEMMA WholeThen == ReadAsWhole'
BY WholeNow, PTL

Two(r, a, b) == r \o <<a, b>>
LEMMA TwoAdded ==
    ASSUME NEW r \in Seq(BlockType), NEW a \in BlockType, NEW b \in BlockType
    PROVE  Two(r, a, b) = Append(Append(r, a), b)
BY DEF Two

LEMMA RuleTaken ==
    ASSUME ScanTypeOK, NEW ok \in BOOLEAN, NEW output \in Seq(OutputLine), NextRule(ok, output)
    PROVE  /\ \E x \in ScanType : /\ scans' = Append(scans, x) /\ x.ok = ok
                                  /\ x.output = output
           /\ scans' \in Seq(ScanType) /\ Len(scans') = Len(scans) + 1
           /\ Len(scans') <= Len(Rules) /\ Len(scans) \in Nat
           /\ pending' = SubSeq(Rules, Len(scans') + 1, Len(Rules))
<1> DEFINE x == [rule |-> Head(pending), ok |-> ok, output |-> output]
<1>1. /\ Len(scans) < Len(Rules) /\ Len(scans) \in Nat /\ Len(Rules) \in Nat
      /\ Head(pending) \in STRING /\ Tail(pending) = SubSeq(Rules, Len(scans) + 2, Len(Rules))
    BY RuleIsNext DEF NextRule
<1>2. x \in ScanType /\ x.ok = ok /\ x.output = output
    BY <1>1 DEF ScanType
<1> HIDE DEF x
<1>3. scans' = Append(scans, x) /\ pending' = Tail(pending)
    BY DEF NextRule, x
<1>4. scans \in Seq(ScanType)
    BY DEF ScanTypeOK
<1>5. scans' \in Seq(ScanType) /\ Len(scans') = Len(scans) + 1
    BY <1>2, <1>3, <1>4, AppendProperties
<1>6. Len(scans') <= Len(Rules) /\ Len(scans') + 1 = Len(scans) + 2
    BY <1>1, <1>5
<1> QED BY <1>1, <1>2, <1>3, <1>5, <1>6

LEMMA ScanFailsKeeps ==
    ASSUME ScanInv, NEW why \in {"execution failed", "cannot open output"}, ScanFails(why)
    PROVE  ScanInv'
<1>0. ScanTypeOK /\ pending # <<>> /\ ~Reading /\ ~Reading' /\ ~Done' /\ NextRule(FALSE, <<>>)
    BY DEF ScanInv, ScanFails, NextRule, Reading, Done
<1>1. Title \in BlockType /\ Title.type = "scanning" /\ ~IsMatch(Title)
      /\ Title.rule = Rules[Len(scans) + 1]
    BY <1>0, TitleIs
<1>2. why \in BlockTypes /\ why # "match" /\ why # "scanning" /\ why # "clean"
    BY DEF BlockTypes
<1>3. /\ Note(why) \in BlockType /\ ~IsMatch(Note(why)) /\ Note(why).type # "scanning"
      /\ Note(why).type # "clean"
    BY <1>2, NotesAre
<1> DEFINE mid == Append(report, Title)
<1>4. report \in Seq(BlockType) /\ scans \in Seq(ScanType)
    BY <1>0 DEF ScanTypeOK
<1>5. mid \in Seq(BlockType) /\ ReportedIn(mid) = ReportedIn(report)
    BY <1>1, <1>4, BlockAdded, AppendProperties
<1>6. report' = Append(mid, Note(why))
    <2>1. report' = report \o <<Title, Note(why)>>
        BY DEF ScanFails
    <2>2. Two(report, Title, Note(why)) = Append(Append(report, Title), Note(why))
        BY <1>1, <1>3, <1>4, TwoAdded
    <2> QED BY <2>1, <2>2, Zenon DEF Two
<1>7. <<>> \in Seq(OutputLine)
    BY EmptySeq
<1>8. PICK x \in ScanType : scans' = Append(scans, x) /\ x.ok = FALSE /\ x.output = <<>>
    BY <1>0, <1>7, RuleTaken
<1>9. TitledIn(report', scans') /\ LastAnswered(report')
    <2>1. TitledIn(report, scans) /\ LastAnswered(report)
        BY <1>0 DEF ScanInv, Titled
    <2>2. TitledIn(mid, scans')
        BY <1>1, <1>4, <1>8, <2>1, TitleAdded
    <2>3. scans' \in Seq(ScanType)
        BY <1>0, <1>7, RuleTaken
    <2> HIDE DEF mid
    <2> QED BY <1>3, <1>5, <1>6, <2>2, <2>3, NoteAdded
<1>10. report' \in Seq(BlockType) /\ ReportedIn(report') = ReportedIn(report)
    <2> HIDE DEF mid
    <2> QED BY <1>3, <1>5, <1>6, BlockAdded, AppendProperties
<1>11. ScanTypeOK'
    <2>1. /\ in' = in /\ currentRule' = currentRule /\ matchedStrings' = matchedStrings
          /\ globalMatchCount' = globalMatchCount /\ phase' = phase
        BY DEF ScanFails, NextRule
    <2>2. foundAnyInFile' \in BOOLEAN /\ hasErrors' \in BOOLEAN
        BY <1>0 DEF ScanFails, ScanTypeOK
    <2>3. /\ in' \in Seq(OutputLine) /\ currentRule' \in STRING \cup {NoRule}
          /\ matchedStrings' \in Seq(STRING) /\ globalMatchCount' \in Nat
          /\ phase' \in {"scanning", "reading", "done"}
        BY <1>0, <2>1 DEF ScanTypeOK
    <2>4. /\ scans' \in Seq(ScanType) /\ Len(scans') <= Len(Rules)
          /\ pending' = SubSeq(Rules, Len(scans') + 1, Len(Rules))
        BY <1>0, <1>7, RuleTaken
    <2> QED BY <1>10, <2>2, <2>3, <2>4 DEF ScanTypeOK
<1>12. Reported' = Reported /\ Matches' = Matches
    <2>1. Reported' = ReportedIn(report') /\ Matches' = AnswersUpTo(scans', Len(scans'))
        BY <1>11, WholeThen DEF ReadAsWhole
    <2>2. Reported = ReportedIn(report) /\ Matches = AnswersUpTo(scans, Len(scans))
        BY <1>0, WholeNow DEF ReadAsWhole
    <2>3. AnswersUpTo(scans', Len(scans')) = AnswersUpTo(scans, Len(scans))
        BY <1>4, <1>8, SilentAnswer
    <2> QED BY <1>10, <2>1, <2>2, <2>3
<1>13. globalMatchCount' = globalMatchCount
    BY DEF ScanFails, NextRule
<1>14. globalMatchCount = Len(Reported) /\ Reported = Matches
    BY <1>0 DEF ScanInv, Counted, Answered
<1> QED BY <1>0, <1>9, <1>11, <1>12, <1>13, <1>14
        DEF ScanInv, Counted, Answered, Titled, Ended

LEMMA ScanKeeps ==
    ASSUME ScanInv, NEW output \in Outputs, Scan(output)
    PROVE  ScanInv'
<1>0. ScanTypeOK /\ pending # <<>> /\ ~Reading /\ Reading' /\ ~Done' /\ NextRule(TRUE, output)
    BY DEF ScanInv, Scan, NextRule, Reading, Done
<1>1. output \in Seq(OutputLine)
    BY OutputsAssumption
<1>2. /\ Title \in BlockType /\ Title.type = "scanning" /\ ~IsMatch(Title)
      /\ Title.rule = Rules[Len(scans) + 1]
    BY <1>0, TitleIs
<1>3. /\ report' = Append(report, Title) /\ in' = output /\ currentRule' = NoRule
      /\ matchedStrings' = <<>> /\ phase' = "reading"
    BY DEF Scan
<1>4. report \in Seq(BlockType) /\ scans \in Seq(ScanType)
    BY <1>0 DEF ScanTypeOK
<1>5. PICK x \in ScanType : scans' = Append(scans, x) /\ x.ok = TRUE /\ x.output = output
    BY <1>0, <1>1, RuleTaken
<1>6. /\ scans' \in Seq(ScanType) /\ Len(scans') = Len(scans) + 1 /\ Len(scans') <= Len(Rules)
      /\ Len(scans) \in Nat /\ pending' = SubSeq(Rules, Len(scans') + 1, Len(Rules))
    BY <1>0, <1>1, RuleTaken
<1>7. report' \in Seq(BlockType) /\ Reported' = Reported
    BY <1>0, <1>2, <1>3, BlockIsAdded
<1>8. ScanTypeOK'
    <2>1. foundAnyInFile' \in BOOLEAN /\ hasErrors' \in BOOLEAN
        BY DEF Scan
    <2>2. globalMatchCount' \in Nat
        BY <1>0 DEF Scan, NextRule, ScanTypeOK
    <2>3. matchedStrings' \in Seq(STRING)
        BY <1>3, EmptySeq
    <2>4. currentRule' \in STRING \cup {NoRule} /\ phase' \in {"scanning", "reading", "done"}
        BY <1>3
    <2>5. in' \in Seq(OutputLine)
        BY <1>1, <1>3
    <2> QED BY <1>6, <1>7, <2>1, <2>2, <2>3, <2>4, <2>5 DEF ScanTypeOK
<1>9. Titled'
    <2>1. TitledIn(report, scans) /\ LastAnswered(report)
        BY <1>0 DEF ScanInv, Titled
    <2>2. TitledIn(report', scans')
        BY <1>2, <1>3, <1>4, <1>5, <2>1, TitleAdded
    <2> QED BY <1>0, <2>2 DEF Titled
<1>10. scans'[Len(scans')] = x
    BY <1>4, <1>5, <1>6, AppendProperties
<1>11. Output' = output
    BY <1>5, <1>10 DEF Output
<1>12. Read' = 0
    <2>1. Len(output) \in Nat
        BY <1>1, LenProperties
    <2> QED BY <1>3, <1>11, <2>1 DEF Read
<1>13. AnsweredBefore' = Reported'
    <2>1. Len(scans') - 1 = Len(scans)
        BY <1>6
    <2>2. AnswersUpTo(scans', Len(scans)) = AnswersUpTo(scans, Len(scans))
        BY <1>4, <1>5, AnswersGrow
    <2>3. AnsweredBefore' = Matches
        BY <1>0, <2>1, <2>2, WholeNow DEF AnsweredBefore, ReadAsWhole
    <2>4. Reported = Matches
        BY <1>0 DEF ScanInv, Answered
    <2> QED BY <1>7, <2>3, <2>4
<1>14. ReadSoFar'
    <2>1. Len(scans') > 0 /\ scans'[Len(scans')].ok
        BY <1>5, <1>6, <1>10
    <2>2. UpToLine(output, "error", 0) = {}
        BY <1>1, LinesAre DEF UpToLine, Are
    <2>3. ~hasErrors'
        BY DEF Scan
    <2>4. Len(output) <= Len(output) /\ output = SubSeq(output, 0 + 1, Len(output))
        BY <1>1
    <2>5. HasRead(output, 0, NoRule, <<>>, Reported', Reported')
        BY <1>1, NothingRead
    <2>6. HasRead(Output', Read', currentRule', matchedStrings', AnsweredBefore', Reported')
        BY <1>3, <1>11, <1>12, <1>13, <2>5
    <2>7. Len(in') <= Len(Output') /\ in' = SubSeq(Output', Read' + 1, Len(Output'))
        BY <1>3, <1>11, <1>12, <2>4
    <2> QED BY <1>11, <1>12, <2>1, <2>2, <2>3, <2>6, <2>7 DEF ReadSoFar
<1>15. globalMatchCount' = Len(Reported')
    <2>1. globalMatchCount' = globalMatchCount /\ globalMatchCount = Len(Reported)
        BY <1>0 DEF Scan, NextRule, ScanInv, Counted
    <2> QED BY <1>7, <2>1
<1> QED BY <1>0, <1>8, <1>9, <1>14, <1>15 DEF ScanInv, Counted, Answered, Ended

-----------------------------------------------------------------------------
(* The reading of one line.                                                *)

LEMMA LineKeeps ==
    ASSUME ScanInv, ReadLine, report' \in Seq(BlockType), currentRule' \in STRING \cup {NoRule},
           matchedStrings' \in Seq(STRING), foundAnyInFile' \in BOOLEAN,
           hasErrors' \in BOOLEAN, globalMatchCount' \in Nat,
           Counted', TitledIn(report', scans),
           hasErrors' <=> UpToLine(Output, "error", Read + 1) # {},
           hasErrors' => foundAnyInFile' /\ LastAnswered(report'),
           HasRead(Output, Read + 1, currentRule', matchedStrings', AnsweredBefore, Reported')
    PROVE  ScanInv'
<1>0. ScanTypeOK /\ Reading /\ ReadSoFar
    BY DEF ScanInv, ReadLine, Reading, Answered
<1>1. /\ Output' = Output /\ Read' = Read + 1 /\ AnsweredBefore' = AnsweredBefore
      /\ Read \in Nat /\ in' \in Seq(OutputLine) /\ Len(in') <= Len(Output)
      /\ in' = SubSeq(Output, Read + 2, Len(Output))
    BY <1>0, LineIsNext
<1>2. pending' = pending /\ phase' = phase /\ scans' = scans
    BY DEF ReadLine
<1>3. Reading' /\ ~Done'
    BY <1>0, <1>2 DEF Reading, Done
<1>4. ScanTypeOK'
    <2>1. /\ scans' \in Seq(ScanType) /\ Len(scans') <= Len(Rules)
          /\ pending' = SubSeq(Rules, Len(scans') + 1, Len(Rules))
          /\ phase' \in {"scanning", "reading", "done"}
        BY <1>0, <1>2 DEF ScanTypeOK
    <2> QED BY <1>1, <2>1 DEF ScanTypeOK
<1>5. ReadSoFar'
    <2>1. Len(scans') > 0 /\ scans'[Len(scans')].ok /\ Output' \in Outputs
        BY <1>0, <1>1, <1>2 DEF ReadSoFar
    <2>2. Read' + 1 = Read + 2
        BY <1>1
    <2>3. Len(in') <= Len(Output') /\ in' = SubSeq(Output', Read' + 1, Len(Output'))
        BY <1>1, <2>2
    <2>4. HasRead(Output', Read', currentRule', matchedStrings', AnsweredBefore', Reported')
        BY <1>1
    <2>5. hasErrors' <=> UpToLine(Output', "error", Read') # {}
        BY <1>1
    <2> QED BY <2>1, <2>3, <2>4, <2>5 DEF ReadSoFar
<1>6. Titled'
    BY <1>2, <1>3 DEF Titled
<1> QED BY <1>3, <1>4, <1>5, <1>6 DEF ScanInv, Answered, Ended

(* What every line finds.                                                  *)
LEMMA LineFinds ==
    ASSUME ScanInv, ReadLine
    PROVE  /\ ScanTypeOK /\ ReadSoFar /\ report \in Seq(BlockType) /\ scans \in Seq(ScanType)
           /\ Output \in Seq(OutputLine) /\ Read \in Nat /\ Read < Len(Output)
           /\ Head(in) = Output[Read + 1]
           /\ globalMatchCount = Len(Reported) /\ globalMatchCount \in Nat
           /\ TitledIn(report, scans)
           /\ HasRead(Output, Read, currentRule, matchedStrings, AnsweredBefore, Reported)
<1>1. ScanTypeOK /\ ReadSoFar
    BY DEF ScanInv, ReadLine, Reading, Answered
<1>2. Output \in Seq(OutputLine) /\ Read \in Nat /\ Read < Len(Output) /\ Head(in) = Output[Read + 1]
    BY <1>1, LineIsNext
<1>3. globalMatchCount = Len(Reported) /\ TitledIn(report, scans)
    BY DEF ScanInv, Counted, Titled
<1>4. HasRead(Output, Read, currentRule, matchedStrings, AnsweredBefore, Reported)
    BY <1>1 DEF ReadSoFar
<1>5. report \in Seq(BlockType) /\ scans \in Seq(ScanType) /\ globalMatchCount \in Nat
    BY <1>1 DEF ScanTypeOK
<1> QED BY <1>1, <1>2, <1>3, <1>4, <1>5

LEMMA ReadEmptyKeeps ==
    ASSUME ScanInv, ReadEmpty
    PROVE  ScanInv'
<1>0. ReadLine /\ ~IsText(Head(in))
    BY DEF ReadEmpty
<1>1. /\ currentRule' = currentRule /\ matchedStrings' = matchedStrings
      /\ foundAnyInFile' = foundAnyInFile /\ hasErrors' = hasErrors /\ report' = report
      /\ globalMatchCount' = globalMatchCount
    BY DEF ReadEmpty
<1>2. \A kind \in {"header", "string", "error"} : Read + 1 \notin Are(Output, kind)
    BY <1>0, LineFinds, LineTaken
<1>3. UpToLine(Output, "error", Read + 1) = UpToLine(Output, "error", Read)
    BY <1>0, <1>2, LineFinds, LineTaken
<1>4. Reported' = Reported
    BY <1>1 DEF Reported
<1>5. HasRead(Output, Read + 1, currentRule, matchedStrings, AnsweredBefore, Reported)
    BY <1>0, <1>2, LineFinds, OtherRead
<1>6. hasErrors <=> UpToLine(Output, "error", Read + 1) # {}
    BY <1>0, <1>3, LineFinds DEF ReadSoFar
<1>7. hasErrors => foundAnyInFile /\ LastAnswered(report)
    BY <1>0, LineFinds DEF ReadSoFar
<1>8. Counted'
    BY <1>0, <1>1, <1>4, LineFinds DEF Counted
<1>9. /\ currentRule' \in STRING \cup {NoRule} /\ matchedStrings' \in Seq(STRING)
      /\ foundAnyInFile' \in BOOLEAN /\ hasErrors' \in BOOLEAN /\ report' \in Seq(BlockType)
      /\ globalMatchCount' \in Nat
    BY <1>0, <1>1, LineFinds DEF ScanTypeOK
<1> QED BY <1>0, <1>1, <1>4, <1>5, <1>6, <1>7, <1>8, <1>9, LineFinds, LineKeeps

LEMMA TextFinds ==
    ASSUME ScanInv, NEW taken, ReadText(taken)
    PROVE  /\ ReadLine /\ foundAnyInFile' = TRUE
           /\ \A kind : Read + 1 \in Are(Output, kind) <=> kind = taken
<1>1. ReadLine /\ IsText(Head(in)) /\ TakenFor(Head(in)) = taken
    BY DEF ReadText
<1>2. Output \in Seq(OutputLine) /\ Read \in Nat /\ Read < Len(Output) /\ Head(in) = Output[Read + 1]
    BY <1>1, LineFinds
<1>3. foundAnyInFile' = TRUE
    BY DEF ReadText
<1>4. ASSUME NEW kind PROVE Read + 1 \in Are(Output, kind) <=> kind = taken
    BY <1>1, <1>2, LineTaken
<1> QED BY <1>1, <1>3, <1>4

LEMMA ReadErrorKeeps ==
    ASSUME ScanInv, ReadError
    PROVE  ScanInv'
<1>0. /\ ReadLine /\ foundAnyInFile' = TRUE
      /\ \A kind : Read + 1 \in Are(Output, kind) <=> kind = "error"
    BY TextFinds DEF ReadError
<1>1. /\ currentRule' = currentRule /\ matchedStrings' = matchedStrings
      /\ globalMatchCount' = globalMatchCount /\ report' = Append(report, Note("error"))
    BY DEF ReadError
<1>2. Note("error") \in BlockType /\ Note("error").type = "error" /\ ~IsMatch(Note("error"))
    BY NotesAre DEF BlockTypes
<1>3. report' \in Seq(BlockType) /\ Reported' = Reported /\ LastAnswered(report')
    BY <1>0, <1>1, <1>2, LineFinds, BlockIsAdded
<1>4. TitledIn(report', scans)
    BY <1>0, <1>1, <1>2, LineFinds, NoteAdded
<1>5. HasRead(Output, Read + 1, currentRule, matchedStrings, AnsweredBefore, Reported)
    BY <1>0, LineFinds, OtherRead
<1>6. hasErrors' <=> UpToLine(Output, "error", Read + 1) # {}
    <2>1. UpToLine(Output, "error", Read + 1) # {}
        BY <1>0, LineFinds, LineTaken
    <2> QED BY <2>1 DEF ReadError
<1>7. Counted'
    BY <1>0, <1>1, <1>3, LineFinds DEF Counted
<1>8. currentRule' \in STRING \cup {NoRule} /\ matchedStrings' \in Seq(STRING)
    BY <1>0, <1>1, LineFinds DEF ScanTypeOK
<1>9. foundAnyInFile' \in BOOLEAN /\ hasErrors' \in BOOLEAN /\ globalMatchCount' \in Nat
    BY <1>0, <1>1, LineFinds DEF ReadError
<1> QED BY <1>0, <1>1, <1>3, <1>4, <1>5, <1>6, <1>7, <1>8, <1>9, LineKeeps

LEMMA ReadWarningKeeps ==
    ASSUME ScanInv, ReadWarning
    PROVE  ScanInv'
<1>0. /\ ReadLine /\ foundAnyInFile' = TRUE
      /\ \A kind : Read + 1 \in Are(Output, kind) <=> kind = "warning"
    BY TextFinds DEF ReadWarning
<1>1. /\ currentRule' = currentRule /\ matchedStrings' = matchedStrings
      /\ globalMatchCount' = globalMatchCount /\ report' = Append(report, Note("warning"))
      /\ hasErrors' = hasErrors
    BY DEF ReadWarning
<1>2. /\ Note("warning") \in BlockType /\ Note("warning").type = "warning"
      /\ ~IsMatch(Note("warning"))
    BY NotesAre DEF BlockTypes
<1>3. report' \in Seq(BlockType) /\ Reported' = Reported /\ LastAnswered(report')
    BY <1>0, <1>1, <1>2, LineFinds, BlockIsAdded
<1>4. TitledIn(report', scans)
    BY <1>0, <1>1, <1>2, LineFinds, NoteAdded
<1>5. HasRead(Output, Read + 1, currentRule, matchedStrings, AnsweredBefore, Reported)
    BY <1>0, LineFinds, OtherRead
<1>6. hasErrors <=> UpToLine(Output, "error", Read + 1) # {}
    <2>1. UpToLine(Output, "error", Read + 1) = UpToLine(Output, "error", Read)
        BY <1>0, LineFinds, LineTaken
    <2> QED BY <1>0, <2>1, LineFinds DEF ReadSoFar
<1>7. Counted'
    BY <1>0, <1>1, <1>3, LineFinds DEF Counted
<1>8. currentRule' \in STRING \cup {NoRule} /\ matchedStrings' \in Seq(STRING)
    BY <1>0, <1>1, LineFinds DEF ScanTypeOK
<1>9. foundAnyInFile' \in BOOLEAN /\ hasErrors' \in BOOLEAN /\ globalMatchCount' \in Nat
    BY <1>0, <1>1, LineFinds DEF ScanTypeOK
<1> QED BY <1>0, <1>1, <1>3, <1>4, <1>5, <1>6, <1>7, <1>8, <1>9, LineKeeps

LEMMA ReadStringKeeps ==
    ASSUME ScanInv, ReadString
    PROVE  ScanInv'
<1>0. /\ ReadLine /\ foundAnyInFile' = TRUE
      /\ \A kind : Read + 1 \in Are(Output, kind) <=> kind = "string"
    BY TextFinds DEF ReadString
<1>1. /\ currentRule' = currentRule /\ hasErrors' = hasErrors /\ report' = report
      /\ matchedStrings' = Append(matchedStrings, Head(in).name)
      /\ globalMatchCount' = globalMatchCount
    BY DEF ReadString
<1>2. Reported' = Reported
    BY <1>1 DEF Reported
<1>3. Head(in) = Output[Read + 1] /\ Output[Read + 1].name \in STRING
    BY <1>0, LineFinds, LineIsNext
<1>4. HasRead(Output, Read + 1, currentRule, matchedStrings', AnsweredBefore, Reported)
    <2>1. Read + 1 \notin Are(Output, "header") /\ Read + 1 \in Are(Output, "string")
        BY <1>0
    <2>2. /\ Output \in Seq(OutputLine) /\ Read \in Nat /\ Read < Len(Output)
          /\ HasRead(Output, Read, currentRule, matchedStrings, AnsweredBefore, Reported)
        BY <1>0, LineFinds
    <2>3. HasRead(Output, Read + 1, currentRule,
                  Append(matchedStrings, Output[Read + 1].name), AnsweredBefore, Reported)
        BY <2>1, <2>2, StringRead
    <2> QED BY <1>1, <1>3, <2>3
<1>5. hasErrors <=> UpToLine(Output, "error", Read + 1) # {}
    <2>1. UpToLine(Output, "error", Read + 1) = UpToLine(Output, "error", Read)
        BY <1>0, LineFinds, LineTaken
    <2> QED BY <1>0, <2>1, LineFinds DEF ReadSoFar
<1>6. hasErrors => LastAnswered(report)
    BY <1>0, LineFinds DEF ReadSoFar
<1>7. Counted'
    BY <1>0, <1>1, <1>2, LineFinds DEF Counted
<1>8. matchedStrings' \in Seq(STRING)
    <2>1. matchedStrings \in Seq(STRING)
        BY <1>0, LineFinds DEF ScanTypeOK
    <2> QED BY <1>1, <1>3, <2>1, AppendProperties
<1>9. /\ currentRule' \in STRING \cup {NoRule} /\ foundAnyInFile' \in BOOLEAN
      /\ hasErrors' \in BOOLEAN /\ globalMatchCount' \in Nat
    BY <1>0, <1>1, LineFinds DEF ScanTypeOK
<1> QED BY <1>0, <1>1, <1>2, <1>4, <1>5, <1>6, <1>7, <1>8, <1>9, LineFinds, LineKeeps

(* The rule and the strings that are read.                                 *)
LEMMA ReadTyped ==
    ASSUME ScanTypeOK, currentRule # NoRule
    PROVE  Block("match", currentRule, matchedStrings) \in BlockType
BY MatchType DEF ScanTypeOK

LEMMA DumpIs ==
    ASSUME ScanInv, Dump
    PROVE  /\ Reported' = Dumped(Reported, currentRule, matchedStrings) /\ Counted'
           /\ report' \in Seq(BlockType) /\ globalMatchCount' \in Nat
           /\ TitledIn(report', scans)
           /\ LastAnswered(report) \/ currentRule # NoRule => LastAnswered(report')
<1>0. /\ ScanTypeOK /\ report \in Seq(BlockType) /\ scans \in Seq(ScanType)
      /\ globalMatchCount = Len(Reported) /\ globalMatchCount \in Nat
      /\ TitledIn(report, scans)
    BY DEF ScanInv, ScanTypeOK, Counted, Titled
<1>1. CASE currentRule = NoRule
    <2>1. report' = report /\ globalMatchCount' = globalMatchCount
        BY <1>1 DEF Dump
    <2>2. Reported' = Reported
        BY <2>1 DEF Reported
    <2> QED BY <1>0, <1>1, <2>1, <2>2 DEF Dumped, Counted
<1>2. CASE currentRule # NoRule
    <2> DEFINE b == Block("match", currentRule, matchedStrings)
    <2>1. report' = Append(report, b) /\ globalMatchCount' = globalMatchCount + 1
        BY <1>2 DEF Dump
    <2>2. b \in BlockType
        BY <1>0, <1>2, ReadTyped
    <2>3. b.type = "match" /\ IsMatch(b)
        BY DEF Block, IsMatch
    <2>4. Dumped(Reported, currentRule, matchedStrings) = Append(Reported, b)
        BY <1>2 DEF Dumped
    <2> HIDE DEF b
    <2>5. report' \in Seq(BlockType) /\ Reported' = Append(Reported, b) /\ LastAnswered(report')
        BY <1>0, <2>1, <2>2, <2>3, BlockIsAdded
    <2>6. TitledIn(report', scans)
        BY <1>0, <2>1, <2>2, <2>3, NoteAdded
    <2>7. Reported \in Seq(BlockType)
        BY <1>0, WholeNow, ReportFits DEF ReadAsWhole
    <2>8. Len(Reported') = Len(Reported) + 1
        BY <2>2, <2>5, <2>7, AppendProperties
    <2> QED BY <1>0, <2>1, <2>4, <2>5, <2>6, <2>8 DEF Counted
<1> QED BY <1>1, <1>2

LEMMA BeforeTyped ==
    ASSUME ScanTypeOK, Len(scans) > 0
    PROVE  AnsweredBefore \in Seq(BlockType)
<1>1. scans \in Seq(ScanType) /\ Len(scans) \in Nat
    BY LenProperties DEF ScanTypeOK
<1>2. Len(scans) - 1 \in 0 .. Len(scans)
    BY <1>1
<1> QED BY <1>1, <1>2, AnswersFit DEF AnsweredBefore

LEMMA ReadHeaderKeeps ==
    ASSUME ScanInv, ReadHeader
    PROVE  ScanInv'
<1>0. /\ ReadLine /\ foundAnyInFile' = TRUE /\ Dump
      /\ \A kind : Read + 1 \in Are(Output, kind) <=> kind = "header"
    BY TextFinds DEF ReadHeader
<1>1. /\ currentRule' = Head(in).name /\ hasErrors' = hasErrors /\ matchedStrings' = <<>>
    BY DEF ReadHeader, ForgetStrings
<1>2. /\ Head(in) = Output[Read + 1] /\ Output[Read + 1].name \in STRING
      /\ Output \in Outputs /\ Len(scans) > 0
    BY <1>0, LineFinds, LineIsNext DEF ReadSoFar
<1>3. Output[Read + 1].name # NoRule
    <2>1. Read + 1 \in Are(Output, "header")
        BY <1>0
    <2>2. Read + 1 \in DOMAIN Output /\ TakenFor(Output[Read + 1]) = "header"
        BY <2>1 DEF Are
    <2> QED BY <1>2, <2>2, OutputsAssumption
<1>4. /\ Reported' = Dumped(Reported, currentRule, matchedStrings) /\ Counted'
      /\ report' \in Seq(BlockType) /\ globalMatchCount' \in Nat /\ TitledIn(report', scans)
      /\ LastAnswered(report) => LastAnswered(report')
    BY <1>0, DumpIs
<1>5. HasRead(Output, Read + 1, currentRule', matchedStrings', AnsweredBefore, Reported')
    <2>1. AnsweredBefore \in Seq(BlockType)
        BY <1>0, <1>2, LineFinds, BeforeTyped
    <2>2. HasRead(Output, Read + 1, Output[Read + 1].name, <<>>, AnsweredBefore,
                  Dumped(Reported, currentRule, matchedStrings))
        BY <1>0, <1>3, <2>1, LineFinds, HeaderRead
    <2> QED BY <1>1, <1>2, <1>4, <2>2
<1>6. hasErrors <=> UpToLine(Output, "error", Read + 1) # {}
    <2>1. UpToLine(Output, "error", Read + 1) = UpToLine(Output, "error", Read)
        BY <1>0, LineFinds, LineTaken
    <2> QED BY <1>0, <2>1, LineFinds DEF ReadSoFar
<1>7. hasErrors => LastAnswered(report)
    BY <1>0, LineFinds DEF ReadSoFar
<1>8. currentRule' \in STRING \cup {NoRule} /\ matchedStrings' \in Seq(STRING)
    BY <1>1, <1>2, EmptySeq
<1>9. foundAnyInFile' \in BOOLEAN /\ hasErrors' \in BOOLEAN
    BY <1>0, <1>1, LineFinds DEF ScanTypeOK
<1> QED BY <1>0, <1>1, <1>4, <1>5, <1>6, <1>7, <1>8, <1>9, LineKeeps

(* The end of an output: the match read last goes to the report too.       *)
LEMMA EndFinds ==
    ASSUME ScanInv, EndOfFile
    PROVE  /\ ScanTypeOK /\ Reading /\ ReadSoFar
           /\ Output \in Seq(OutputLine) /\ Read = Len(Output) /\ Len(Output) \in Nat
           /\ Dumped(Reported, currentRule, matchedStrings) = Matches
<1>1. ScanTypeOK /\ Reading /\ ReadSoFar /\ in = <<>>
    BY DEF ScanInv, EndOfFile, Reading, Answered
<1>2. Output \in Seq(OutputLine)
    BY <1>1, OutputsAssumption DEF ReadSoFar
<1>3. Len(Output) \in Nat
    BY <1>2, LenProperties
<1>4. Read = Len(Output)
    BY <1>1, <1>3 DEF Read
<1>5. MatchesUpTo(AnsweredBefore, Output, Len(Output)) = Dumped(Reported, currentRule, matchedStrings)
    <2>1. AnsweredBefore \in Seq(BlockType)
        BY <1>1, BeforeTyped DEF ReadSoFar
    <2>2. HasRead(Output, Len(Output), currentRule, matchedStrings, AnsweredBefore, Reported)
        BY <1>1, <1>4 DEF ReadSoFar
    <2>3. Closes(Output, Len(Output)) /\ Len(Output) <= Len(Output)
        BY <1>3 DEF Closes
    <2> QED BY <1>2, <1>3, <2>1, <2>2, <2>3, ReadIsReported
<1>6. AnswersUpTo(scans, Len(scans)) = MatchesUpTo(AnsweredBefore, Output, Len(Output))
    <2>1. scans \in Seq(ScanType) /\ Len(scans) > 0
        BY <1>1 DEF ScanTypeOK, ReadSoFar
    <2> QED BY <2>1, LastAnswer DEF AnsweredBefore, Output
<1>7. Matches = AnswersUpTo(scans, Len(scans))
    BY <1>1, WholeNow DEF ReadAsWhole
<1> QED BY <1>1, <1>2, <1>3, <1>4, <1>5, <1>6, <1>7

(* An output without an error and without a match is that of a clean scan. *)
LEMMA CleanEnd ==
    ASSUME ScanInv, EndOfFile, currentRule = NoRule, CleanFile
    PROVE  Clean(scans[Len(scans)]) /\ Len(scans) > 0
<1>1. ReadSoFar /\ Output \in Seq(OutputLine) /\ Read = Len(Output)
    BY EndFinds
<1>2. \A kind : Are(Output, kind) = UpToLine(Output, kind, Len(Output))
    BY <1>1, LinesAre DEF Are, UpToLine
<1>3. UpToLine(Output, "error", Len(Output)) = {}
    <2>1. ~hasErrors
        BY <1>1 DEF ReadSoFar, CleanFile
    <2> QED BY <1>1, <2>1 DEF ReadSoFar
<1>4. UpToLine(Output, "header", Len(Output)) = {}
    <2>1. HasRead(Output, Len(Output), currentRule, matchedStrings, AnsweredBefore, Reported)
        BY <1>1 DEF ReadSoFar
    <2> QED BY <2>1 DEF HasRead
<1> QED BY <1>1, <1>2, <1>3, <1>4 DEF Clean, ReadSoFar, Output

LEMMA EndOfFileKeeps ==
    ASSUME ScanInv, EndOfFile
    PROVE  ScanInv'
<1>0. /\ ScanTypeOK /\ Reading /\ ReadSoFar /\ report \in Seq(BlockType) /\ scans \in Seq(ScanType)
      /\ globalMatchCount = Len(Reported) /\ globalMatchCount \in Nat
      /\ TitledIn(report, scans)
      /\ Dumped(Reported, currentRule, matchedStrings) = Matches
    BY EndFinds DEF ScanInv, ScanTypeOK, Counted, Titled
<1>1. /\ pending' = pending /\ in' = in /\ currentRule' = currentRule
      /\ matchedStrings' = matchedStrings /\ scans' = scans /\ phase' = "scanning"
      /\ foundAnyInFile' = foundAnyInFile /\ hasErrors' = hasErrors
    BY DEF EndOfFile
<1>2. ~Reading' /\ ~Done'
    BY <1>1 DEF Reading, Done
<1>3. /\ Reported' = Matches /\ Counted' /\ report' \in Seq(BlockType)
      /\ globalMatchCount' \in Nat /\ TitledIn(report', scans) /\ LastAnswered(report')
    <2>1. CASE currentRule = NoRule /\ CleanFile
        <3>1. report' = Append(report, Note("clean")) /\ globalMatchCount' = globalMatchCount
            BY <2>1 DEF EndOfFile
        <3>2. /\ Note("clean") \in BlockType /\ Note("clean").type = "clean"
              /\ ~IsMatch(Note("clean"))
            BY NotesAre DEF BlockTypes
        <3>3. report' \in Seq(BlockType) /\ Reported' = Reported /\ LastAnswered(report')
            BY <1>0, <3>1, <3>2, BlockIsAdded
        <3>4. TitledIn(report', scans)
            BY <1>0, <2>1, <3>1, <3>2, CleanEnd, NoteAdded
        <3> QED BY <1>0, <2>1, <3>1, <3>3, <3>4 DEF Counted, Dumped
    <2>2. CASE ~(currentRule = NoRule /\ CleanFile)
        <3>1. Dump
            BY <2>2 DEF EndOfFile
        <3>2. LastAnswered(report) \/ currentRule # NoRule
            BY <1>0, <2>2 DEF CleanFile, ReadSoFar
        <3> QED BY <1>0, <3>1, <3>2, DumpIs
    <2> QED BY <2>1, <2>2
<1>4. ScanTypeOK'
    <2>1. foundAnyInFile' \in BOOLEAN /\ hasErrors' \in BOOLEAN
        BY <1>0, <1>1 DEF ScanTypeOK
    <2>2. /\ scans' \in Seq(ScanType) /\ Len(scans') <= Len(Rules)
          /\ pending' = SubSeq(Rules, Len(scans') + 1, Len(Rules))
          /\ in' \in Seq(OutputLine) /\ currentRule' \in STRING \cup {NoRule}
          /\ matchedStrings' \in Seq(STRING) /\ phase' \in {"scanning", "reading", "done"}
        BY <1>0, <1>1 DEF ScanTypeOK
    <2> QED BY <1>3, <2>1, <2>2 DEF ScanTypeOK
<1>5. Matches' = Matches
    BY <1>1 DEF Matches
<1> QED BY <1>1, <1>2, <1>3, <1>4, <1>5 DEF ScanInv, Answered, Titled, Ended

LEMMA SummaryKeeps ==
    ASSUME ScanInv, Summary
    PROVE  ScanInv'
<1> DEFINE type == IF globalMatchCount > 0 THEN "infected" ELSE "status clean"
<1>0. /\ ScanTypeOK /\ ~Reading /\ report \in Seq(BlockType) /\ scans \in Seq(ScanType)
      /\ globalMatchCount = Len(Reported) /\ Reported = Matches /\ globalMatchCount \in Nat
      /\ TitledIn(report, scans) /\ LastAnswered(report) /\ pending = <<>>
    BY DEF ScanInv, Summary, Reading, ScanTypeOK, Counted, Answered, Titled
<1>1. /\ pending' = pending /\ in' = in /\ currentRule' = currentRule
      /\ matchedStrings' = matchedStrings /\ scans' = scans /\ phase' = "done"
      /\ globalMatchCount' = globalMatchCount
      /\ foundAnyInFile' = foundAnyInFile /\ hasErrors' = hasErrors
      /\ report' = <<Note(type)>> \o report
    BY DEF Summary
<1>2. /\ type \in BlockTypes /\ type # "match" /\ type # "scanning" /\ type # "clean"
      /\ type = "infected" <=> globalMatchCount > 0
    BY DEF BlockTypes
<1> HIDE DEF type
<1>3. Note(type) \in BlockType /\ Note(type).type = type /\ ~IsMatch(Note(type))
    BY <1>2, NotesAre
<1>4. /\ ReportedIn(report') = ReportedIn(report)
      /\ TitledIn(report', scans) /\ LastAnswered(report')
    BY <1>0, <1>1, <1>2, <1>3, BlockPrepended, SummaryAdded
<1>5. report' \in Seq(BlockType) /\ report'[1] = Note(type)
    BY <1>0, <1>1, <1>3
<1>6. ScanTypeOK'
    <2>1. foundAnyInFile' \in BOOLEAN /\ hasErrors' \in BOOLEAN
        BY <1>0, <1>1 DEF ScanTypeOK
    <2>2. /\ scans' \in Seq(ScanType) /\ Len(scans') <= Len(Rules)
          /\ pending' = SubSeq(Rules, Len(scans') + 1, Len(Rules))
          /\ in' \in Seq(OutputLine) /\ currentRule' \in STRING \cup {NoRule}
          /\ matchedStrings' \in Seq(STRING) /\ phase' \in {"scanning", "reading", "done"}
          /\ globalMatchCount' \in Nat
        BY <1>0, <1>1 DEF ScanTypeOK
    <2> QED BY <1>5, <2>1, <2>2 DEF ScanTypeOK
<1>7. Reported' = Reported /\ Matches' = Matches
    BY <1>0, <1>1, <1>4, <1>6, WholeNow, WholeThen DEF ReadAsWhole
<1>8. ~Reading'
    BY <1>1 DEF Reading
<1>9. report'[1].type = "infected" <=> Reported' # <<>>
    <2>1. Reported \in Seq(BlockType)
        BY <1>0, WholeNow, ReportFits DEF ReadAsWhole
    <2>2. globalMatchCount > 0 <=> Reported # <<>>
        BY <1>0, <2>1, EmptySeq
    <2> QED BY <1>2, <1>3, <1>5, <1>7, <2>2
<1> QED BY <1>0, <1>1, <1>4, <1>6, <1>7, <1>8, <1>9
        DEF ScanInv, Counted, Answered, Titled, Ended

LEMMA StutterKeeps ==
    ASSUME ScanInv, UNCHANGED scanVars
    PROVE  ScanInv'
<1> USE DEF scanVars
<1>1. ScanTypeOK'
    BY DEF ScanInv, ScanTypeOK
<1>2. /\ Reported' = Reported /\ Matches' = Matches /\ Output' = Output /\ Read' = Read
      /\ AnsweredBefore' = AnsweredBefore
    BY DEF Reported, Matches, Output, Read, AnsweredBefore
<1>3. (Reading' <=> Reading) /\ (Done' <=> Done)
    BY DEF Reading, Done
<1>4. ReadSoFar => ReadSoFar'
    BY <1>2 DEF ReadSoFar
<1>5. Counted'
    BY <1>2 DEF ScanInv, Counted
<1>6. Titled'
    BY <1>3 DEF ScanInv, Titled
<1>7. Ended'
    BY <1>2, <1>3 DEF ScanInv, Ended
<1>8. Answered'
    BY <1>2, <1>3, <1>4 DEF ScanInv, Answered
<1> QED BY <1>1, <1>5, <1>6, <1>7, <1>8 DEF ScanInv

LEMMA Inductive == ScanInv /\ [ScanNext]_scanVars => ScanInv'
BY ScanFailsKeeps, ScanKeeps, ReadEmptyKeeps, ReadErrorKeeps, ReadWarningKeeps,
   ReadHeaderKeeps, ReadStringKeeps, EndOfFileKeeps, SummaryKeeps, StutterKeeps DEF ScanNext

LEMMA ScanInvariant == ScanSpec => []ScanInv
BY InitInv, Inductive, PTL DEF ScanSpec

-----------------------------------------------------------------------------
(* Every step of RunYara keeps its variables in their types, and the rule  *)
(* files that are left are those behind the ones scanned.                  *)
THEOREM ScanTyped == ScanSpec => []ScanTypeOK
<1>1. ScanInv => ScanTypeOK
    BY DEF ScanInv
<1> QED BY <1>1, ScanInvariant, PTL

(* When the scan is done, the report has the matches of all outputs, each  *)
(* with its own strings and in order, and the summary agrees with them.    *)
THEOREM ReportExact == ScanSpec => []ReportIsExact
<1>1. ScanInv => ReportIsExact
    <2> SUFFICES ASSUME ScanInv, Done
                 PROVE  /\ Reported = Matches
                        /\ globalMatchCount = Len(Matches)
                        /\ report[1].type = "infected" <=> Matches # <<>>
        BY DEF ReportIsExact
    <2>1. ~Reading
        BY DEF Done, Reading
    <2>2. Reported = Matches
        BY <2>1 DEF ScanInv, Answered
    <2> QED BY <2>2 DEF ScanInv, Counted, Ended
<1> QED BY <1>1, ScanInvariant, PTL

(* When the scan is done, every rule file has its title, each title is     *)
(* followed by a block of its own, and a rule file is called clean only if *)
(* its scan ran without an error and without a match.                      *)
THEOREM RulesAnswered == ScanSpec => []EveryRuleAnswered
<1>1. ScanInv => EveryRuleAnswered
    <2> SUFFICES ASSUME ScanInv, Done PROVE EveryRuleAnswered
        BY DEF EveryRuleAnswered
    <2>1. /\ TitledIn(report, scans) /\ LastAnswered(report) /\ pending = <<>>
          /\ ScanTypeOK /\ report \in Seq(BlockType)
        BY DEF ScanInv, Titled, Ended, Done, Reading, ScanTypeOK
    <2>2. Titles = TitlesIn(report) /\ \A b : ScanOf(b) = ScanIn(report, b)
        <3>1. Titles = TitlesIn(report)
            BY DEF Titles, TitlesIn
        <3>2. ASSUME NEW b PROVE ScanOf(b) = ScanIn(report, b)
            <4>1. {c \in 1 .. b : c \in Titles} = TitlesTo(report, b)
                BY <3>1 DEF TitlesTo
            <4> QED BY <4>1 DEF ScanOf, ScanIn
        <3> QED BY <3>1, <3>2
    <2>3. Len(scans) = Len(Rules)
        <3>1. Len(scans) \in Nat /\ Len(Rules) \in Nat /\ Len(scans) <= Len(Rules)
            BY <2>1, RulesAssumption, LenProperties DEF ScanTypeOK
        <3>2. Len(SubSeq(Rules, Len(scans) + 1, Len(Rules))) = Len(Rules) - Len(scans)
            BY <3>1, RulesAssumption
        <3>3. Len(SubSeq(Rules, Len(scans) + 1, Len(Rules))) = 0
            BY <2>1, EmptySeq DEF ScanTypeOK
        <3> QED BY <3>1, <3>2, <3>3
    <2>4. ScanOf(Len(report)) = Len(Rules)
        BY <2>1, <2>2, <2>3 DEF TitledIn
    <2>5. ASSUME NEW b \in Titles
          PROVE  report[b].rule = Rules[ScanOf(b)] /\ b < Len(report) /\ b + 1 \notin Titles
        <3>1. TitleFits(report, b) /\ b \in 1 .. Len(report) /\ Len(report) \in Nat
            BY <2>1, <2>2, BlocksAre DEF TitledIn, TitlesIn
        <3>2. b # Len(report)
            BY <2>1, <2>2 DEF LastAnswered
        <3> QED BY <2>2, <3>1, <3>2 DEF TitleFits
    <2>6. ASSUME NEW b \in DOMAIN report, report[b].type = "clean"
          PROVE  /\ scans[ScanOf(b)].ok /\ Are(scans[ScanOf(b)].output, "error") = {}
                 /\ Are(scans[ScanOf(b)].output, "header") = {}
        <3>1. b \in 1 .. Len(report)
            BY <2>1, BlocksAre
        <3> QED BY <2>1, <2>2, <2>6, <3>1 DEF TitledIn, CleanFits, Clean
    <2> QED BY <2>4, <2>5, <2>6 DEF EveryRuleAnswered
<1> QED BY <1>1, ScanInvariant, PTL

=============================================================================
