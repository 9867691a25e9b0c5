-------------------------- MODULE LexicalTextProofs ---------------------------
(***************************************************************************)
(* Proofs about LexicalText: the text always fits its buffer, TextEditor   *)
(* is a text without a buffer, and the two loops of edits, ReplaceAll and  *)
(* the rebuilding of the text from its tokens, leave what was asked.       *)
(***************************************************************************)
EXTENDS LexicalText, SequenceTheorems, WellFoundedInduction, TLAPS

-----------------------------------------------------------------------------
(* Numbers.                                                                *)

(* A set of numbers that is not empty has a least one.                     *)
LEMMA LeastExists ==
    ASSUME NEW S, S \subseteq Nat, S # {}
    PROVE  \E x \in S : \A y \in S : x <= y
<1>1. PICK x \in S : \A y \in S : ~ (<<y, x>> \in OpToRel(<, Nat))
    BY NatLessThanWellFounded, WFMin
<1>2. \A y \in S : x <= y
    <2> TAKE y \in S
    <2>1. y \in Nat /\ x \in Nat /\ <<y, x>> \in Nat \X Nat
        OBVIOUS
    <2>2. <<y, x>> \notin {ss \in Nat \X Nat : ss[1] < ss[2]}
        BY <1>1 DEF OpToRel
    <2>3. ~(y < x)
        BY <2>1, <2>2
    <2> QED BY <2>1, <2>3
<1> QED BY <1>2

(* Induction up to n, for a set: it holds 0 and goes on from each number.  *)
LEMMA UpTo ==
    ASSUME NEW n \in Nat, NEW B, 0 \in B,
           \A i \in 1 .. n : i - 1 \in B => i \in B
    PROVE  0 .. n \subseteq B
<1> DEFINE Bad == {i \in 0 .. n : i \notin B}
<1>1. SUFFICES ASSUME Bad # {}
               PROVE  FALSE
    OBVIOUS
<1>2. PICK m \in Bad : \A k \in Bad : m <= k
    <2>1. Bad \subseteq Nat
        OBVIOUS
    <2> HIDE DEF Bad
    <2> QED BY <1>1, <2>1, LeastExists
<1>3. m \in 1 .. n
    OBVIOUS
<1>4. m - 1 \in 0 .. n /\ m - 1 \notin Bad
    BY <1>2, <1>3
<1> QED BY <1>3, <1>4

-----------------------------------------------------------------------------
(* Sequences joined from pieces: FlattenSeq.                               *)

Joins(s, f, n) == f = [i \in 1 .. n |-> IF i = 1 THEN s[i] ELSE f[i - 1] \o s[i]]

LEMMA JoinExists ==
    ASSUME NEW s, NEW n \in Nat
    PROVE  \E f : Joins(s, f, n)
<1> DEFINE B == {i \in Nat : \E f : Joins(s, f, i)}
<1>1. 0 \in B
    <2> DEFINE f == [i \in 1 .. 0 |-> <<>>]
    <2>1. Joins(s, f, 0)
        BY DEF Joins
    <2> QED BY <2>1
<1>2. ASSUME NEW i \in 1 .. n, i - 1 \in B
      PROVE  i \in B
    <2>1. PICK f : Joins(s, f, i - 1)
        BY <1>2
    <2> DEFINE g == [j \in 1 .. i |->
                        IF j = i THEN IF i = 1 THEN s[i] ELSE f[i - 1] \o s[i] ELSE f[j]]
    <2>2. \A j \in 1 .. i - 1 : g[j] = f[j]
        OBVIOUS
    <2>3. \A j \in 1 .. i - 1 : f[j] = IF j = 1 THEN s[j] ELSE f[j - 1] \o s[j]
        BY <2>1 DEF Joins
    <2>4. \A j \in 1 .. i : g[j] = IF j = 1 THEN s[j] ELSE g[j - 1] \o s[j]
        <3> TAKE j \in 1 .. i
        <3>1. CASE j = i
            <4>1. j # 1 => g[j - 1] = f[j - 1]
                BY <3>1, <2>2
            <4> QED BY <3>1, <4>1
        <3>2. CASE j # i
            <4>1. j \in 1 .. i - 1 /\ (j # 1 => j - 1 \in 1 .. i - 1)
                BY <3>2
            <4>2. g[j] = f[j] /\ (j # 1 => g[j - 1] = f[j - 1])
                BY <4>1, <2>2
            <4> HIDE DEF g
            <4> QED BY <4>1, <4>2, <2>3
        <3> QED BY <3>1, <3>2
    <2>5. g = [j \in 1 .. i |-> g[j]]
        OBVIOUS
    <2>6. Joins(s, g, i)
        <3> HIDE DEF g
        <3> QED BY <2>4, <2>5 DEF Joins
    <2> QED BY <2>6
<1>3. 0 .. n \subseteq B
    <2> HIDE DEF B
    <2> QED BY <1>1, <1>2, UpTo
<1> QED BY <1>3

(* g joins the pieces f up to each place.                                  *)
Joining(g, f, n) == \A i \in 1 .. n : g[i] = IF i = 1 THEN f[i] ELSE g[i - 1] \o f[i]

LEMMA FlattenIs ==
    ASSUME NEW s, NEW n \in Nat \ {0}, Len(s) = n
    PROVE  \E g : FlattenSeq(s) = g[n] /\ Joining(g, s, n)
<1> DEFINE g == CHOOSE g : Joins(s, g, n)
<1>1. FlattenSeq(s) = g[n]
    BY DEF FlattenSeq, Joins
<1>2. Joins(s, g, n)
    BY JoinExists
<1> HIDE DEF g
<1>3. Joining(g, s, n)
    BY <1>2 DEF Joins, Joining
<1> QED BY <1>1, <1>3

(* What the first n places of f give, joined.                              *)
Joined(f, n) == FlattenSeq([k \in 1 .. n |-> f[k]])
Pieces(f, n, X) == \A k \in 1 .. n : f[k] \in Seq(X)

LEMMA FewerPieces ==
    ASSUME NEW X, NEW f, NEW n \in Nat, Pieces(f, n, X), NEW m \in Nat, m <= n
    PROVE  Pieces(f, m, X)
BY DEF Pieces

LEMMA JoinedZero ==
    ASSUME NEW f
    PROVE  Joined(f, 0) = <<>>
BY DEF Joined, FlattenSeq

LEMMA JoinedIs ==
    ASSUME NEW f, NEW n \in Nat \ {0}
    PROVE  \E g : Joined(f, n) = g[n] /\ Joining(g, f, n)
<1> DEFINE s == [k \in 1 .. n |-> f[k]]
<1>1. Len(s) = n
    OBVIOUS
<1>2. \A i \in 1 .. n : s[i] = f[i]
    OBVIOUS
<1> HIDE DEF s
<1>3. PICK g : FlattenSeq(s) = g[n] /\ Joining(g, s, n)
    BY <1>1, FlattenIs
<1>4. Joining(g, f, n)
    BY <1>2, <1>3 DEF Joining
<1> QED BY <1>3, <1>4 DEF Joined, s

(* Two ways to join the same pieces agree at every place.                  *)
LEMMA OneJoin ==
    ASSUME NEW f, NEW n \in Nat, NEW m \in Nat, m <= n, NEW g, NEW h,
           Joining(g, f, n), Joining(h, f, m)
    PROVE  \A i \in 1 .. m : g[i] = h[i]
<1> DEFINE B == {0} \cup {i \in 1 .. m : g[i] = h[i]}
<1>1. 0 \in B
    OBVIOUS
<1>2. ASSUME NEW i \in 1 .. m, i - 1 \in B
      PROVE  i \in B
    <2>1. i \in 1 .. n
        OBVIOUS
    <2>2. i # 1 => g[i - 1] = h[i - 1]
        BY <1>2
    <2>3. g[i] = h[i]
        BY <2>1, <2>2 DEF Joining
    <2> QED BY <2>3
<1>3. 0 .. m \subseteq B
    <2> HIDE DEF B
    <2> QED BY <1>1, <1>2, UpTo
<1> QED BY <1>3

LEMMA EmptyFirst ==
    ASSUME NEW X, NEW s \in Seq(X)
    PROVE  s \o <<>> = s /\ <<>> \o s = s
BY ConcatEmptySeq

(* One piece more.                                                         *)
LEMMA JoinedNext ==
    ASSUME NEW X, NEW f, NEW n \in Nat, Pieces(f, n + 1, X)
    PROVE  Joined(f, n + 1) = Joined(f, n) \o f[n + 1]
<1>0. n + 1 \in Nat \ {0} /\ n <= n + 1
    OBVIOUS
<1>1. PICK g : Joined(f, n + 1) = g[n + 1] /\ Joining(g, f, n + 1)
    BY <1>0, JoinedIs
<1>2. CASE n = 0
    <2>1. g[1] = f[1] /\ f[1] \in Seq(X)
        BY <1>1, <1>2 DEF Joining, Pieces
    <2>2. <<>> \o f[1] = f[1]
        BY <2>1, EmptyFirst
    <2>3. Joined(f, n) = <<>> /\ n + 1 = 1
        BY <1>2, JoinedZero
    <2> QED BY <1>1, <2>1, <2>2, <2>3
<1>3. CASE n # 0
    <2>1. PICK h : Joined(f, n) = h[n] /\ Joining(h, f, n)
        BY <1>3, JoinedIs
    <2>2. g[n] = h[n]
        <3>1. \A i \in 1 .. n : g[i] = h[i]
            BY <1>0, <1>1, <2>1, OneJoin
        <3> QED BY <1>3, <3>1
    <2>3. g[n + 1] = g[n] \o f[n + 1]
        <3>1. n + 1 \in 1 .. n + 1 /\ n + 1 # 1 /\ (n + 1) - 1 = n
            BY <1>3
        <3>2. g[n + 1] = IF n + 1 = 1 THEN f[n + 1] ELSE g[(n + 1) - 1] \o f[n + 1]
            BY <1>1, <3>1 DEF Joining
        <3> QED BY <3>1, <3>2
    <2> QED BY <1>1, <2>1, <2>2, <2>3
<1> QED BY <1>2, <1>3

LEMMA JoinedTurn ==
    ASSUME NEW X, NEW f, NEW n \in Nat, Pieces(f, n, X), NEW i \in 1 .. n
    PROVE  Joined(f, i) = Joined(f, i - 1) \o f[i] /\ f[i] \in Seq(X)
<1>1. i - 1 \in Nat /\ (i - 1) + 1 = i
    OBVIOUS
<1>2. Pieces(f, (i - 1) + 1, X)
    BY DEF Pieces
<1> QED BY <1>1, <1>2, JoinedNext DEF Pieces

LEMMA JoinedType ==
    ASSUME NEW X, NEW f, NEW n \in Nat, Pieces(f, n, X)
    PROVE  Joined(f, n) \in Seq(X)
<1> DEFINE B == {i \in 0 .. n : Joined(f, i) \in Seq(X)}
<1>1. 0 \in B
    <2>1. <<>> \in Seq(X)
        OBVIOUS
    <2>2. Joined(f, 0) \in Seq(X)
        BY <2>1, JoinedZero, Zenon
    <2>3. 0 \in 0 .. n
        OBVIOUS
    <2> QED BY <2>2, <2>3, Zenon
<1>2. ASSUME NEW i \in 1 .. n, i - 1 \in B
      PROVE  i \in B
    <2>1. Joined(f, i) = Joined(f, i - 1) \o f[i] /\ f[i] \in Seq(X)
        BY JoinedTurn
    <2>2. Joined(f, i - 1) \in Seq(X)
        BY <1>2
    <2>3. Joined(f, i) \in Seq(X)
        BY <2>1, <2>2, ConcatProperties
    <2> QED BY <2>3
<1>3. 0 .. n \subseteq B
    <2> HIDE DEF B
    <2> QED BY <1>1, <1>2, UpTo
<1> QED BY <1>3

(* The same pieces.                                                        *)
LEMMA JoinedSame ==
    ASSUME NEW f, NEW g, NEW n \in Nat, \A k \in 1 .. n : f[k] = g[k]
    PROVE  Joined(f, n) = Joined(g, n)
<1>1. [k \in 1 .. n |-> f[k]] = [k \in 1 .. n |-> g[k]]
    OBVIOUS
<1> QED BY <1>1 DEF Joined

(* Empty pieces at the end add nothing.                                    *)
LEMMA JoinedRest ==
    ASSUME NEW X, NEW f, NEW n \in Nat, NEW m \in 0 .. n, Pieces(f, n, X),
           \A k \in m + 1 .. n : f[k] = <<>>
    PROVE  Joined(f, n) = Joined(f, m)
<1> DEFINE B == {i \in 0 .. n : i >= m => Joined(f, i) = Joined(f, m)}
<1>1. 0 \in B
    OBVIOUS
<1>2. ASSUME NEW i \in 1 .. n, i - 1 \in B
      PROVE  i \in B
    <2>1. CASE i <= m
        BY <2>1
    <2>2. CASE i > m
        <3>1. Joined(f, i) = Joined(f, i - 1) \o f[i]
            BY JoinedTurn
        <3>2. f[i] = <<>> /\ i - 1 >= m /\ i - 1 \in 0 .. n
            BY <2>2
        <3>3. Joined(f, i - 1) \in Seq(X)
            <4>1. Pieces(f, i - 1, X) /\ i - 1 \in Nat
                BY DEF Pieces
            <4> QED BY <4>1, JoinedType
        <3>4. Joined(f, i) = Joined(f, i - 1)
            BY <3>1, <3>2, <3>3, EmptyFirst
        <3> QED BY <1>2, <3>2, <3>4
    <2> QED BY <2>1, <2>2
<1>3. 0 .. n \subseteq B
    <2> HIDE DEF B
    <2> QED BY <1>1, <1>2, UpTo
<1> QED BY <1>3


-----------------------------------------------------------------------------
(* The buffer.                                                             *)

LEMMA RoundedUp ==
    ASSUME NEW n \in Nat
    PROVE  Rounded(n) \in Nat /\ n < Rounded(n)
<1> DEFINE q == n \div Block
           r == n % Block
<1>1. Block \in Nat /\ Block > 0
    BY BufferAssumption
<1>2. q \in Nat /\ r \in 0 .. Block - 1 /\ n = Block * q + r
    BY <1>1
<1>3. (q + 1) * Block = Block * q + Block /\ Block * q \in Nat
    BY <1>1, <1>2
<1> QED
    BY <1>1, <1>2, <1>3 DEF Rounded

(* Grow keeps the text, and there is room for what was asked.              *)
LEMMA GrownKeeps ==
    ASSUME NEW e, IsEditor(e), NEW n \in Nat, NEW g \in Grown(e, n)
    PROVE  /\ IsEditor(g)
           /\ g.size = e.size /\ n <= g.allocated
           /\ \A i \in 0 .. e.size - 1 : g.text[i] = e.text[i]
<1>1. CASE n <= e.allocated
    BY <1>1 DEF Grown, IsEditor
<1>2. CASE ~(n <= e.allocated)
    <2>1. g = Editor(GrownWithin(e, n), e.size, Rounded(n))
        BY <1>2 DEF Grown
    <2>a. e.allocated \in Nat /\ e.size \in Nat /\ e.size <= e.allocated
        BY DEF IsEditor
    <2>b. Rounded(n) \in Nat /\ n < Rounded(n)
        BY RoundedUp
    <2>2. Rounded(n) \in Nat /\ n < Rounded(n) /\ e.size < Rounded(n)
        BY <1>2, <2>a, <2>b
    <2>3. /\ g.text = GrownWithin(e, n) /\ g.size = e.size /\ g.allocated = Rounded(n)
        BY <2>1 DEF Editor
    <2>4. \A i \in 0 .. e.size - 1 : i \in 0 .. Rounded(n) - 1 /\ i \in 0 .. e.allocated - 1
        BY <2>2 DEF IsEditor
    <2>5. \A i \in 0 .. Rounded(n) - 1 :
              GrownWithin(e, n)[i] = IF i < e.size THEN e.text[i] ELSE Junk
        BY DEF GrownWithin
    <2>6. \A i \in 0 .. e.size - 1 : g.text[i] = e.text[i]
        BY <2>2, <2>3, <2>4, <2>5 DEF IsEditor
    <2>7. \A i \in 0 .. Rounded(n) - 1 : GrownWithin(e, n)[i] \in Chars \cup {Junk}
        BY <2>5 DEF IsEditor
    <2>8. g.text \in [0 .. g.allocated - 1 -> Chars \cup {Junk}]
        BY <2>3, <2>7 DEF GrownWithin
    <2>9. /\ g.allocated \in Nat /\ g.size \in 0 .. g.allocated /\ n <= g.allocated
          /\ g.size = e.size
        BY <2>a, <2>2, <2>3
    <2>10. \A i \in 0 .. g.size - 1 : g.text[i] \in Chars
        BY <2>6, <2>9 DEF IsEditor
    <2> QED
        BY <2>6, <2>8, <2>9, <2>10 DEF IsEditor
<1> QED
    BY <1>1, <1>2

(* Where the characters of g are in s after a text was put in.             *)
SpreadAs(s, g, o, count, new) ==
    /\ IsEditor(s)
    /\ s.size = g.size + Len(new) - count /\ s.allocated = g.allocated
    /\ \A i \in 0 .. s.size - 1 :
          s.text[i] = IF i < o THEN g.text[i]
                      ELSE IF i < o + Len(new) THEN new[i - o + 1]
                      ELSE g.text[i + count - Len(new)]

LEMMA SpreadPlaces ==
    ASSUME NEW g, IsEditor(g), NEW o \in Nat, NEW count \in Nat, NEW new \in Seq(Chars),
           o + count <= g.size, g.size + Len(new) - count <= g.allocated
    PROVE  SpreadAs(Spread(g, o, count, new), g, o, count, new)
<1> DEFINE s == Spread(g, o, count, new)
           n == g.size - (o + count)
           moved == Moved(g.text, o + Len(new), o + count, n)
           P == 0 .. g.allocated - 1
<1>1. Len(new) \in Nat /\ g.size \in Nat /\ g.allocated \in Nat /\ n \in Nat /\ g.size <= g.allocated
    BY DEF IsEditor
<1>2. DOMAIN g.text = P
    BY DEF IsEditor
<1>3. moved = [i \in P |-> IF o + Len(new) <= i /\ i < o + Len(new) + n
                           THEN g.text[o + count + (i - (o + Len(new)))] ELSE g.text[i]]
    BY <1>2 DEF Moved
<1>4. DOMAIN moved = P
    BY <1>3
<1>5. /\ s.text = [i \in P |-> IF o <= i /\ i < o + Len(new) THEN new[i - o + 1] ELSE moved[i]]
      /\ s.size = g.size + Len(new) - count /\ s.allocated = g.allocated
    BY <1>4 DEF Spread, Written, Editor
<1>6. ASSUME NEW i \in P
      PROVE  s.text[i] \in Chars \cup {Junk}
    <2>1. CASE o <= i /\ i < o + Len(new)
        <3>1. i - o + 1 \in 1 .. Len(new)
            BY <2>1, <1>1
        <3> QED
            BY <3>1, <2>1, <1>5
    <2>2. CASE ~(o <= i /\ i < o + Len(new)) /\ o + Len(new) <= i /\ i < o + Len(new) + n
        <3>1. o + count + (i - (o + Len(new))) \in P
            BY <2>2, <1>1
        <3>2. s.text[i] = g.text[o + count + (i - (o + Len(new)))]
            BY <2>2, <1>5, <1>3
        <3> QED
            BY <3>1, <3>2 DEF IsEditor
    <2>3. CASE ~(o <= i /\ i < o + Len(new)) /\ ~(o + Len(new) <= i /\ i < o + Len(new) + n)
        <3>1. s.text[i] = g.text[i]
            BY <2>3, <1>5, <1>3
        <3> QED
            BY <3>1 DEF IsEditor
    <2> QED
        BY <2>1, <2>2, <2>3
<1>7. ASSUME NEW i \in 0 .. s.size - 1
      PROVE  /\ s.text[i] = IF i < o THEN g.text[i]
                            ELSE IF i < o + Len(new) THEN new[i - o + 1]
                            ELSE g.text[i + count - Len(new)]
             /\ s.text[i] \in Chars
    <2>0. i \in P /\ i < o + Len(new) + n
        BY <1>1, <1>5, SMTT(30)
    <2>1. CASE i < o
        <3>a. ~(o + Len(new) <= i) /\ ~(o <= i) /\ i \in 0 .. g.size - 1
            BY <2>0, <2>1, <1>1
        <3>b. moved[i] = g.text[i]
            BY <3>a, <2>0, <1>3
        <3>1. s.text[i] = g.text[i] /\ i \in 0 .. g.size - 1
            BY <3>a, <3>b, <2>0, <1>5
        <3> QED
            BY <3>1, <2>1 DEF IsEditor
    <2>2. CASE ~(i < o) /\ i < o + Len(new)
        <3>1. i - o + 1 \in 1 .. Len(new) /\ o <= i
            BY <2>0, <2>2, <1>1
        <3>2. s.text[i] = new[i - o + 1]
            BY <2>0, <2>2, <3>1, <1>5
        <3> QED
            BY <3>1, <3>2, <2>2
    <2>3. CASE ~(i < o) /\ ~(i < o + Len(new))
        <3>1. /\ o + count + (i - (o + Len(new))) = i + count - Len(new)
              /\ i + count - Len(new) \in 0 .. g.size - 1
              /\ o + Len(new) <= i
            BY <2>0, <2>3, <1>1, SMTT(30)
        <3>2. s.text[i] = g.text[i + count - Len(new)]
            BY <2>0, <2>3, <3>1, <1>3, <1>5
        <3> QED
            BY <3>1, <3>2, <2>3 DEF IsEditor
    <2> QED
        BY <2>1, <2>2, <2>3
<1>8. s.size \in 0 .. s.allocated
    BY <1>1, <1>5
<1>9. s.text \in [0 .. s.allocated - 1 -> Chars \cup {Junk}]
    BY <1>5, <1>6
<1> QED
    BY <1>1, <1>5, <1>7, <1>8, <1>9 DEF IsEditor, SpreadAs

-----------------------------------------------------------------------------
(* The text, and what a call makes of it.                                  *)

LEMMA ContentIs ==
    ASSUME NEW e, IsEditor(e)
    PROVE  /\ Content(e) \in Seq(Chars) /\ Len(Content(e)) = e.size /\ e.size \in Nat
           /\ \A i \in 1 .. e.size : Content(e)[i] = e.text[i - 1]
<1>1. e.size \in Nat
    BY DEF IsEditor
<1>2. \A i \in 1 .. e.size : e.text[i - 1] \in Chars
    BY <1>1 DEF IsEditor
<1> QED
    BY <1>1, <1>2 DEF Content

LEMMA SameContent ==
    ASSUME NEW e, IsEditor(e), NEW g, IsEditor(g), g.size = e.size,
           \A i \in 0 .. e.size - 1 : g.text[i] = e.text[i]
    PROVE  Content(g) = Content(e)
<1>1. e.size \in Nat
    BY DEF IsEditor
<1>2. \A i \in 1 .. e.size : i - 1 \in 0 .. e.size - 1
    BY <1>1
<1> QED
    BY <1>1, <1>2 DEF Content

(* A call that is allowed to do what it has done.                          *)
Fine(e, c, r) ==
    /\ IsEditor(r.editor)
    /\ r.done \in BOOLEAN
    /\ Edited!Outcome(Content(e), c, Content(r.editor), r.done)

(* How many of the characters a call speaks of there are.                  *)
There(e, c) == IF c.at + c.count <= e.size THEN c.count ELSE e.size - c.at

LEMMA Sums ==
    ASSUME NEW at \in Nat, NEW n \in Nat, NEW more \in Nat, NEW size \in Nat, at + n <= size,
           NEW total \in Nat, total = at + more + (size - (at + n)), NEW i \in 1 .. total
    PROVE  /\ i - 1 \in 0 .. total - 1
           /\ (i - 1 < at) <=> (i <= at)
           /\ (i - 1 < at + more) <=> (i <= at + more)
           /\ (i - 1) - at + 1 = i - at
           /\ i <= at => (i \in 1 .. size /\ i - 1 \in 0 .. size - 1)
           /\ ~(i <= at + more) => /\ (i - 1) + n - more \in 0 .. size - 1
                                  /\ (at + n) + (i - (at + more)) \in 1 .. size
OBVIOUS

Calls == [op : Ops, at : Nat, count : Nat, by : Seq(Chars)]

(* A text that is spliced whatever buffer it is in.                        *)
LEMMA IsSpliced ==
    ASSUME NEW e, IsEditor(e), NEW s, IsEditor(s), NEW c \in Calls, c.at <= e.size,
           s.size = c.at + Len(c.by) + (e.size - (c.at + There(e, c))),
           \A i \in 1 .. s.size :
              s.text[i - 1] = IF i <= c.at THEN e.text[i - 1]
                              ELSE IF i <= c.at + Len(c.by) THEN c.by[i - c.at]
                              ELSE e.text[(i - 1) + There(e, c) - Len(c.by)]
    PROVE  Content(s) = Edited!Spliced(Content(e), c)
<1> DEFINE n == There(e, c)
           more == Len(c.by)
           end == IF c.at + c.count <= Len(Content(e)) THEN c.at + c.count ELSE Len(Content(e))
<1>1. /\ e.size \in Nat /\ more \in Nat /\ Len(Content(e)) = e.size
      /\ \A i \in 1 .. e.size : Content(e)[i] = e.text[i - 1]
      /\ c.at \in Nat /\ c.count \in Nat /\ s.size \in Nat
    BY ContentIs, SMTT(30) DEF Calls, IsEditor
<1>2. n \in Nat /\ c.at + n <= e.size /\ end = c.at + n
    BY <1>1 DEF There
<1>a. /\ s.size = c.at + more + (e.size - (c.at + n))
      /\ \A i \in 1 .. s.size :
            s.text[i - 1] = IF i <= c.at THEN e.text[i - 1]
                            ELSE IF i <= c.at + more THEN c.by[i - c.at]
                            ELSE e.text[(i - 1) + n - more]
    OBVIOUS
<1> HIDE DEF n, more, end
<1>3. ASSUME NEW i \in 1 .. s.size
      PROVE  s.text[i - 1] = IF i <= c.at THEN Content(e)[i]
                             ELSE IF i <= c.at + more THEN c.by[i - c.at]
                             ELSE Content(e)[end + (i - (c.at + more))]
    <2>1. /\ i <= c.at => i \in 1 .. e.size
          /\ ~(i <= c.at + more) => (c.at + n) + (i - (c.at + more)) \in 1 .. e.size
        BY <1>a, <1>1, <1>2, Sums
    <2>2. CASE i <= c.at
        BY <2>1, <2>2, <1>1, <1>a
    <2>3. CASE ~(i <= c.at) /\ i <= c.at + more
        BY <2>3, <1>a
    <2>4. CASE ~(i <= c.at) /\ ~(i <= c.at + more)
        <3> PICK j \in 1 .. e.size : j = (c.at + n) + (i - (c.at + more))
            BY <2>1, <2>4
        <3>1. j - 1 = (i - 1) + n - more
            BY <1>1, <1>2, SMTT(30)
        <3>2. j = end + (i - (c.at + more))
            BY <1>2
        <3>3. Content(e)[j] = e.text[(i - 1) + n - more]
            BY <3>1, <1>1
        <3>4. s.text[i - 1] = e.text[(i - 1) + n - more]
            BY <2>4, <1>a
        <3> QED
            BY <3>2, <3>3, <3>4, <2>4
    <2> QED
        BY <2>2, <2>3, <2>4
<1>4. Content(s) = [i \in 1 .. s.size |-> s.text[i - 1]]
    BY DEF Content
<1>5. Edited!Spliced(Content(e), c) =
        [i \in 1 .. c.at + more + (Len(Content(e)) - end) |->
            IF i <= c.at THEN Content(e)[i]
            ELSE IF i <= c.at + more THEN c.by[i - c.at]
            ELSE Content(e)[end + (i - (c.at + more))]]
    BY DEF Edited!Spliced, end, more
<1>6. s.size = c.at + more + (Len(Content(e)) - end)
    BY <1>1, <1>2, <1>a
<1> QED
    BY <1>3, <1>4, <1>5, <1>6

LEMMA SpreadIsSpliced ==
    ASSUME NEW e, IsEditor(e), NEW g, IsEditor(g), g.size = e.size,
           \A i \in 0 .. e.size - 1 : g.text[i] = e.text[i],
           NEW c \in Calls, c.at <= e.size,
           e.size + Len(c.by) - There(e, c) <= g.allocated
    PROVE  LET s == Spread(g, c.at, There(e, c), c.by)
           IN  IsEditor(s) /\ Content(s) = Edited!Spliced(Content(e), c)
<1> DEFINE s == Spread(g, c.at, There(e, c), c.by)
           n == There(e, c)
           more == Len(c.by)
<1>1. e.size \in Nat /\ more \in Nat /\ c.at \in Nat /\ c.count \in Nat /\ c.by \in Seq(Chars)
    BY DEF Calls, IsEditor
<1>2. n \in Nat /\ c.at + n <= e.size
    BY <1>1 DEF There
<1>3. g.size \in Nat /\ c.at + n <= g.size /\ g.size + more - n <= g.allocated
    BY <1>1, <1>2
<1>4. SpreadAs(s, g, c.at, n, c.by)
    BY <1>1, <1>2, <1>3, SpreadPlaces
<1> HIDE DEF s
<1>5. /\ IsEditor(s)
      /\ s.size = c.at + more + (e.size - (c.at + n)) /\ s.size \in Nat
      /\ \A i \in 0 .. s.size - 1 :
            s.text[i] = IF i < c.at THEN g.text[i]
                        ELSE IF i < c.at + more THEN c.by[i - c.at + 1]
                        ELSE g.text[i + n - more]
    BY <1>1, <1>2, <1>3, <1>4 DEF SpreadAs
<1> HIDE DEF n, more
<1>6. ASSUME NEW i \in 1 .. s.size
      PROVE  s.text[i - 1] = IF i <= c.at THEN e.text[i - 1]
                             ELSE IF i <= c.at + more THEN c.by[i - c.at]
                             ELSE e.text[(i - 1) + n - more]
    <2>1. /\ i - 1 \in 0 .. s.size - 1
          /\ (i - 1 < c.at) <=> (i <= c.at)
          /\ (i - 1 < c.at + more) <=> (i <= c.at + more)
          /\ (i - 1) - c.at + 1 = i - c.at
          /\ i <= c.at => (i \in 1 .. e.size /\ i - 1 \in 0 .. e.size - 1)
          /\ ~(i <= c.at + more) => /\ (i - 1) + n - more \in 0 .. e.size - 1
                                   /\ (c.at + n) + (i - (c.at + more)) \in 1 .. e.size
        BY <1>1, <1>2, <1>5, Sums
    <2>2. CASE i <= c.at
        BY <2>1, <2>2, <1>5
    <2>3. CASE ~(i <= c.at) /\ i <= c.at + more
        BY <2>1, <2>3, <1>5
    <2>4. CASE ~(i <= c.at) /\ ~(i <= c.at + more)
        BY <2>1, <2>4, <1>5
    <2> QED
        BY <2>2, <2>3, <2>4
<1>7. Content(s) = Edited!Spliced(Content(e), c)
    BY <1>5, <1>6, IsSpliced DEF n, more
<1> QED
    BY <1>5, <1>7 DEF s

(* Where there is something for a call to change.                          *)
Inside(e, c) ==
    \/ c.at < e.size
    \/ c.at = e.size /\ c.op \notin {"DeleteChar", "Assign"}

(* A call inside the text that has been done.                              *)
LEMMA DoneFine ==
    ASSUME NEW e, IsEditor(e), NEW s, IsEditor(s), NEW c \in Calls,
           Inside(e, c),
           Content(s) = Edited!Spliced(Content(e), c)
    PROVE  Fine(e, c, Yes(s))
<1>1. ~Edited!Outside(Content(e), c)
    BY ContentIs DEF Edited!Outside, Calls, Inside
<1> QED
    BY <1>1 DEF Fine, Yes, Edited!Outcome

(* A call that was refused for a reason and has left the text alone.       *)
Reason(e, c) ==
    \/ c.at > e.size
    \/ c.at = e.size /\ c.op \in {"DeleteChar", "Assign"}
    \/ c.at + Len(c.by) > e.size
    \/ Len(c.by) > c.count
    \/ c.op \in {"Reserve", "ReplaceAll"}

LEMMA RefusedFine ==
    ASSUME NEW e, IsEditor(e), NEW s, IsEditor(s), NEW c \in Calls, Content(s) = Content(e),
           Reason(e, c)
    PROVE  Fine(e, c, No(s))
<1>1. Edited!Outside(Content(e), c) \/ Edited!Longer(Content(e), c) \/ c.op \in {"Reserve", "ReplaceAll"}
    BY ContentIs DEF Reason, Edited!Outside, Edited!Longer, Calls
<1> QED
    BY <1>1 DEF Fine, No, Edited!Outcome

LEMMA SpreadFine ==
    ASSUME NEW e, IsEditor(e), NEW g, IsEditor(g), g.size = e.size,
           \A i \in 0 .. e.size - 1 : g.text[i] = e.text[i],
           NEW c \in Calls,
           Inside(e, c),
           e.size + Len(c.by) - There(e, c) <= g.allocated
    PROVE  Fine(e, c, Yes(Spread(g, c.at, There(e, c), c.by)))
<1>1. c.at \in Nat /\ c.count \in Nat /\ c.by \in Seq(Chars) /\ e.size \in Nat
    BY DEF Calls, IsEditor
<1>2. c.at <= e.size
    BY <1>1 DEF Inside
<1>3. LET s == Spread(g, c.at, There(e, c), c.by)
      IN  IsEditor(s) /\ Content(s) = Edited!Spliced(Content(e), c)
    BY <1>1, <1>2, SpreadIsSpliced
<1> QED
    BY <1>3, DoneFine

LEMMA WithinFine ==
    ASSUME NEW e, IsEditor(e), NEW c \in Calls,
           Inside(e, c),
           NEW r \in SpreadWithin(e, e.size + Len(c.by) - There(e, c), c.at, There(e, c), c.by)
    PROVE  Fine(e, c, r)
<1> DEFINE n == e.size + Len(c.by) - There(e, c)
<1>1. /\ c.at \in Nat /\ c.count \in Nat /\ Len(c.by) \in Nat
      /\ e.size \in Nat /\ e.allocated \in Nat /\ e.size <= e.allocated
    BY DEF Calls, IsEditor
<1>a. c.at <= e.size
    BY <1>1 DEF Inside
<1>2. There(e, c) \in Nat /\ There(e, c) <= e.size /\ n \in Nat
    BY <1>1, <1>a, SMTT(30) DEF There
<1>3. CASE \E g \in Grown(e, n) : r = Yes(Spread(g, c.at, There(e, c), c.by))
    <2> PICK g \in Grown(e, n) : r = Yes(Spread(g, c.at, There(e, c), c.by))
        BY <1>3
    <2>1. /\ IsEditor(g) /\ g.size = e.size /\ n <= g.allocated
          /\ \A i \in 0 .. e.size - 1 : g.text[i] = e.text[i]
        BY <1>2, GrownKeeps
    <2> QED
        BY <2>1, SpreadFine
<1>4. CASE r \in Ungrown(e, n)
    <2>1. n > e.allocated /\ r = No(e)
        BY <1>4 DEF Ungrown
    <2>2. Len(c.by) > There(e, c)
        BY <2>1, <1>1, <1>2
    <2>3. Reason(e, c)
        BY <2>2, <1>1 DEF There, Reason
    <2> QED
        BY <2>1, <2>3, RefusedFine
<1> QED
    BY <1>3, <1>4 DEF SpreadWithin

-----------------------------------------------------------------------------
(* Each operation, with any arguments.                                     *)

LEMMA AddFine ==
    ASSUME NEW e, IsEditor(e), NEW c \in Calls, c.op \notin {"DeleteChar", "Assign"},
           c.at = e.size, NEW r \in Add(e, c.by)
    PROVE  Fine(e, c, r)
<1>1. e.size \in Nat /\ c.count \in Nat /\ Len(c.by) \in Nat
    BY DEF Calls, IsEditor
<1>2. There(e, c) = 0
    BY <1>1 DEF There
<1>3. e.size + Len(c.by) - There(e, c) = e.size + Len(c.by)
    BY <1>1, <1>2
<1>4. r \in SpreadWithin(e, e.size + Len(c.by) - There(e, c), c.at, There(e, c), c.by)
    BY <1>2, <1>3 DEF Add
<1>5. Inside(e, c)
    BY <1>1 DEF Inside
<1> QED
    BY <1>4, <1>5, WithinFine

LEMMA InsertFine ==
    ASSUME NEW e, IsEditor(e), NEW c \in Calls, c.op = "Insert", c.count = 0,
           NEW r \in Insert(e, c.at, c.by)
    PROVE  Fine(e, c, r)
<1>1. e.size \in Nat /\ c.at \in Nat /\ Len(c.by) \in Nat
    BY DEF Calls, IsEditor
<1>2. CASE c.by = <<>>
    <2>1. r = Yes(e)
        BY <1>2 DEF Insert
    <2> QED
        BY <2>1, <1>2 DEF Fine, Yes, Edited!Outcome
<1>3. CASE c.by # <<>> /\ c.at > e.size
    <2>1. r = No(e)
        BY <1>3 DEF Insert
    <2>2. Reason(e, c)
        BY <1>3 DEF Reason
    <2> QED
        BY <2>1, <2>2, RefusedFine
<1>4. CASE c.by # <<>> /\ ~(c.at > e.size)
    <2>1. There(e, c) = 0
        BY <1>1, <1>4 DEF There
    <2>2. e.size + Len(c.by) - There(e, c) = e.size + Len(c.by)
        BY <1>1, <2>1
    <2>3. r \in SpreadWithin(e, e.size + Len(c.by) - There(e, c), c.at, There(e, c), c.by)
        BY <1>4, <2>1, <2>2 DEF Insert
    <2>4. Inside(e, c)
        BY <1>1, <1>4 DEF Inside
    <2> QED
        BY <2>3, <2>4, WithinFine
<1> QED
    BY <1>2, <1>3, <1>4

LEMMA InsertCharFine ==
    ASSUME NEW e, IsEditor(e), NEW ch \in Chars, NEW c \in Calls,
           c.op = "InsertChar", c.count = 0, c.by = <<ch>>,
           NEW r \in InsertChar(e, c.at, ch)
    PROVE  Fine(e, c, r)
<1>1. e.size \in Nat /\ e.allocated \in Nat /\ c.at \in Nat /\ Len(c.by) = 1
    BY DEF Calls, IsEditor
<1>2. CASE r \in Ungrown(e, e.size + 1)
    <2>1. r = No(e)
        BY <1>2 DEF Ungrown
    <2>2. Reason(e, c)
        BY <1>1 DEF Reason
    <2> QED
        BY <2>1, <2>2, RefusedFine
<1>3. CASE \E g \in Grown(e, e.size + 1) :
              r = IF c.at > e.size THEN No(g) ELSE Yes(Spread(g, c.at, 0, c.by))
    <2> PICK g \in Grown(e, e.size + 1) :
              r = IF c.at > e.size THEN No(g) ELSE Yes(Spread(g, c.at, 0, c.by))
        BY <1>3
    <2>1. /\ IsEditor(g) /\ g.size = e.size /\ e.size + 1 <= g.allocated
          /\ \A i \in 0 .. e.size - 1 : g.text[i] = e.text[i]
        BY <1>1, GrownKeeps
    <2>2. CASE c.at > e.size
        <3>1. Content(g) = Content(e)
            BY <2>1, SameContent
        <3>2. r = No(g)
            BY <2>2
        <3>3. IsEditor(g) /\ Reason(e, c)
            BY <2>1, <2>2 DEF Reason
        <3> QED
            BY <3>1, <3>2, <3>3, RefusedFine
    <2>3. CASE ~(c.at > e.size)
        <3>1. There(e, c) = 0
            BY <1>1, <2>3 DEF There
        <3>2. e.size + Len(c.by) - There(e, c) <= g.allocated
            BY <1>1, <2>1, <3>1
        <3>3. Inside(e, c)
            BY <1>1, <2>3 DEF Inside
        <3>4. r = Yes(Spread(g, c.at, There(e, c), c.by))
            BY <2>3, <3>1
        <3> QED
            BY <2>1, <3>2, <3>3, <3>4, SpreadFine
    <2> QED
        BY <2>2, <2>3
<1> QED
    BY <1>2, <1>3 DEF InsertChar

(* A text cut off at k, and what is put in its place.                      *)
Cut(e, k) == Editor(e.text, k, e.allocated)

LEMMA CutKeeps ==
    ASSUME NEW e, IsEditor(e), NEW k \in Nat, k <= e.size
    PROVE  /\ IsEditor(Cut(e, k)) /\ Cut(e, k).size = k /\ Cut(e, k).allocated = e.allocated
           /\ \A i \in 0 .. k - 1 : Cut(e, k).text[i] = e.text[i]
           /\ Content(Cut(e, k)) = SubSeq(Content(e), 1, k)
<1>1. e.size \in Nat /\ e.allocated \in Nat /\ e.size <= e.allocated
    BY DEF IsEditor
<1>2. Cut(e, k).text = e.text /\ Cut(e, k).size = k /\ Cut(e, k).allocated = e.allocated
    BY DEF Cut, Editor
<1>3. \A i \in 0 .. k - 1 : i \in 0 .. e.size - 1
    BY <1>1
<1>4. IsEditor(Cut(e, k))
    BY <1>1, <1>2, <1>3 DEF IsEditor
<1>5. Content(Cut(e, k)) = [i \in 1 .. k |-> e.text[i - 1]]
    BY <1>2 DEF Content
<1>6. /\ Content(e) \in Seq(Chars) /\ Len(Content(e)) = e.size
      /\ \A i \in 1 .. e.size : Content(e)[i] = e.text[i - 1]
    BY ContentIs
<1>7. SubSeq(Content(e), 1, k) = [i \in 1 .. k |-> Content(e)[i]]
    BY <1>1, <1>6
<1>8. \A i \in 1 .. k : Content(e)[i] = e.text[i - 1]
    BY <1>1, <1>6
<1>9. Content(Cut(e, k)) = SubSeq(Content(e), 1, k)
    BY <1>5, <1>7, <1>8
<1> QED
    BY <1>2, <1>4, <1>9

LEMMA CutFine ==
    ASSUME NEW e, IsEditor(e), NEW c \in Calls, c.by = <<>>,
           Inside(e, c),
           c.at + c.count >= e.size
    PROVE  Fine(e, c, Yes(Cut(e, c.at)))
<1> DEFINE s == Cut(e, c.at)
<1>1. e.size \in Nat /\ c.at \in Nat /\ c.count \in Nat /\ c.at <= e.size /\ Len(c.by) = 0
    BY DEF IsEditor, Calls, Inside
<1>2. c.at + There(e, c) = e.size /\ There(e, c) \in Nat
    BY <1>1 DEF There
<1>3. IsEditor(s) /\ s.size = c.at /\ \A i \in 0 .. c.at - 1 : s.text[i] = e.text[i]
    BY <1>1, CutKeeps
<1> HIDE DEF s
<1>4. s.size = c.at + Len(c.by) + (e.size - (c.at + There(e, c)))
    BY <1>1, <1>2, <1>3
<1>5. \A i \in 1 .. s.size : i <= c.at /\ s.text[i - 1] = e.text[i - 1]
    BY <1>1, <1>3
<1>6. \A i \in 1 .. s.size :
          s.text[i - 1] = IF i <= c.at THEN e.text[i - 1]
                          ELSE IF i <= c.at + Len(c.by) THEN c.by[i - c.at]
                          ELSE e.text[(i - 1) + There(e, c) - Len(c.by)]
    BY <1>5
<1>7. Content(s) = Edited!Spliced(Content(e), c)
    <2>1. c.at <= e.size /\ IsEditor(s)
        BY <1>1, <1>3
    <2> QED
        BY <2>1, <1>4, <1>6, IsSpliced
<1> QED
    BY <1>3, <1>7, DoneFine DEF s

LEMMA ReplaceFine ==
    ASSUME NEW e, IsEditor(e), NEW c \in Calls, c.op = "Replace",
           NEW r \in Replace(e, c.at, c.count, c.by)
    PROVE  Fine(e, c, r)
<1>1. e.size \in Nat /\ c.at \in Nat /\ c.count \in Nat /\ Len(c.by) \in Nat
    BY DEF IsEditor, Calls
<1>2. CASE c.at > e.size
    <2>1. r = No(e)
        BY <1>2 DEF Replace
    <2>2. Reason(e, c)
        BY <1>1, <1>2 DEF Reason
    <2> QED
        BY <2>1, <2>2, RefusedFine
<1>3. CASE ~(c.at > e.size) /\ c.at + c.count >= e.size
    (* The text is cut, and the new text added to what is left. *)
    <2> DEFINE k == Cut(e, c.at)
               n == c.at + Len(c.by)
    <2>1. /\ IsEditor(k) /\ k.size = c.at /\ k.allocated = e.allocated
          /\ \A i \in 0 .. c.at - 1 : k.text[i] = e.text[i]
          /\ Content(k) = SubSeq(Content(e), 1, c.at)
        BY <1>1, <1>3, CutKeeps
    <2>2. c.at + There(e, c) = e.size /\ There(e, c) \in Nat /\ c.at <= e.size
        BY <1>1, <1>3 DEF There
    <2>3. r \in SpreadWithin(k, n, c.at, 0, c.by)
        BY <1>3, <2>1 DEF Replace, Add, Cut
    <2> HIDE DEF k
    <2>4. CASE \E g \in Grown(k, n) : r = Yes(Spread(g, c.at, 0, c.by))
        <3> PICK g \in Grown(k, n) : r = Yes(Spread(g, c.at, 0, c.by))
            BY <2>4
        <3> DEFINE s == Spread(g, c.at, 0, c.by)
        <3>1. /\ IsEditor(g) /\ g.size = c.at /\ n <= g.allocated
              /\ \A i \in 0 .. c.at - 1 : g.text[i] = e.text[i]
            BY <1>1, <2>1, GrownKeeps
        <3>2. c.at + 0 <= g.size /\ g.size + Len(c.by) - 0 <= g.allocated /\ c.by \in Seq(Chars)
            BY <1>1, <3>1 DEF Calls
        <3>3. SpreadAs(s, g, c.at, 0, c.by)
            BY <1>1, <3>1, <3>2, SpreadPlaces
        <3> HIDE DEF s
        <3>4. /\ IsEditor(s) /\ s.size = c.at + Len(c.by)
              /\ \A i \in 0 .. s.size - 1 :
                    s.text[i] = IF i < c.at THEN g.text[i]
                                ELSE IF i < c.at + Len(c.by) THEN c.by[i - c.at + 1]
                                ELSE g.text[i + 0 - Len(c.by)]
            BY <1>1, <3>1, <3>3 DEF SpreadAs
        <3>5. s.size = c.at + Len(c.by) + (e.size - (c.at + There(e, c)))
            BY <1>1, <2>2, <3>4
        <3>6. ASSUME NEW i \in 1 .. s.size
              PROVE  s.text[i - 1] = IF i <= c.at THEN e.text[i - 1]
                                     ELSE IF i <= c.at + Len(c.by) THEN c.by[i - c.at]
                                     ELSE e.text[(i - 1) + There(e, c) - Len(c.by)]
            <4>1. /\ i - 1 \in 0 .. s.size - 1 /\ i <= c.at + Len(c.by) /\ i - 1 < c.at + Len(c.by)
                  /\ (i - 1 < c.at) <=> (i <= c.at)
                  /\ (i - 1) - c.at + 1 = i - c.at
                BY <1>1, <3>4
            <4>2. CASE i <= c.at
                <5>1. i - 1 \in 0 .. c.at - 1
                    BY <4>2, <1>1
                <5>2. s.text[i - 1] = g.text[i - 1]
                    BY <4>1, <4>2, <3>4
                <5> QED
                    BY <5>1, <5>2, <4>2, <3>1
            <4>3. CASE ~(i <= c.at)
                BY <4>1, <4>3, <3>4
            <4> QED
                BY <4>2, <4>3
        <3>7. Content(s) = Edited!Spliced(Content(e), c)
            <4>1. IsEditor(s) /\ c.at <= e.size
                BY <2>2, <3>4
            <4> QED
                BY <4>1, <3>5, <3>6, IsSpliced
        <3>8. Inside(e, c)
            BY <1>1, <2>2 DEF Inside
        <3>9. IsEditor(s)
            BY <3>4
        <3>10. Fine(e, c, Yes(s))
            BY <3>7, <3>8, <3>9, DoneFine
        <3> QED
            BY <3>10 DEF s
    <2>5. CASE r \in Ungrown(k, n)
        <3>1. r = No(k) /\ n > e.allocated
            BY <2>5, <2>1 DEF Ungrown
        <3>2. e.allocated \in Nat /\ e.size <= e.allocated
            BY DEF IsEditor
        <3>3. c.at + Len(c.by) > e.size
            BY <1>1, <3>1, <3>2
        <3>4. Edited!CutsOff(Content(e), c)
            BY <1>1, <1>3, <2>2, <3>3, ContentIs DEF Edited!CutsOff
        <3> QED
            BY <3>1, <3>4, <2>1 DEF Fine, No, Edited!Outcome
    <2> QED
        BY <2>3, <2>4, <2>5 DEF SpreadWithin
<1>4. CASE ~(c.at > e.size) /\ ~(c.at + c.count >= e.size)
    <2>1. There(e, c) = c.count /\ c.at < e.size
        BY <1>1, <1>4 DEF There
    <2>2. CASE Len(c.by) > c.count
        <3>1. r \in SpreadWithin(e, e.size + Len(c.by) - There(e, c), c.at, There(e, c), c.by)
            BY <1>4, <2>1, <2>2 DEF Replace
        <3>2. Inside(e, c)
            BY <2>1 DEF Inside
        <3> QED
            BY <3>1, <3>2, WithinFine
    <2>3. CASE ~(Len(c.by) > c.count)
        <3>1. r = Yes(Spread(e, c.at, There(e, c), c.by))
            BY <1>4, <2>1, <2>3 DEF Replace
        <3>2. e.size + Len(c.by) - There(e, c) <= e.allocated
            BY <1>1, <2>1, <2>3 DEF IsEditor
        <3>3. Inside(e, c)
            BY <2>1 DEF Inside
        <3> QED
            BY <3>1, <3>2, <3>3, SpreadFine
    <2> QED
        BY <2>2, <2>3
<1> QED
    BY <1>2, <1>3, <1>4

LEMMA DeleteCharFine ==
    ASSUME NEW e, IsEditor(e), NEW c \in Calls, c.op = "DeleteChar", c.count = 1, c.by = <<>>,
           NEW r \in DeleteChar(e, c.at)
    PROVE  Fine(e, c, r)
<1>1. e.size \in Nat /\ c.at \in Nat /\ Len(c.by) = 0 /\ e.size <= e.allocated
    BY DEF IsEditor, Calls
<1>2. CASE c.at >= e.size
    <2>1. r = No(e)
        BY <1>2 DEF DeleteChar
    <2>2. Reason(e, c)
        BY <1>1, <1>2 DEF Reason
    <2> QED
        BY <2>1, <2>2, RefusedFine
<1>3. CASE ~(c.at >= e.size)
    <2>1. There(e, c) = 1 /\ c.at < e.size
        BY <1>1, <1>3 DEF There
    <2>2. r = Yes(Spread(e, c.at, There(e, c), c.by))
        BY <1>3, <2>1 DEF DeleteChar
    <2>3. e.size + Len(c.by) - There(e, c) <= e.allocated
        BY <1>1, <2>1 DEF IsEditor
    <2>4. Inside(e, c)
        BY <2>1 DEF Inside
    <2> QED
        BY <2>2, <2>3, <2>4, SpreadFine
<1> QED
    BY <1>2, <1>3

LEMMA DeleteFine ==
    ASSUME NEW e, IsEditor(e), NEW c \in Calls, c.op = "Delete", c.by = <<>>,
           NEW r \in Delete(e, c.at, c.count)
    PROVE  Fine(e, c, r)
<1>1. /\ e.size \in Nat /\ c.at \in Nat /\ c.count \in Nat /\ Len(c.by) = 0
      /\ e.size <= e.allocated
    BY DEF IsEditor, Calls
<1>2. CASE c.at > e.size
    <2>1. r = No(e)
        BY <1>2 DEF Delete
    <2>2. Reason(e, c)
        BY <1>1, <1>2 DEF Reason
    <2> QED
        BY <2>1, <2>2, RefusedFine
<1>3. CASE ~(c.at > e.size) /\ c.at + c.count >= e.size
    <2>1. r = Yes(Cut(e, c.at))
        BY <1>3 DEF Delete, Cut
    <2>2. Inside(e, c)
        BY <1>1, <1>3 DEF Inside
    <2> QED
        BY <1>3, <2>1, <2>2, CutFine
<1>4. CASE ~(c.at > e.size) /\ ~(c.at + c.count >= e.size)
    <2>1. There(e, c) = c.count /\ c.at < e.size
        BY <1>1, <1>4 DEF There
    <2>2. r = Yes(Spread(e, c.at, There(e, c), c.by))
        BY <1>4, <2>1 DEF Delete
    <2>3. e.size + Len(c.by) - There(e, c) <= e.allocated
        BY <1>1, <2>1 DEF IsEditor
    <2>4. Inside(e, c)
        BY <2>1 DEF Inside
    <2> QED
        BY <2>2, <2>3, <2>4, SpreadFine
<1> QED
    BY <1>2, <1>3, <1>4

(* Where the characters of g are in s after a text was written over them.  *)
WrittenAs(s, g, o, new, n) ==
    /\ IsEditor(s) /\ s.size = n
    /\ \A i \in 1 .. n :
          s.text[i - 1] = IF o < i /\ i <= o + Len(new) THEN new[i - o] ELSE g.text[i - 1]

LEMMA WrittenIs ==
    ASSUME NEW g, IsEditor(g), NEW o \in Nat, NEW new \in Seq(Chars), NEW n \in Nat,
           o + Len(new) <= n, n <= g.allocated,
           \A i \in 0 .. n - 1 : (i < o \/ o + Len(new) <= i) => g.text[i] \in Chars
    PROVE  WrittenAs(Editor(Written(g.text, o, new), n, g.allocated), g, o, new, n)
<1> DEFINE s == Editor(Written(g.text, o, new), n, g.allocated)
           P == 0 .. g.allocated - 1
<1>1. Len(new) \in Nat /\ g.allocated \in Nat /\ g.text \in [P -> Chars \cup {Junk}]
    BY DEF IsEditor
<1>2. /\ s.text = [i \in P |-> IF o <= i /\ i < o + Len(new) THEN new[i - o + 1] ELSE g.text[i]]
      /\ s.size = n /\ s.allocated = g.allocated
    BY <1>1 DEF Written, Editor
<1> HIDE DEF s
<1>3. ASSUME NEW i \in P
      PROVE  /\ s.text[i] \in Chars \cup {Junk}
             /\ i < n => s.text[i] \in Chars
    <2>1. CASE o <= i /\ i < o + Len(new)
        <3>1. i - o + 1 \in 1 .. Len(new) /\ s.text[i] = new[i - o + 1]
            BY <2>1, <1>1, <1>2
        <3> QED
            BY <3>1
    <2>2. CASE ~(o <= i /\ i < o + Len(new))
        <3>1. s.text[i] = g.text[i] /\ (i < o \/ o + Len(new) <= i)
            BY <2>2, <1>1, <1>2
        <3>2. i < n => i \in 0 .. n - 1
            BY <1>1
        <3> QED
            BY <3>1, <3>2, <1>1
    <2> QED
        BY <2>1, <2>2
<1>4. \A i \in 0 .. n - 1 : i \in P /\ i < n
    BY <1>1
<1>5. s.text \in [0 .. s.allocated - 1 -> Chars \cup {Junk}]
    BY <1>2, <1>3
<1>6. IsEditor(s)
    BY <1>1, <1>2, <1>3, <1>4, <1>5 DEF IsEditor
<1>7. ASSUME NEW i \in 1 .. n
      PROVE  s.text[i - 1] = IF o < i /\ i <= o + Len(new) THEN new[i - o] ELSE g.text[i - 1]
    <2>1. /\ i - 1 \in P /\ (i - 1) - o + 1 = i - o
          /\ (o <= i - 1) <=> (o < i)
          /\ (i - 1 < o + Len(new)) <=> (i <= o + Len(new))
        BY <1>1
    <2> QED
        BY <2>1, <1>2
<1> QED
    BY <1>2, <1>6, <1>7 DEF s, WrittenAs

LEMMA SetFine ==
    ASSUME NEW e, IsEditor(e), NEW c \in Calls, c.op = "Set", c.at = 0, c.count = e.size,
           NEW r \in Set(e, c.by)
    PROVE  Fine(e, c, r)
<1> DEFINE n == Len(c.by)
<1>1. /\ e.size \in Nat /\ e.allocated \in Nat /\ e.size <= e.allocated
      /\ n \in Nat /\ c.by \in Seq(Chars) /\ There(e, c) = e.size
    BY DEF IsEditor, Calls, There
<1>2. CASE \E g \in Grown(e, n) : r = Yes(Editor(Written(g.text, 0, c.by), n, g.allocated))
    <2> PICK g \in Grown(e, n) : r = Yes(Editor(Written(g.text, 0, c.by), n, g.allocated))
        BY <1>2
    <2> DEFINE s == Editor(Written(g.text, 0, c.by), n, g.allocated)
    <2>1. IsEditor(g) /\ n <= g.allocated
        BY <1>1, GrownKeeps
    <2>2. 0 + Len(c.by) <= n /\ \A i \in 0 .. n - 1 : (i < 0 \/ 0 + Len(c.by) <= i) => g.text[i] \in Chars
        BY <1>1
    <2>3. /\ IsEditor(s) /\ s.size = n
          /\ \A i \in 1 .. n :
                s.text[i - 1] = IF 0 < i /\ i <= 0 + Len(c.by) THEN c.by[i - 0] ELSE g.text[i - 1]
        BY <1>1, <2>1, <2>2, WrittenIs DEF WrittenAs
    <2> HIDE DEF s
    <2>4. s.size = c.at + Len(c.by) + (e.size - (c.at + There(e, c)))
        BY <1>1, <2>3
    <2>5. \A i \in 1 .. s.size :
              s.text[i - 1] = IF i <= c.at THEN e.text[i - 1]
                              ELSE IF i <= c.at + Len(c.by) THEN c.by[i - c.at]
                              ELSE e.text[(i - 1) + There(e, c) - Len(c.by)]
        BY <1>1, <2>3
    <2>6. Content(s) = Edited!Spliced(Content(e), c)
        <3>1. c.at <= e.size /\ IsEditor(s)
            BY <1>1, <2>3
        <3> QED
            BY <3>1, <2>4, <2>5, IsSpliced
    <2>7. Inside(e, c)
        BY <1>1 DEF Inside
    <2>8. IsEditor(s)
        BY <2>3
    <2>9. Fine(e, c, Yes(s))
        BY <2>6, <2>7, <2>8, DoneFine
    <2> QED
        BY <2>9 DEF s
<1>3. CASE r \in Ungrown(e, n)
    <2>1. r = No(e) /\ n > e.allocated
        BY <1>3 DEF Ungrown
    <2>2. Reason(e, c)
        BY <1>1, <2>1 DEF Reason
    <2> QED
        BY <2>1, <2>2, RefusedFine
<1> QED
    BY <1>2, <1>3 DEF Set

LEMMA ReserveFine ==
    ASSUME NEW e, IsEditor(e), NEW n \in Nat, NEW c \in Calls,
           c.op = "Reserve", c.at = 0, c.count = 0, c.by = <<>>,
           NEW r \in Reserve(e, n)
    PROVE  Fine(e, c, r)
<1>1. e.size \in Nat /\ Len(c.by) = 0 /\ There(e, c) = 0
    BY DEF IsEditor, There
<1>2. CASE \E g \in Grown(e, n) : r = Yes(g)
    <2> PICK g \in Grown(e, n) : r = Yes(g)
        BY <1>2
    <2>1. IsEditor(g) /\ g.size = e.size /\ \A i \in 0 .. e.size - 1 : g.text[i] = e.text[i]
        BY GrownKeeps
    <2>2. g.size = c.at + Len(c.by) + (e.size - (c.at + There(e, c)))
        BY <1>1, <2>1
    <2>3. \A i \in 1 .. g.size :
              g.text[i - 1] = IF i <= c.at THEN e.text[i - 1]
                              ELSE IF i <= c.at + Len(c.by) THEN c.by[i - c.at]
                              ELSE e.text[(i - 1) + There(e, c) - Len(c.by)]
        <3>1. \A i \in 1 .. g.size :
                  /\ i - 1 \in 0 .. e.size - 1 /\ ~(i <= c.at) /\ ~(i <= c.at + Len(c.by))
                  /\ (i - 1) + There(e, c) - Len(c.by) = i - 1
            BY <1>1, <2>1
        <3> QED
            BY <3>1, <2>1
    <2>4. c.at <= e.size /\ IsEditor(g)
        BY <1>1, <2>1
    <2>5. Content(g) = Edited!Spliced(Content(e), c)
        BY <2>2, <2>3, <2>4, IsSpliced
    <2>6. Inside(e, c)
        BY <1>1 DEF Inside
    <2> QED
        BY <2>4, <2>5, <2>6, DoneFine
<1>3. CASE r \in Ungrown(e, n)
    <2>1. r = No(e)
        BY <1>3 DEF Ungrown
    <2>2. Reason(e, c)
        BY DEF Reason
    <2> QED
        BY <2>1, <2>2, RefusedFine
<1> QED
    BY <1>2, <1>3 DEF Reserve

LEMMA AssignFine ==
    ASSUME NEW e, IsEditor(e), NEW ch \in Chars, NEW c \in Calls,
           c.op = "Assign", c.count = 1, c.by = <<ch>>,
           NEW r \in Assign(e, c.at, ch)
    PROVE  Fine(e, c, r)
<1>1. /\ e.size \in Nat /\ e.allocated \in Nat /\ e.size <= e.allocated
      /\ c.at \in Nat /\ Len(c.by) = 1 /\ c.by \in Seq(Chars)
    BY DEF IsEditor, Calls
<1>2. CASE c.at < e.size
    <2> DEFINE s == Editor(Written(e.text, c.at, c.by), e.size, e.allocated)
    <2>1. There(e, c) = 1
        BY <1>1, <1>2 DEF There
    <2>2. /\ c.at + Len(c.by) <= e.size
          /\ \A i \in 0 .. e.size - 1 : (i < c.at \/ c.at + Len(c.by) <= i) => e.text[i] \in Chars
        BY <1>1, <1>2 DEF IsEditor
    <2>a. WrittenAs(s, e, c.at, c.by, e.size)
        BY <1>1, <2>2, WrittenIs
    <2> HIDE DEF s
    <2>3. /\ IsEditor(s) /\ s.size = e.size
          /\ \A i \in 1 .. e.size :
                s.text[i - 1] = IF c.at < i /\ i <= c.at + Len(c.by) THEN c.by[i - c.at]
                                ELSE e.text[i - 1]
        BY <2>a DEF WrittenAs
    <2>4. s.size = c.at + Len(c.by) + (e.size - (c.at + There(e, c)))
        BY <1>1, <2>1, <2>3
    <2>5. \A i \in 1 .. s.size :
              s.text[i - 1] = IF i <= c.at THEN e.text[i - 1]
                              ELSE IF i <= c.at + Len(c.by) THEN c.by[i - c.at]
                              ELSE e.text[(i - 1) + There(e, c) - Len(c.by)]
        <3>1. \A i \in 1 .. s.size :
                  (i - 1) + There(e, c) - Len(c.by) = i - 1 /\ (c.at < i <=> ~(i <= c.at))
            BY <1>1, <2>1, <2>3
        <3> QED
            BY <3>1, <2>3
    <2>6. c.at <= e.size /\ IsEditor(s)
        BY <1>1, <1>2, <2>3
    <2>7. Content(s) = Edited!Spliced(Content(e), c)
        BY <2>4, <2>5, <2>6, IsSpliced
    <2>8. Inside(e, c)
        BY <1>2 DEF Inside
    <2>9. Fine(e, c, Yes(s))
        BY <2>6, <2>7, <2>8, DoneFine
    <2>10. r = Yes(Editor(Written(e.text, c.at, c.by), e.size, e.allocated))
        BY <1>2 DEF Assign
    <2> QED
        BY <2>9, <2>10 DEF s
<1>3. CASE ~(c.at < e.size)
    <2>1. r = No(e)
        BY <1>3 DEF Assign
    <2>2. Reason(e, c)
        BY <1>1, <1>3 DEF Reason
    <2> QED
        BY <2>1, <2>2, RefusedFine
<1> QED
    BY <1>2, <1>3

LEMMA CloneKeeps ==
    ASSUME NEW e, IsEditor(e)
    PROVE  IsEditor(Clone(e)) /\ Content(Clone(e)) = Content(e)
<1> DEFINE s == Clone(e)
<1>1. e.size \in Nat /\ \A i \in 0 .. e.size - 1 : e.text[i] \in Chars
    BY DEF IsEditor
<1>2. /\ s.text = [i \in 0 .. e.size - 1 |-> e.text[i]]
      /\ s.size = e.size /\ s.allocated = e.size
    BY DEF Clone, Editor
<1> HIDE DEF s
<1>3. \A i \in 0 .. e.size - 1 : s.text[i] = e.text[i] /\ s.text[i] \in Chars
    BY <1>1, <1>2
<1>4. s.text \in [0 .. s.allocated - 1 -> Chars \cup {Junk}]
    BY <1>1, <1>2
<1>5. IsEditor(s)
    BY <1>1, <1>2, <1>3, <1>4 DEF IsEditor
<1>6. Content(s) = Content(e)
    BY <1>2, <1>3, <1>5, SameContent
<1> QED
    BY <1>5, <1>6 DEF s

LEMMA ResizeFine ==
    ASSUME NEW e, IsEditor(e), NEW n \in Nat, NEW ch \in Chars, NEW c \in Calls, c.op = "Resize",
           NEW r \in Resize(e, n, ch),
           IF n <= e.size THEN c.at = n /\ c.count = e.size - n /\ c.by = <<>>
           ELSE c.at = e.size /\ c.count = 0 /\ c.by = Filled(n - e.size, ch)
    PROVE  Fine(e, c, r)
<1>1. e.size \in Nat
    BY DEF IsEditor
<1>2. CASE n <= e.size
    <2>1. r = Yes(Cut(e, c.at)) /\ c.by = <<>> /\ c.at + c.count >= e.size
        BY <1>1, <1>2 DEF Resize, Cut
    <2>2. Inside(e, c)
        BY <1>1, <1>2 DEF Inside
    <2> QED
        BY <2>1, <2>2, CutFine
<1>3. CASE ~(n <= e.size)
    <2>1. Len(c.by) = n - e.size
        BY <1>1, <1>3 DEF Filled
    <2>2. There(e, c) = 0
        BY <1>1, <1>3 DEF There
    <2>3. e.size + Len(c.by) - There(e, c) = n
        BY <1>1, <1>3, <2>1, <2>2
    <2>4. r \in SpreadWithin(e, e.size + Len(c.by) - There(e, c), c.at, There(e, c), c.by)
        BY <1>3, <2>2, <2>3 DEF Resize
    <2>5. Inside(e, c)
        BY <1>3 DEF Inside
    <2> QED
        BY <2>4, <2>5, WithinFine
<1> QED
    BY <1>2, <1>3

LEMMA ClearFine ==
    ASSUME NEW e, IsEditor(e), NEW c \in Calls, c.op = "Clear",
           c.at = 0, c.count = e.size, c.by = <<>>, NEW r \in Clear(e)
    PROVE  Fine(e, c, r)
<1>1. e.size \in Nat
    BY DEF IsEditor
<1>2. r = Yes(Cut(e, c.at)) /\ c.at + c.count >= e.size
    BY <1>1 DEF Clear, Cut
<1>3. Inside(e, c)
    BY <1>1 DEF Inside
<1> QED
    BY <1>2, <1>3, CutFine

LEMMA FirstIs ==
    ASSUME NEW places \in SUBSET Nat, places # {}
    PROVE  First(places) \in places /\ \A other \in places : First(places) <= other
<1>1. PICK q \in places : \A other \in places : ~(<<other, q>> \in OpToRel(<, Nat))
    BY NatLessThanWellFounded, WFMin
<1>2. ASSUME NEW other \in places
      PROVE  q <= other
    <2>1. <<other, q>> \in Nat \X Nat /\ <<other, q>> \notin {ss \in Nat \X Nat : ss[1] < ss[2]}
        BY <1>1 DEF OpToRel
    <2> QED
        BY <2>1
<1> QED
    BY <1>2 DEF First

-----------------------------------------------------------------------------
(* The steps.                                                              *)

(* A call that was made, and what the text without a buffer says of it.    *)
Done ==
    /\ IsEditor(editor')
    /\ asked' \in Calls
    /\ answer' \in BOOLEAN
    /\ Edited!Outcome(Content(editor), asked', Content(editor'), answer')

LEMMA CallDone ==
    ASSUME NEW op, NEW at, NEW count, NEW by, NEW outcomes,
           [op |-> op, at |-> at, count |-> count, by |-> by] \in Calls,
           \A r \in outcomes :
              Fine(editor, [op |-> op, at |-> at, count |-> count, by |-> by], r),
           Call(op, at, count, by, outcomes)
    PROVE  Done
<1> PICK r \in outcomes : editor' = r.editor /\ answer' = r.done
    BY DEF Call
<1>1. asked' = [op |-> op, at |-> at, count |-> count, by |-> by]
    BY DEF Call
<1> HIDE DEF Call
<1> QED
    BY <1>1 DEF Fine, Done

LEMMA ReplaceDone ==
    ASSUME IsEditor(editor), NEW at \in Nat, NEW count \in Nat, NEW by \in Seq(Chars),
           Call("Replace", at, count, by, Replace(editor, at, count, by))
    PROVE  Done /\ asked' = [op |-> "Replace", at |-> at, count |-> count, by |-> by]
<1> DEFINE c == [op |-> "Replace", at |-> at, count |-> count, by |-> by]
<1>1. c \in Calls /\ c.op = "Replace" /\ c.at = at /\ c.count = count /\ c.by = by
    BY DEF Calls, Ops
<1>2. \A r \in Replace(editor, at, count, by) : Fine(editor, c, r)
    <2> HIDE DEF c
    <2> QED
        BY <1>1, ReplaceFine
<1>3. Done
    BY <1>1, <1>2, CallDone
<1>4. asked' = c
    BY DEF Call
<1> QED
    BY <1>3, <1>4

LEMMA DeleteDone ==
    ASSUME IsEditor(editor), NEW at \in Nat, NEW count \in Nat,
           Call("Delete", at, count, <<>>, Delete(editor, at, count))
    PROVE  Done /\ asked' = [op |-> "Delete", at |-> at, count |-> count, by |-> <<>>]
<1> DEFINE c == [op |-> "Delete", at |-> at, count |-> count, by |-> <<>>]
<1>1. c \in Calls /\ c.op = "Delete" /\ c.at = at /\ c.count = count /\ c.by = <<>>
    BY DEF Calls, Ops
<1>2. \A r \in Delete(editor, at, count) : Fine(editor, c, r)
    <2> HIDE DEF c
    <2> QED
        BY <1>1, DeleteFine
<1>3. Done
    BY <1>1, <1>2, CallDone
<1>4. asked' = c
    BY DEF Call
<1> QED
    BY <1>3, <1>4

(* What a plugin's call leaves alone.                                      *)
Still == stage = "editing" /\ UNCHANGED <<stage, tokens, job>>

LEMMA EditingDone ==
    ASSUME IsEditor(editor), Editing
    PROVE  Done /\ Still
<1>1. /\ IsEditor(editor) /\ editor.size \in Nat
      /\ Inserts \subseteq Seq(Chars) /\ Typed \subseteq Chars /\ Counts \subseteq Nat
      /\ \A ch \in Typed : <<ch>> \in Seq(Chars)
      /\ <<>> \in Seq(Chars)
    BY TextsAssumption DEF IsEditor
<1>2. CASE \E at \in Places, new \in Inserts : Edit("Insert", at, 0, new, Insert(editor, at, new))
    <2>0. PICK at \in Places, new \in Inserts : Edit("Insert", at, 0, new, Insert(editor, at, new))
        BY <1>2
    <2> DEFINE c == [op |-> "Insert", at |-> at, count |-> 0, by |-> new]
    <2>1. Call("Insert", at, 0, new, Insert(editor, at, new)) /\ Still
        BY <2>0 DEF Edit, Still
    <2>2. c \in Calls /\ c.op = "Insert" /\ c.at = at /\ c.count = 0 /\ c.by = new
        BY <1>1 DEF Calls, Ops, Places
    <2>3. \A r \in Insert(editor, at, new) : Fine(editor, c, r)
        <3> HIDE DEF c
        <3> QED
            BY <1>1, <2>2, InsertFine
    <2>4. Done
        BY <2>1, <2>2, <2>3, CallDone
    <2> QED
        BY <2>1, <2>4
<1>3. CASE \E at \in Places, new \in Inserts, count \in Counts :
          Edit("Replace", at, count, new, Replace(editor, at, count, new))
    <2>0. PICK at \in Places, new \in Inserts, count \in Counts :
              Edit("Replace", at, count, new, Replace(editor, at, count, new))
        BY <1>3
    <2> DEFINE c == [op |-> "Replace", at |-> at, count |-> count, by |-> new]
    <2>1. Call("Replace", at, count, new, Replace(editor, at, count, new)) /\ Still
        BY <2>0 DEF Edit, Still
    <2>2. c \in Calls /\ c.op = "Replace" /\ c.at = at /\ c.count = count /\ c.by = new
        BY <1>1 DEF Calls, Ops, Places
    <2>3. \A r \in Replace(editor, at, count, new) : Fine(editor, c, r)
        <3> HIDE DEF c
        <3> QED
            BY <1>1, <2>2, ReplaceFine
    <2>4. Done
        BY <2>1, <2>2, <2>3, CallDone
    <2> QED
        BY <2>1, <2>4
<1>4. CASE \E at \in Places, ch \in Typed :
          Edit("InsertChar", at, 0, <<ch>>, InsertChar(editor, at, ch))
    <2>0. PICK at \in Places, ch \in Typed :
              Edit("InsertChar", at, 0, <<ch>>, InsertChar(editor, at, ch))
        BY <1>4
    <2> DEFINE c == [op |-> "InsertChar", at |-> at, count |-> 0, by |-> <<ch>>]
    <2>1. Call("InsertChar", at, 0, <<ch>>, InsertChar(editor, at, ch)) /\ Still
        BY <2>0 DEF Edit, Still
    <2>2. c \in Calls /\ c.op = "InsertChar" /\ c.at = at /\ c.count = 0 /\ c.by = <<ch>>
        BY <1>1 DEF Calls, Ops, Places
    <2>3. \A r \in InsertChar(editor, at, ch) : Fine(editor, c, r)
        <3> HIDE DEF c
        <3> QED
            BY <1>1, <2>2, InsertCharFine
    <2>4. Done
        BY <2>1, <2>2, <2>3, CallDone
    <2> QED
        BY <2>1, <2>4
<1>5. CASE \E at \in Places, ch \in Typed : Edit("Assign", at, 1, <<ch>>, Assign(editor, at, ch))
    <2>0. PICK at \in Places, ch \in Typed : Edit("Assign", at, 1, <<ch>>, Assign(editor, at, ch))
        BY <1>5
    <2> DEFINE c == [op |-> "Assign", at |-> at, count |-> 1, by |-> <<ch>>]
    <2>1. Call("Assign", at, 1, <<ch>>, Assign(editor, at, ch)) /\ Still
        BY <2>0 DEF Edit, Still
    <2>2. c \in Calls /\ c.op = "Assign" /\ c.at = at /\ c.count = 1 /\ c.by = <<ch>>
        BY <1>1 DEF Calls, Ops, Places
    <2>3. \A r \in Assign(editor, at, ch) : Fine(editor, c, r)
        <3> HIDE DEF c
        <3> QED
            BY <1>1, <2>2, AssignFine
    <2>4. Done
        BY <2>1, <2>2, <2>3, CallDone
    <2> QED
        BY <2>1, <2>4
<1>6. CASE \E at \in Places : Edit("DeleteChar", at, 1, <<>>, DeleteChar(editor, at))
    <2>0. PICK at \in Places : Edit("DeleteChar", at, 1, <<>>, DeleteChar(editor, at))
        BY <1>6
    <2> DEFINE c == [op |-> "DeleteChar", at |-> at, count |-> 1, by |-> <<>>]
    <2>1. Call("DeleteChar", at, 1, <<>>, DeleteChar(editor, at)) /\ Still
        BY <2>0 DEF Edit, Still
    <2>2. c \in Calls /\ c.op = "DeleteChar" /\ c.at = at /\ c.count = 1 /\ c.by = <<>>
        BY <1>1 DEF Calls, Ops, Places
    <2>3. \A r \in DeleteChar(editor, at) : Fine(editor, c, r)
        <3> HIDE DEF c
        <3> QED
            BY <1>1, <2>2, DeleteCharFine
    <2>4. Done
        BY <2>1, <2>2, <2>3, CallDone
    <2> QED
        BY <2>1, <2>4
<1>7. CASE \E at \in Places, count \in Counts :
          Edit("Delete", at, count, <<>>, Delete(editor, at, count))
    <2>0. PICK at \in Places, count \in Counts :
              Edit("Delete", at, count, <<>>, Delete(editor, at, count))
        BY <1>7
    <2> DEFINE c == [op |-> "Delete", at |-> at, count |-> count, by |-> <<>>]
    <2>1. Call("Delete", at, count, <<>>, Delete(editor, at, count)) /\ Still
        BY <2>0 DEF Edit, Still
    <2>2. c \in Calls /\ c.op = "Delete" /\ c.at = at /\ c.count = count /\ c.by = <<>>
        BY <1>1 DEF Calls, Ops, Places
    <2>3. \A r \in Delete(editor, at, count) : Fine(editor, c, r)
        <3> HIDE DEF c
        <3> QED
            BY <1>1, <2>2, DeleteFine
    <2>4. Done
        BY <2>1, <2>2, <2>3, CallDone
    <2> QED
        BY <2>1, <2>4
<1>8. CASE \E new \in Inserts : Edit("Add", Length, 0, new, Add(editor, new))
    <2>0. PICK new \in Inserts : Edit("Add", Length, 0, new, Add(editor, new))
        BY <1>8
    <2> DEFINE c == [op |-> "Add", at |-> Length, count |-> 0, by |-> new]
    <2>1. Call("Add", Length, 0, new, Add(editor, new)) /\ Still
        BY <2>0 DEF Edit, Still
    <2>2. c \in Calls /\ c.op = "Add" /\ c.at = Length /\ c.count = 0 /\ c.by = new
        BY <1>1 DEF Calls, Ops, Length
    <2>3. \A r \in Add(editor, new) : Fine(editor, c, r)
        <3> HIDE DEF c
        <3> QED
            BY <1>1, <2>2, AddFine DEF Length
    <2>4. Done
        BY <2>1, <2>2, <2>3, CallDone
    <2> QED
        BY <2>1, <2>4
<1>9. CASE \E new \in Inserts : Edit("Set", 0, Length, new, Set(editor, new))
    <2>0. PICK new \in Inserts : Edit("Set", 0, Length, new, Set(editor, new))
        BY <1>9
    <2> DEFINE c == [op |-> "Set", at |-> 0, count |-> Length, by |-> new]
    <2>1. Call("Set", 0, Length, new, Set(editor, new)) /\ Still
        BY <2>0 DEF Edit, Still
    <2>2. c \in Calls /\ c.op = "Set" /\ c.at = 0 /\ c.count = Length /\ c.by = new
        BY <1>1 DEF Calls, Ops, Length
    <2>3. \A r \in Set(editor, new) : Fine(editor, c, r)
        <3> HIDE DEF c
        <3> QED
            BY <1>1, <2>2, SetFine DEF Length
    <2>4. Done
        BY <2>1, <2>2, <2>3, CallDone
    <2> QED
        BY <2>1, <2>4
<1>10. CASE \E n \in Counts, ch \in Typed :
          n <= Length /\ Edit("Resize", n, Length - n, <<>>, Resize(editor, n, ch))
    <2>0. PICK n \in Counts, ch \in Typed :
              n <= Length /\ Edit("Resize", n, Length - n, <<>>, Resize(editor, n, ch))
        BY <1>10
    <2> DEFINE c == [op |-> "Resize", at |-> n, count |-> Length - n, by |-> <<>>]
    <2>1. Call("Resize", n, Length - n, <<>>, Resize(editor, n, ch)) /\ Still
        BY <2>0 DEF Edit, Still
    <2>2. c \in Calls /\ c.op = "Resize" /\ c.at = n /\ c.count = Length - n /\ c.by = <<>>
        BY <1>1, <2>0 DEF Calls, Ops, Filled, Length
    <2>3. \A r \in Resize(editor, n, ch) : Fine(editor, c, r)
        <3> HIDE DEF c
        <3> QED
            BY <1>1, <2>2, ResizeFine, <2>0 DEF Length
    <2>4. Done
        BY <2>1, <2>2, <2>3, CallDone
    <2> QED
        BY <2>1, <2>4
<1>11. CASE \E n \in Counts, ch \in Typed :
          n > Length /\ Edit("Resize", Length, 0, Filled(n - Length, ch), Resize(editor, n, ch))
    <2>0. PICK n \in Counts, ch \in Typed :
              n > Length /\ Edit("Resize", Length, 0, Filled(n - Length, ch), Resize(editor, n, ch))
        BY <1>11
    <2> DEFINE c == [op |-> "Resize", at |-> Length, count |-> 0, by |-> Filled(n - Length, ch)]
    <2>1. Call("Resize", Length, 0, Filled(n - Length, ch), Resize(editor, n, ch)) /\ Still
        BY <2>0 DEF Edit, Still
    <2>2. c \in Calls /\ c.op = "Resize" /\ c.at = Length /\ c.count = 0 /\ c.by = Filled(n - Length, ch)
        BY <1>1, <2>0 DEF Calls, Ops, Filled, Length
    <2>3. \A r \in Resize(editor, n, ch) : Fine(editor, c, r)
        <3> HIDE DEF c
        <3> QED
            BY <1>1, <2>2, ResizeFine, <2>0 DEF Length
    <2>4. Done
        BY <2>1, <2>2, <2>3, CallDone
    <2> QED
        BY <2>1, <2>4
<1>12. CASE \E n \in Counts : Edit("Reserve", 0, 0, <<>>, Reserve(editor, n))
    <2>0. PICK n \in Counts : Edit("Reserve", 0, 0, <<>>, Reserve(editor, n))
        BY <1>12
    <2> DEFINE c == [op |-> "Reserve", at |-> 0, count |-> 0, by |-> <<>>]
    <2>1. Call("Reserve", 0, 0, <<>>, Reserve(editor, n)) /\ Still
        BY <2>0 DEF Edit, Still
    <2>2. c \in Calls /\ c.op = "Reserve" /\ c.at = 0 /\ c.count = 0 /\ c.by = <<>>
        BY <1>1 DEF Calls, Ops, Places
    <2>3. \A r \in Reserve(editor, n) : Fine(editor, c, r)
        <3> HIDE DEF c
        <3> QED
            BY <1>1, <2>2, ReserveFine
    <2>4. Done
        BY <2>1, <2>2, <2>3, CallDone
    <2> QED
        BY <2>1, <2>4
<1>13. CASE Edit("Clear", 0, Length, <<>>, Clear(editor))
    <2> DEFINE c == [op |-> "Clear", at |-> 0, count |-> Length, by |-> <<>>]
    <2>1. Call("Clear", 0, Length, <<>>, Clear(editor)) /\ Still
        BY <1>13 DEF Edit, Still
    <2>2. c \in Calls /\ c.op = "Clear" /\ c.at = 0 /\ c.count = Length /\ c.by = <<>>
        BY <1>1 DEF Calls, Ops, Length
    <2>3. \A r \in Clear(editor) : Fine(editor, c, r)
        <3> HIDE DEF c
        <3> QED
            BY <1>1, <2>2, ClearFine DEF Length
    <2>4. Done
        BY <2>1, <2>2, <2>3, CallDone
    <2> QED
        BY <2>1, <2>4
<1> QED
    BY <1>2, <1>3, <1>4, <1>5, <1>6, <1>7, <1>8, <1>9, <1>10, <1>11, <1>12, <1>13 DEF Editing

LEMMA JobIs ==
    /\ NoJob \in JobType
    /\ \A j \in JobType, n \in Nat :
          [j EXCEPT !.next = n] \in JobType /\ [j EXCEPT !.next = n].next = n
<1>1. NoJob \in JobType
    BY DEF NoJob, JobType
<1>2. ASSUME NEW j \in JobType, NEW n \in Nat
      PROVE  [j EXCEPT !.next = n] \in JobType /\ [j EXCEPT !.next = n].next = n
    BY DEF JobType
<1> QED
    BY <1>1, <1>2

LEMMA TokenIs ==
    ASSUME NEW t \in TokenType
    PROVE  /\ [t EXCEPT !.deleted = TRUE] \in TokenType
           /\ \A name \in Seq(Chars) : [t EXCEPT !.value = name] \in TokenType
<1> DEFINE All == [start : Nat, end : Nat, value : Seq(Chars), deleted : BOOLEAN]
<1>1. t \in All /\ t.start < t.end
    BY DEF TokenType
<1>2. /\ [t EXCEPT !.deleted = TRUE] \in All
      /\ [t EXCEPT !.deleted = TRUE].start = t.start /\ [t EXCEPT !.deleted = TRUE].end = t.end
    BY <1>1
<1>3. ASSUME NEW name \in Seq(Chars)
      PROVE  /\ [t EXCEPT !.value = name] \in All
             /\ [t EXCEPT !.value = name].start = t.start /\ [t EXCEPT !.value = name].end = t.end
    BY <1>1
<1> QED
    BY <1>1, <1>2, <1>3 DEF TokenType

(* A step of the model is one of the text without a buffer, or none.       *)
Maps == [Edited!Next]_(Edited!vars)

Working(where) == where \in {"replacing", "rebuilding"}

LEMMA DoneMaps ==
    ASSUME Done, Working(stage') => Working(stage), answer' => Working(stage') = Working(stage)
    PROVE  Maps
BY DEF Done, Maps, Working, Edited!Next, Edited!Edit

LEMMA EditingKeeps ==
    ASSUME TypeOK, Editing
    PROVE  TypeOK' /\ Maps
<1>1. Done /\ Still
    BY EditingDone DEF TypeOK
<1>2. Maps
    BY <1>1, DoneMaps DEF Still
<1>3. TypeOK'
    BY <1>1 DEF TypeOK, Done, Still, Calls
<1> QED
    BY <1>2, <1>3

LEMMA StartKeeps ==
    ASSUME TypeOK, NEW s \in Searches, StartReplaceAll(s.find, s.by)
    PROVE  TypeOK' /\ Maps
<1>1. CASE s.find = <<>> \/ Length = 0
    <2> DEFINE c == [op |-> "ReplaceAll", at |-> 0, count |-> 0, by |-> <<>>]
    <2>1. Call("ReplaceAll", 0, 0, <<>>, {No(editor)}) /\ Still
        BY <1>1 DEF StartReplaceAll, Edit, Still
    <2>2. c \in Calls /\ c.op = "ReplaceAll" /\ IsEditor(editor)
        BY DEF Calls, Ops, TypeOK
    <2>3. \A r \in {No(editor)} : Fine(editor, c, r)
        BY <2>2, RefusedFine DEF Reason
    <2>4. Done
        BY <2>1, <2>2, <2>3, CallDone
    <2>5. Maps
        BY <2>1, <2>4, DoneMaps DEF Still
    <2>6. TypeOK'
        BY <2>1, <2>4 DEF TypeOK, Done, Still, Calls
    <2> QED
        BY <2>5, <2>6
<1>2. CASE ~(s.find = <<>> \/ Length = 0)
    <2>1. /\ stage = "editing" /\ stage' = "replacing"
          /\ job' = [from |-> Content(editor), find |-> s.find, by |-> s.by, next |-> 0]
          /\ UNCHANGED <<editor, tokens, asked, answer>>
        BY <1>2 DEF StartReplaceAll
    <2>2. Content(editor) \in Seq(Chars) /\ s.find \in Seq(Chars) /\ s.by \in Seq(Chars)
        BY ContentIs, TextsAssumption DEF TypeOK
    <2>3. job' \in JobType
        BY <2>1, <2>2 DEF JobType
    <2>4. TypeOK'
        BY <2>1, <2>3 DEF TypeOK
    <2>5. Maps
        BY <2>1 DEF Maps, Edited!Next, Edited!Begin
    <2> QED
        BY <2>4, <2>5
<1> QED
    BY <1>1, <1>2

LEMMA ReplaceNextKeeps ==
    ASSUME TypeOK, ReplaceNext
    PROVE  TypeOK' /\ Maps
<1> DEFINE places == FoundFrom(editor, job.next, job.find)
           at == First(places)
           len == Len(job.find)
<1>1. /\ stage = "replacing" /\ places # {}
      /\ Call("Replace", at, len, job.by, Replace(editor, at, len, job.by))
      /\ IF answer' THEN job' = [job EXCEPT !.next = @ + len] /\ UNCHANGED stage
         ELSE job' = NoJob /\ stage' = "editing"
      /\ UNCHANGED tokens
    BY DEF ReplaceNext
<1>2. /\ IsEditor(editor) /\ editor.size \in Nat /\ len \in Nat
      /\ job.by \in Seq(Chars) /\ job.next \in Nat
    BY DEF TypeOK, JobType, IsEditor
<1>3. places \in SUBSET Nat
    BY <1>2 DEF FoundFrom
<1>4. at \in Nat
    BY <1>1, <1>3, FirstIs
<1> HIDE DEF places, at, len
<1>7. Done
    BY <1>1, <1>2, <1>4, ReplaceDone
<1>8. answer' \in BOOLEAN
    BY <1>7 DEF Done
<1>9. Maps
    <2>1. CASE answer'
        BY <1>1, <1>7, <2>1, DoneMaps
    <2>2. CASE ~answer'
        <3>1. Working(stage') => Working(stage)
            BY <1>1 DEF Working
        <3> QED
            BY <1>7, <2>2, <3>1, DoneMaps
    <2> QED
        BY <2>1, <2>2
<1>10. job' \in JobType
    <2>1. job.next + len \in Nat
        BY <1>2
    <2>2. [job EXCEPT !.next = @ + len] = [job EXCEPT !.next = job.next + len]
        BY DEF TypeOK, JobType
    <2> QED
        BY <1>1, <2>1, <2>2, JobIs DEF TypeOK
<1>11. TypeOK'
    BY <1>1, <1>7, <1>10 DEF TypeOK, Done, Calls
<1> QED
    BY <1>9, <1>11

LEMMA RebuildTokenKeeps ==
    ASSUME TypeOK, RebuildToken
    PROVE  TypeOK' /\ Maps
<1> DEFINE tok == tokens[job.next]
           count == tok.end - tok.start
<1>1. /\ stage = "rebuilding" /\ job.next > 0
      /\ IF tok.deleted
         THEN Call("Delete", tok.start, count, <<>>, Delete(editor, tok.start, count)) /\ GoOn
         ELSE IF tok.value # <<>>
         THEN /\ Call("Replace", tok.start, count, tok.value,
                      Replace(editor, tok.start, count, tok.value))
              /\ IF answer' THEN GoOn ELSE Stop
         ELSE GoOn /\ UNCHANGED <<editor, asked, answer>>
    BY DEF RebuildToken
<1>2. IsEditor(editor) /\ job.next \in 1 .. Len(tokens) /\ tokens \in Seq(TokenType)
    BY <1>1 DEF TypeOK, JobType
<1>3. tok \in TokenType
    BY <1>2
<1>4. tok.start \in Nat /\ count \in Nat /\ tok.value \in Seq(Chars) /\ <<>> \in Seq(Chars)
    BY <1>3 DEF TokenType
<1> HIDE DEF tok, count
<1>5. ASSUME GoOn
      PROVE  /\ stage' = "rebuilding" /\ tokens' = tokens /\ job'.next <= Len(tokens)
             /\ job' \in JobType
    <2>1. job.next - 1 \in Nat /\ job.next - 1 <= Len(tokens) /\ job \in JobType
        BY <1>2 DEF TypeOK
    <2>2. job' = [job EXCEPT !.next = job.next - 1]
        BY <1>5, <2>1 DEF GoOn, JobType
    <2> QED
        BY <1>1, <1>5, <2>1, <2>2, JobIs DEF GoOn
<1>6. ASSUME Stop
      PROVE  /\ stage' = "editing" /\ tokens' = <<>> /\ tokens' \in Seq(TokenType)
             /\ job' \in JobType
    BY <1>6, JobIs DEF Stop
<1>7. CASE tok.deleted
    <2>1. Call("Delete", tok.start, count, <<>>, Delete(editor, tok.start, count)) /\ GoOn
        BY <1>1, <1>7
    <2>4. Done
        BY <1>2, <1>4, <2>1, DeleteDone
    <2>5. Maps
        BY <1>1, <1>5, <2>1, <2>4, DoneMaps DEF Working
    <2>6. TypeOK'
        BY <1>2, <1>5, <2>1, <2>4 DEF TypeOK, Done, Calls
    <2> QED
        BY <2>5, <2>6
<1>8. CASE ~tok.deleted /\ tok.value # <<>>
    <2>1. /\ Call("Replace", tok.start, count, tok.value,
                  Replace(editor, tok.start, count, tok.value))
          /\ IF answer' THEN GoOn ELSE Stop
        BY <1>1, <1>8
    <2>4. Done
        BY <1>2, <1>4, <2>1, ReplaceDone
    <2>5. CASE answer'
        <3>1. Maps
            BY <1>1, <1>5, <2>1, <2>4, <2>5, DoneMaps DEF Working
        <3>2. TypeOK'
            BY <1>2, <1>5, <2>1, <2>4, <2>5 DEF TypeOK, Done, Calls
        <3> QED
            BY <3>1, <3>2
    <2>6. CASE ~answer'
        <3>1. Maps
            BY <1>1, <1>6, <2>1, <2>4, <2>6, DoneMaps DEF Working
        <3>2. TypeOK'
            BY <1>6, <2>1, <2>4, <2>6 DEF TypeOK, Done, Calls
        <3> QED
            BY <3>1, <3>2
    <2> QED
        BY <2>5, <2>6
<1>9. CASE ~tok.deleted /\ ~(tok.value # <<>>)
    <2>1. GoOn /\ UNCHANGED <<editor, asked, answer>>
        BY <1>1, <1>9
    <2>2. TypeOK'
        BY <1>2, <1>5, <2>1 DEF TypeOK
    <2>3. Maps
        BY <1>1, <1>5, <2>1 DEF Maps, Edited!vars
    <2> QED
        BY <2>2, <2>3
<1> QED
    BY <1>7, <1>8, <1>9

LEMMA EndsKeep ==
    ASSUME TypeOK, ReplaceEnds \/ RebuildEnds
    PROVE  TypeOK' /\ Maps
<1>1. /\ Working(stage) /\ stage' = "editing" /\ job' = NoJob /\ answer' = TRUE
      /\ tokens' = <<>> \/ tokens' = tokens
      /\ UNCHANGED <<editor, asked>>
    BY DEF ReplaceEnds, RebuildEnds, Stop, Working
<1>2. job' \in JobType
    BY <1>1, JobIs
<1>a. tokens' \in Seq(TokenType)
    <2>1. tokens \in Seq(TokenType) /\ <<>> \in Seq(TokenType)
        BY DEF TypeOK
    <2> QED
        BY <1>1, <2>1
<1>3. TypeOK'
    BY <1>1, <1>2, <1>a DEF TypeOK
<1>4. Maps
    BY <1>1 DEF Maps, Working, Edited!Next, Edited!Finish
<1> QED
    BY <1>3, <1>4

LEMMA AddTokenKeeps ==
    ASSUME TypeOK, NEW start \in Places, NEW end \in Places, AddToken(start, end)
    PROVE  TypeOK' /\ Maps
<1>1. start \in Nat /\ end \in Nat /\ start < end
    BY DEF AddToken, Fits, Places, TypeOK, IsEditor
<1>2. [start |-> start, end |-> end, value |-> <<>>, deleted |-> FALSE] \in TokenType
    BY <1>1 DEF TokenType
<1>3. /\ stage = "parsing" /\ tokens' \in Seq(TokenType)
      /\ UNCHANGED <<editor, stage, job, asked, answer>>
    BY <1>2 DEF AddToken, TypeOK
<1>4. TypeOK'
    BY <1>3 DEF TypeOK
<1>5. Maps
    BY <1>3 DEF Maps, Edited!vars
<1> QED
    BY <1>4, <1>5

LEMMA ParseKeeps ==
    ASSUME TypeOK, Parse
    PROVE  TypeOK' /\ Maps
<1>1. /\ stage \in {"editing", "parsing"} /\ stage' \in {"parsing", "viewing"}
      /\ asked' = Nothing /\ answer' = TRUE
      /\ UNCHANGED <<editor, tokens, job>>
    BY DEF Parse
<1>2. Nothing \in [op : Ops, at : Nat, count : Nat, by : Seq(Chars)]
    BY DEF Nothing, Ops
<1>3. TypeOK'
    BY <1>1, <1>2 DEF TypeOK
<1>4. Maps
    BY <1>1 DEF Maps, Nothing, Edited!Nothing, Edited!Next, Edited!Show
<1> QED
    BY <1>3, <1>4

LEMMA RunPluginKeeps ==
    ASSUME TypeOK, RunPlugin
    PROVE  TypeOK' /\ Maps
<1>1. IsEditor(editor') /\ Content(editor') = Content(editor)
    BY CloneKeeps DEF RunPlugin, TypeOK
<1>2. /\ stage = "viewing" /\ stage' = "editing" /\ tokens' \in Seq(TokenType)
      /\ UNCHANGED <<job, asked, answer>>
    BY DEF RunPlugin
<1>3. TypeOK'
    BY <1>1, <1>2 DEF TypeOK
<1>4. Maps
    BY <1>1, <1>2 DEF Maps, Edited!vars
<1> QED
    BY <1>3, <1>4

(* Tokens that are changed where they are, and the rebuilding that begins. *)
LEMMA MarkedKeeps ==
    ASSUME TypeOK, stage = "viewing", tokens' \in Seq(TokenType), Len(tokens') = Len(tokens),
           Reparse \/ UNCHANGED <<stage, job>>, UNCHANGED <<editor, asked, answer>>
    PROVE  TypeOK' /\ Maps
<1>1. CASE Reparse
    <2>1. Content(editor) \in Seq(Chars)
        BY ContentIs DEF TypeOK
    <2>2. /\ stage' = "rebuilding" /\ job'.next = Len(tokens')
          /\ job' \in JobType
        BY <1>1, <2>1 DEF Reparse, JobType
    <2>3. TypeOK'
        BY <2>2 DEF TypeOK
    <2>4. Maps
        BY <2>2 DEF Maps, Edited!Next, Edited!Begin
    <2> QED
        BY <2>3, <2>4
<1>2. CASE UNCHANGED <<stage, job>>
    <2>1. TypeOK'
        BY <1>2 DEF TypeOK
    <2>2. Maps
        BY <1>2 DEF Maps, Edited!vars
    <2> QED
        BY <2>1, <2>2
<1> QED
    BY <1>1, <1>2

LEMMA ViewingKeeps ==
    ASSUME TypeOK, Viewing
    PROVE  TypeOK' /\ Maps
<1>1. CASE RunPlugin
    BY <1>1, RunPluginKeeps
<1>2. CASE \E some \in SUBSET DOMAIN tokens \ {{}}, name \in NewNames, reparse \in BOOLEAN :
              Rename(some, name, reparse)
    <2> PICK some \in SUBSET DOMAIN tokens \ {{}}, name \in NewNames, reparse \in BOOLEAN :
              Rename(some, name, reparse)
        BY <1>2
    <2>1. name \in Seq(Chars) /\ tokens \in Seq(TokenType)
        BY TextsAssumption DEF TypeOK
    <2>2. \A i \in DOMAIN tokens : [tokens[i] EXCEPT !.value = name] \in TokenType
        <3>1. \A i \in DOMAIN tokens : tokens[i] \in TokenType
            BY <2>1
        <3> QED
            BY <2>1, <3>1, TokenIs
    <2>3. tokens' \in Seq(TokenType) /\ Len(tokens') = Len(tokens)
        BY <2>1, <2>2 DEF Rename
    <2>4. /\ stage = "viewing"
          /\ Reparse \/ UNCHANGED <<stage, job>>
          /\ UNCHANGED <<editor, asked, answer>>
        BY DEF Rename
    <2> QED
        BY <2>3, <2>4, MarkedKeeps
<1>3. CASE \E first, last \in DOMAIN tokens : first <= last /\ DeleteTokens(first, last)
    <2> PICK first \in DOMAIN tokens, last \in DOMAIN tokens : DeleteTokens(first, last)
        BY <1>3
    <2>1. tokens \in Seq(TokenType)
        BY DEF TypeOK
    <2>2. \A i \in DOMAIN tokens : [tokens[i] EXCEPT !.deleted = TRUE] \in TokenType
        BY <2>1, TokenIs
    <2>3. tokens' \in Seq(TokenType) /\ Len(tokens') = Len(tokens)
        BY <2>1, <2>2 DEF DeleteTokens
    <2>4. stage = "viewing" /\ Reparse /\ UNCHANGED <<editor, asked, answer>>
        BY DEF DeleteTokens
    <2> QED
        BY <2>3, <2>4, MarkedKeeps
<1> QED
    BY <1>1, <1>2, <1>3 DEF Viewing

LEMMA StepKeeps ==
    ASSUME TypeOK, [Next]_vars
    PROVE  TypeOK' /\ Maps
<1>1. CASE UNCHANGED vars
    <2>1. TypeOK'
        BY <1>1 DEF TypeOK, vars
    <2>2. Maps
        BY <1>1 DEF vars, Maps, Edited!vars
    <2> QED
        BY <2>1, <2>2
<1>2. CASE Next
    BY <1>2, EditingKeeps, StartKeeps, AddTokenKeeps, ParseKeeps, ViewingKeeps,
       ReplaceNextKeeps, RebuildTokenKeeps, EndsKeep DEF Next, Loop
<1> QED
    BY <1>1, <1>2

LEMMA InitHolds ==
    ASSUME Init
    PROVE  TypeOK /\ Edited!Init
<1>1. /\ IsEditor(editor) /\ stage = "editing" /\ tokens = <<>> /\ job = NoJob
      /\ asked = Nothing /\ answer = TRUE
    BY TextsAssumption DEF Init
<1>2. Content(editor) \in Seq(Chars)
    BY <1>1, ContentIs
<1>3. TypeOK
    BY <1>1, JobIs DEF TypeOK, Nothing, Ops
<1>4. Edited!Init
    BY <1>1, <1>2 DEF Edited!Init, Nothing, Edited!Nothing
<1> QED
    BY <1>3, <1>4

-----------------------------------------------------------------------------
(* The text fits its buffer and holds no character that was never written, *)
(* for files, texts and numbers of tokens of any size.                     *)
THEOREM TextFits == Spec => []TypeOK
<1>1. TypeOK /\ [Next]_vars => TypeOK'
    BY StepKeeps
<1>2. Init => TypeOK
    BY InitHolds
<1> QED
    BY <1>1, <1>2, PTL DEF Spec

(* TextEditor and the loops over it make of a text what a text without a   *)
(* buffer is promised to become: the safety of ImplementsEditedText.       *)
THEOREM TextIsEdited == Spec => Edited!Init /\ [][Edited!Next]_(Edited!vars)
<1>1. TypeOK /\ [Next]_vars => [Edited!Next]_(Edited!vars)
    BY StepKeeps DEF Maps
<1>2. Init => Edited!Init
    BY InitHolds
<1> QED
    BY <1>1, <1>2, TextFits, PTL DEF Spec

-----------------------------------------------------------------------------
(* Texts that are cut and joined.                                          *)

LEMMA CutIs ==
    ASSUME NEW s \in Seq(Chars), NEW a \in 0 .. Len(s), NEW b \in a .. Len(s)
    PROVE  /\ SubSeq(s, a + 1, b) \in Seq(Chars)
           /\ Len(SubSeq(s, a + 1, b)) = b - a
           /\ \A i \in 1 .. b - a : SubSeq(s, a + 1, b)[i] = s[a + i]
<1>1. SubSeq(s, a + 1, b) = [i \in 1 .. b - a |-> s[a + i]]
    <2>1. SubSeq(s, a + 1, b) = [i \in 1 .. (1 + b) - (a + 1) |-> s[i + (a + 1) - 1]]
        OBVIOUS
    <2>2. (1 + b) - (a + 1) = b - a
        OBVIOUS
    <2>3. \A i \in 1 .. b - a : i + (a + 1) - 1 = a + i
        OBVIOUS
    <2> QED BY <2>1, <2>2, <2>3
<1>2. \A i \in 1 .. b - a : s[a + i] \in Chars
    <2>1. \A i \in 1 .. b - a : a + i \in 1 .. Len(s)
        OBVIOUS
    <2> QED BY <2>1
<1>3. b - a \in Nat
    OBVIOUS
<1> QED BY <1>1, <1>2, <1>3

LEMMA JoinIs ==
    ASSUME NEW s \in Seq(Chars), NEW t \in Seq(Chars)
    PROVE  /\ s \o t \in Seq(Chars)
           /\ Len(s \o t) = Len(s) + Len(t)
           /\ \A i \in 1 .. Len(s) : (s \o t)[i] = s[i]
           /\ \A i \in 1 .. Len(t) : (s \o t)[Len(s) + i] = t[i]
<1>1. /\ s \o t \in Seq(Chars)
      /\ Len(s \o t) = Len(s) + Len(t)
      /\ \A i \in 1 .. Len(s) + Len(t) :
            (s \o t)[i] = IF i <= Len(s) THEN s[i] ELSE t[i - Len(s)]
    BY ConcatProperties
<1>2. Len(s) \in Nat /\ Len(t) \in Nat
    OBVIOUS
<1>3. \A i \in 1 .. Len(s) : i \in 1 .. Len(s) + Len(t) /\ i <= Len(s)
    BY <1>2
<1>4. \A i \in 1 .. Len(t) : /\ Len(s) + i \in 1 .. Len(s) + Len(t)
                             /\ ~(Len(s) + i <= Len(s)) /\ (Len(s) + i) - Len(s) = i
    BY <1>2
<1> QED BY <1>1, <1>3, <1>4

(* Texts of one length that have the same characters.                      *)
LEMMA SameText ==
    ASSUME NEW s \in Seq(Chars), NEW t \in Seq(Chars), Len(s) = Len(t),
           \A i \in 1 .. Len(s) : s[i] = t[i]
    PROVE  s = t
BY SeqEqual

LEMMA JoinAgain ==
    ASSUME NEW s \in Seq(Chars), NEW t \in Seq(Chars), NEW u \in Seq(Chars)
    PROVE  (s \o t) \o u = s \o (t \o u)
BY ConcatAssociative

Grouped(s, t, u) == (s \o t) \o u = s \o (t \o u)
LEMMA GroupedIs ==
    ASSUME NEW s \in Seq(Chars), NEW t \in Seq(Chars), NEW u \in Seq(Chars)
    PROVE  Grouped(s, t, u)
BY JoinAgain DEF Grouped

(* Two parts side by side are one.                                         *)
LEMMA CutsJoin ==
    ASSUME NEW s \in Seq(Chars), NEW a \in 0 .. Len(s), NEW b \in a .. Len(s),
           NEW c \in b .. Len(s)
    PROVE  SubSeq(s, a + 1, b) \o SubSeq(s, b + 1, c) = SubSeq(s, a + 1, c)
<1> DEFINE left == SubSeq(s, a + 1, b)
           right == SubSeq(s, b + 1, c)
           both == SubSeq(s, a + 1, c)
<1>0. b \in 0 .. Len(s) /\ c \in a .. Len(s)
    OBVIOUS
<1>1. left \in Seq(Chars) /\ Len(left) = b - a /\ \A i \in 1 .. b - a : left[i] = s[a + i]
    BY CutIs
<1>2. right \in Seq(Chars) /\ Len(right) = c - b /\ \A i \in 1 .. c - b : right[i] = s[b + i]
    BY <1>0, CutIs
<1>3. both \in Seq(Chars) /\ Len(both) = c - a /\ \A i \in 1 .. c - a : both[i] = s[a + i]
    BY <1>0, CutIs
<1> HIDE DEF left, right, both
<1>a. left \in Seq(Chars) /\ right \in Seq(Chars)
    BY <1>1, <1>2
<1>4. /\ left \o right \in Seq(Chars) /\ Len(left \o right) = Len(left) + Len(right)
      /\ \A i \in 1 .. Len(left) : (left \o right)[i] = left[i]
      /\ \A i \in 1 .. Len(right) : (left \o right)[Len(left) + i] = right[i]
    BY <1>a, JoinIs
<1>5. Len(left \o right) = Len(both)
    BY <1>1, <1>2, <1>3, <1>4
<1>6. ASSUME NEW i \in 1 .. Len(left \o right)
      PROVE  (left \o right)[i] = both[i]
    <2>1. i \in 1 .. c - a
        BY <1>3, <1>5
    <2>2. CASE i <= b - a
        <3>1. i \in 1 .. Len(left) /\ i \in 1 .. b - a
            BY <1>1, <2>1, <2>2
        <3> QED BY <1>1, <1>3, <1>4, <2>1, <3>1
    <2>3. CASE ~(i <= b - a)
        <3> DEFINE j == i - (b - a)
        <3>1. j \in 1 .. c - b /\ i = Len(left) + j /\ b + j = a + i
            BY <1>1, <2>1, <2>3
        <3>2. (left \o right)[Len(left) + j] = right[j] /\ right[j] = s[b + j]
            BY <1>2, <1>4, <3>1
        <3> QED BY <1>3, <2>1, <3>1, <3>2
    <2> QED BY <2>2, <2>3
<1>7. left \o right = both
    BY <1>3, <1>4, <1>5, <1>6, SameText
<1> QED BY <1>7 DEF left, right, both

(* The whole text, from its two parts; the first part of a text joined     *)
(* from two.                                                               *)
LEMMA WholeCut ==
    ASSUME NEW s \in Seq(Chars)
    PROVE  SubSeq(s, 1, Len(s)) = s /\ SubSeq(s, 1, 0) = <<>> /\ SubSeq(s, Len(s) + 1, Len(s)) = <<>>
<1>1. Len(s) \in Nat /\ 0 \in 0 .. Len(s) /\ Len(s) \in 0 .. Len(s)
    OBVIOUS
<1>2. SubSeq(s, 0 + 1, Len(s)) \in Seq(Chars) /\ Len(SubSeq(s, 0 + 1, Len(s))) = Len(s)
      /\ \A i \in 1 .. Len(s) : SubSeq(s, 0 + 1, Len(s))[i] = s[i]
    BY <1>1, CutIs
<1>3. SubSeq(s, 0 + 1, Len(s)) = s
    BY <1>2, SameText
<1>4. \A t \in Seq(Chars) : Len(t) = 0 => t = <<>>
    OBVIOUS
<1>5. SubSeq(s, 0 + 1, 0) \in Seq(Chars) /\ Len(SubSeq(s, 0 + 1, 0)) = 0
    BY <1>1, CutIs
<1>6. SubSeq(s, Len(s) + 1, Len(s)) \in Seq(Chars) /\ Len(SubSeq(s, Len(s) + 1, Len(s))) = 0
    BY <1>1, CutIs
<1> QED BY <1>3, <1>4, <1>5, <1>6

LEMMA FrontIs ==
    ASSUME NEW s \in Seq(Chars), NEW b \in 0 .. Len(s)
    PROVE  SubSeq(s, 1, b) \in Seq(Chars) /\ Len(SubSeq(s, 1, b)) = b
<1>1. 0 \in 0 .. Len(s) /\ 0 + 1 = 1 /\ b - 0 = b
    OBVIOUS
<1>2. SubSeq(s, 0 + 1, b) \in Seq(Chars) /\ Len(SubSeq(s, 0 + 1, b)) = b - 0
    BY <1>1, CutIs
<1> QED BY <1>1, <1>2, Zenon

LEMMA FrontJoins ==
    ASSUME NEW s \in Seq(Chars), NEW b \in 0 .. Len(s), NEW c \in b .. Len(s)
    PROVE  SubSeq(s, 1, b) \o SubSeq(s, b + 1, c) = SubSeq(s, 1, c)
<1>1. 0 \in 0 .. Len(s) /\ 0 + 1 = 1
    OBVIOUS
<1>2. SubSeq(s, 0 + 1, b) \o SubSeq(s, b + 1, c) = SubSeq(s, 0 + 1, c)
    BY <1>1, CutsJoin
<1> QED BY <1>1, <1>2, Zenon

(* A call in a text of three parts that names the middle one.              *)
InMiddle(A, B, C, c) == Edited!Spliced(A \o (B \o C), c) = A \o (c.by \o C)
LEMMA MiddleSpliced ==
    ASSUME NEW A \in Seq(Chars), NEW B \in Seq(Chars), NEW C \in Seq(Chars), NEW c \in Calls,
           c.at = Len(A), c.count = Len(B) \/ (C = <<>> /\ c.count >= Len(B))
    PROVE  InMiddle(A, B, C, c)
<1> DEFINE t == A \o (B \o C)
           u == A \o (c.by \o C)
           a == Len(A)
           b == Len(B)
           more == Len(c.by)
           end == IF c.at + c.count <= Len(t) THEN c.at + c.count ELSE Len(t)
<1>0. /\ c.by \in Seq(Chars) /\ more \in Nat /\ c.count \in Nat
      /\ a \in Nat /\ b \in Nat /\ Len(C) \in Nat
    BY DEF Calls
<1>1. /\ B \o C \in Seq(Chars) /\ Len(B \o C) = b + Len(C)
      /\ \A i \in 1 .. Len(C) : (B \o C)[b + i] = C[i]
    BY JoinIs
<1>2. /\ c.by \o C \in Seq(Chars) /\ Len(c.by \o C) = more + Len(C)
      /\ \A i \in 1 .. more : (c.by \o C)[i] = c.by[i]
      /\ \A i \in 1 .. Len(C) : (c.by \o C)[more + i] = C[i]
    BY <1>0, JoinIs
<1>3. /\ t \in Seq(Chars) /\ Len(t) = a + Len(B \o C)
      /\ \A i \in 1 .. a : t[i] = A[i]
      /\ \A i \in 1 .. Len(B \o C) : t[a + i] = (B \o C)[i]
    BY <1>1, JoinIs
<1>4. /\ u \in Seq(Chars) /\ Len(u) = a + Len(c.by \o C)
      /\ \A i \in 1 .. a : u[i] = A[i]
      /\ \A i \in 1 .. Len(c.by \o C) : u[a + i] = (c.by \o C)[i]
    BY <1>2, JoinIs
<1>5. end = a + b /\ Len(t) = a + b + Len(C)
    <2>1. C = <<>> => Len(C) = 0
        OBVIOUS
    <2>2. Len(t) = a + b + Len(C)
        BY <1>0, <1>1, <1>3
    <2>3. CASE c.count = b
        <3> HIDE DEF t
        <3> QED BY <1>0, <2>2, <2>3
    <2>4. CASE C = <<>> /\ c.count >= b
        <3>1. c.count >= b /\ Len(t) = a + b /\ Len(C) = 0
            BY <1>0, <2>1, <2>2, <2>4
        <3> HIDE DEF t, a, b
        <3>2. c.at = a
            BY DEF a
        <3>3. c.at + c.count <= Len(t) => c.at + c.count = a + b
            BY <1>0, <3>1, <3>2, SMTT(30)
        <3> QED BY <2>2, <3>1, <3>3
    <2>5. c.count = b \/ (C = <<>> /\ c.count >= b)
        OBVIOUS
    <2> QED BY <2>3, <2>4, <2>5
<1> DEFINE s == [i \in 1 .. c.at + more + (Len(t) - end) |->
                    IF i <= c.at THEN t[i]
                    ELSE IF i <= c.at + more THEN c.by[i - c.at]
                    ELSE t[end + (i - (c.at + more))]]
<1>6. Edited!Spliced(t, c) = s
    BY DEF Edited!Spliced
<1> HIDE DEF t, u
<1>7. Len(u) = a + more + Len(C) /\ c.at + more + (Len(t) - end) = a + more + Len(C)
    BY <1>0, <1>2, <1>4, <1>5
<1> HIDE DEF end
<1>8. ASSUME NEW i \in 1 .. a + more + Len(C)
      PROVE  s[i] = u[i]
    <2>0. s[i] = IF i <= a THEN t[i]
                 ELSE IF i <= a + more THEN c.by[i - a]
                 ELSE t[end + (i - (a + more))]
        BY <1>7
    <2> HIDE DEF s
    <2>1. CASE i <= a
        <3>1. i \in 1 .. a
            BY <1>0, <2>1
        <3> QED BY <1>3, <1>4, <2>0, <2>1, <3>1
    <2>2. CASE ~(i <= a) /\ i <= a + more
        <3>1. i - a \in 1 .. more /\ i = a + (i - a) /\ i - a \in 1 .. Len(c.by \o C)
            BY <1>0, <1>2, <2>2
        <3> QED BY <1>2, <1>4, <2>0, <2>2, <3>1
    <2>3. CASE ~(i <= a + more)
        <3> DEFINE j == i - (a + more)
        <3>0. /\ j \in 1 .. Len(C) /\ i = a + (more + j) /\ ~(i <= a)
            BY <1>0, <2>3
        <3> HIDE DEF j
        <3>1. /\ j \in 1 .. Len(C) /\ i = a + (more + j) /\ end + j = a + (b + j)
              /\ more + j \in 1 .. Len(c.by \o C) /\ b + j \in 1 .. Len(B \o C) /\ ~(i <= a)
            BY <1>0, <1>1, <1>2, <1>5, <3>0
        <3>2. u[a + (more + j)] = C[j]
            BY <1>2, <1>4, <3>1
        <3>3. t[a + (b + j)] = C[j]
            BY <1>1, <1>3, <3>1
        <3> QED BY <2>0, <2>3, <3>1, <3>2, <3>3 DEF j
    <2> QED BY <2>1, <2>2, <2>3
<1>9. u = [i \in 1 .. a + more + Len(C) |-> u[i]]
    BY <1>4, <1>7
<1>10. s = [i \in 1 .. a + more + Len(C) |-> s[i]]
    BY <1>7
<1>11. s = u
    <2> HIDE DEF s
    <2> QED BY <1>8, <1>9, <1>10
<1> QED BY <1>6, <1>11 DEF t, u, InMiddle

-----------------------------------------------------------------------------
(* The rebuilding.  Tokens follow each other in a text and start in it;    *)
(* the last may end right behind it.                                       *)
Ordered(text, list) ==
    /\ \A i \in 1 .. Len(list) : list[i].start < Len(text) /\ list[i].end <= Len(text) + 1
    /\ \A i \in 2 .. Len(list) : list[i - 1].end <= list[i].start

(* Where token i ends in the text, what it is now, and that with the text  *)
(* in front of it.                                                         *)
Upto(text, list, i) ==
    IF i = 0 THEN 0 ELSE IF list[i].end <= Len(text) THEN list[i].end ELSE Len(text)
Now(text, list, i) ==
    IF list[i].deleted THEN <<>>
    ELSE IF list[i].value # <<>> THEN list[i].value
    ELSE SubSeq(text, list[i].start + 1, Upto(text, list, i))
Bits(text, list) ==
    [i \in 1 .. Len(list) |->
        SubSeq(text, Upto(text, list, i - 1) + 1, list[i].start) \o Now(text, list, i)]

LEMMA RebuiltIs ==
    ASSUME NEW text, NEW list \in Seq(TokenType)
    PROVE  Rebuilt(text, list) =
               Joined(Bits(text, list), Len(list))
                   \o SubSeq(text, Upto(text, list, Len(list)) + 1, Len(text))
<1>1. [k \in 1 .. Len(list) |-> Bits(text, list)[k]] =
          [i \in 1 .. Len(list) |->
              SubSeq(text, Upto(text, list, i - 1) + 1, list[i].start) \o Now(text, list, i)]
    BY DEF Bits
<1>2. Rebuilt(text, list) =
          FlattenSeq([i \in 1 .. Len(list) |->
              SubSeq(text, Upto(text, list, i - 1) + 1, list[i].start) \o Now(text, list, i)])
            \o SubSeq(text, Upto(text, list, Len(list)) + 1, Len(text))
    BY DEF Rebuilt, Upto, Now
<1> QED BY <1>1, <1>2 DEF Joined

(* The places of token k, in their order.                                  *)
LEMMA PlacesOrdered ==
    ASSUME NEW text \in Seq(Chars), NEW list \in Seq(TokenType), Ordered(text, list),
           NEW k \in 1 .. Len(list)
    PROVE  /\ list[k] \in TokenType /\ list[k].start \in Nat /\ list[k].end \in Nat
           /\ list[k].start < list[k].end
           /\ Upto(text, list, k - 1) \in 0 .. list[k].start
           /\ Upto(text, list, k) \in list[k].start .. Len(text)
           /\ list[k].start \in 0 .. Upto(text, list, k)
           /\ list[k].start < Upto(text, list, k) /\ list[k].start \in 0 .. Len(text)
           /\ list[k].end <= Len(text) => Upto(text, list, k) = list[k].end
           /\ ~(list[k].end <= Len(text)) => /\ Upto(text, list, k) = Len(text)
                                             /\ list[k].end = Len(text) + 1
           /\ k > 1 => list[k - 1].end <= Len(text)
<1>1. /\ list[k] \in TokenType /\ list[k].start \in Nat /\ list[k].end \in Nat
      /\ list[k].start < list[k].end
    BY DEF TokenType
<1>2. list[k].start < Len(text) /\ list[k].end <= Len(text) + 1 /\ Len(text) \in Nat
    BY DEF Ordered
<1>3. k # 0 /\ Upto(text, list, k) = IF list[k].end <= Len(text) THEN list[k].end ELSE Len(text)
    BY DEF Upto
<1>4. /\ Upto(text, list, k) \in list[k].start .. Len(text)
      /\ list[k].start \in 0 .. Upto(text, list, k)
      /\ list[k].start < Upto(text, list, k) /\ list[k].start \in 0 .. Len(text)
      /\ list[k].end <= Len(text) => Upto(text, list, k) = list[k].end
      /\ ~(list[k].end <= Len(text)) => /\ Upto(text, list, k) = Len(text)
                                        /\ list[k].end = Len(text) + 1
    BY <1>1, <1>2, <1>3
<1>5. CASE k = 1
    BY <1>1, <1>4, <1>5 DEF Upto
<1>6. CASE k # 1
    <2>1. k \in 2 .. Len(list) /\ k - 1 \in 1 .. Len(list) /\ k - 1 # 0
        BY <1>6
    <2>2. list[k - 1].end <= list[k].start /\ list[k - 1].end \in Nat
        BY <2>1, SMTT(30) DEF Ordered, TokenType
    <2>3. list[k - 1].end <= Len(text)
        BY <1>1, <1>2, <2>2
    <2>4. Upto(text, list, k - 1) = list[k - 1].end
        BY <2>1, <2>3 DEF Upto
    <2> QED BY <1>1, <1>4, <2>2, <2>3, <2>4
<1> QED BY <1>5, <1>6

IsBit(text, list, k) ==
    /\ Now(text, list, k) \in Seq(Chars)
    /\ SubSeq(text, Upto(text, list, k - 1) + 1, list[k].start) \in Seq(Chars)
    /\ Bits(text, list)[k] =
          SubSeq(text, Upto(text, list, k - 1) + 1, list[k].start) \o Now(text, list, k)
    /\ Bits(text, list)[k] \in Seq(Chars)

LEMMA BitIs ==
    ASSUME NEW text \in Seq(Chars), NEW list \in Seq(TokenType), Ordered(text, list),
           NEW k \in 1 .. Len(list)
    PROVE  IsBit(text, list, k)
<1> DEFINE a == Upto(text, list, k - 1)
           at == list[k].start
           end == Upto(text, list, k)
<1>1. /\ a \in 0 .. at /\ at \in 0 .. Len(text) /\ end \in at .. Len(text)
      /\ at \in Nat /\ list[k] \in TokenType
    BY PlacesOrdered
<1> HIDE DEF a, at, end
<1>2. SubSeq(text, at + 1, end) \in Seq(Chars)
    BY <1>1, CutIs
<1>3. Now(text, list, k) \in Seq(Chars)
    <2>1. list[k].value \in Seq(Chars) /\ <<>> \in Seq(Chars)
        BY <1>1, SMTT(30) DEF TokenType
    <2> QED BY <1>2, <2>1 DEF Now, at, end
<1>4. SubSeq(text, a + 1, at) \in Seq(Chars)
    <2>1. a \in 0 .. Len(text) /\ at \in a .. Len(text)
        BY <1>1
    <2> QED BY <2>1, CutIs
<1>5. Bits(text, list)[k] = SubSeq(text, a + 1, at) \o Now(text, list, k)
    BY DEF Bits, a, at
<1>6. SubSeq(text, a + 1, at) \o Now(text, list, k) \in Seq(Chars)
    BY <1>3, <1>4, JoinIs
<1> QED BY <1>3, <1>4, <1>5, <1>6 DEF IsBit, a, at

LEMMA BitsAre ==
    ASSUME NEW text \in Seq(Chars), NEW list \in Seq(TokenType), Ordered(text, list)
    PROVE  Pieces(Bits(text, list), Len(list), Chars)
BY BitIs DEF Pieces, IsBit

(* What is left to do: the tokens up to k are where they were, and the     *)
(* rest is behind them as it will be.                                      *)
LeftWith(text, list, k, t, rest) ==
    /\ t = SubSeq(text, 1, Upto(text, list, k)) \o rest
    /\ Joined(Bits(text, list), k) \o rest = Rebuilt(text, list)
    /\ k > 0 /\ list[k].end > Len(text) => rest = <<>>
Left(text, list, k, t) == \E rest \in Seq(Chars) : LeftWith(text, list, k, t, rest)

LEMMA LeftStarts ==
    ASSUME NEW text \in Seq(Chars), NEW list \in Seq(TokenType), Ordered(text, list)
    PROVE  Left(text, list, Len(list), text)
<1> DEFINE n == Len(list)
           end == Upto(text, list, n)
           rest == SubSeq(text, end + 1, Len(text))
<1>1. n \in Nat /\ Len(text) \in Nat
    OBVIOUS
<1>2. end \in 0 .. Len(text) /\ (n > 0 /\ list[n].end > Len(text) => end = Len(text))
    <2>1. CASE n = 0
        BY <1>1, <2>1 DEF Upto
    <2>2. CASE n # 0
        <3>1. n \in 1 .. Len(list)
            BY <1>1, <2>2
        <3>2. /\ list[n].start \in Nat /\ end \in list[n].start .. Len(text) /\ list[n].end \in Nat
              /\ ~(list[n].end <= Len(text)) => end = Len(text)
            BY <3>1, PlacesOrdered
        <3> HIDE DEF end, n
        <3> QED BY <1>1, <3>2
    <2> QED BY <2>1, <2>2
<1> HIDE DEF end
<1>3. rest \in Seq(Chars)
    BY <1>1, <1>2, CutIs
<1>4. SubSeq(text, 1, end) \o rest = text
    <2>1. end \in 0 .. Len(text) /\ Len(text) \in end .. Len(text)
        BY <1>1, <1>2
    <2>2. SubSeq(text, 1, end) \o SubSeq(text, end + 1, Len(text)) = SubSeq(text, 1, Len(text))
        BY <2>1, FrontJoins
    <2>3. SubSeq(text, 1, Len(text)) = text
        BY WholeCut
    <2> QED BY <2>2, <2>3
<1>5. end = Len(text) => rest = <<>>
    BY WholeCut
<1>6. Joined(Bits(text, list), n) \o rest = Rebuilt(text, list)
    BY RebuiltIs DEF end
<1> HIDE DEF rest, n
<1>7. LeftWith(text, list, n, text, rest)
    BY <1>2, <1>4, <1>5, <1>6 DEF LeftWith, end
<1> QED BY <1>3, <1>7 DEF Left, n

LEMMA LeftEnds ==
    ASSUME NEW text \in Seq(Chars), NEW list, NEW t, Left(text, list, 0, t)
    PROVE  t = Rebuilt(text, list)
<1>1. PICK rest \in Seq(Chars) : LeftWith(text, list, 0, t, rest)
    BY DEF Left
<1>2. t = <<>> \o rest
    BY <1>1, WholeCut DEF LeftWith, Upto
<1>3. Rebuilt(text, list) = <<>> \o rest
    BY <1>1, JoinedZero DEF LeftWith
<1> QED BY <1>2, <1>3

(* The text in front of token k, the token, and the rest.                  *)
Parts(text, list, k, t, rest) ==
    /\ SubSeq(text, 1, list[k].start) \in Seq(Chars)
    /\ Len(SubSeq(text, 1, list[k].start)) = list[k].start
    /\ SubSeq(text, list[k].start + 1, Upto(text, list, k)) \in Seq(Chars)
    /\ Len(SubSeq(text, list[k].start + 1, Upto(text, list, k)))
          = Upto(text, list, k) - list[k].start
    /\ t = SubSeq(text, 1, list[k].start)
             \o (SubSeq(text, list[k].start + 1, Upto(text, list, k)) \o rest)

LEMMA LeftParts ==
    ASSUME NEW text \in Seq(Chars), NEW list \in Seq(TokenType), Ordered(text, list),
           NEW k \in 1 .. Len(list), NEW t, NEW rest \in Seq(Chars),
           LeftWith(text, list, k, t, rest)
    PROVE  Parts(text, list, k, t, rest)
<1> DEFINE at == list[k].start
           end == Upto(text, list, k)
           A == SubSeq(text, 1, at)
           B == SubSeq(text, at + 1, end)
<1>1. at \in 0 .. Len(text) /\ end \in at .. Len(text) /\ 0 \in 0 .. Len(text) /\ at \in Nat
    BY PlacesOrdered
<1>0. t = SubSeq(text, 1, end) \o rest
    BY DEF LeftWith
<1> HIDE DEF at, end
<1>2. B \in Seq(Chars) /\ Len(B) = end - at
    BY <1>1, CutIs
<1>3. A \in Seq(Chars) /\ Len(A) = at
    BY <1>1, FrontIs
<1>4. A \o B = SubSeq(text, 1, end)
    BY <1>1, FrontJoins
<1> HIDE DEF A, B
<1>a. A \in Seq(Chars) /\ B \in Seq(Chars)
    BY <1>2, <1>3
<1>c. rest \in Seq(Chars)
    OBVIOUS
<1>b. (A \o B) \o rest = A \o (B \o rest)
    <2>1. Grouped(A, B, rest)
        BY <1>a, <1>c, GroupedIs
    <2> QED BY <2>1 DEF Grouped
<1>5. t = A \o (B \o rest)
    BY <1>0, <1>4, <1>b, Zenon
<1> QED BY <1>2, <1>3, <1>5 DEF Parts, A, B, at, end

(* A call in the place of token k.                                         *)
TokenSpliced(text, list, k, t, rest, c) ==
    /\ Edited!Spliced(t, c) = SubSeq(text, 1, list[k].start) \o (c.by \o rest)
    /\ c.at < Len(t)
LEMMA LeftSpliced ==
    ASSUME NEW text \in Seq(Chars), NEW list \in Seq(TokenType), Ordered(text, list),
           NEW k \in 1 .. Len(list), NEW t, NEW rest \in Seq(Chars),
           LeftWith(text, list, k, t, rest),
           NEW c \in Calls, c.at = list[k].start, c.count = list[k].end - list[k].start
    PROVE  TokenSpliced(text, list, k, t, rest, c)
<1> DEFINE at == list[k].start
           end == Upto(text, list, k)
           A == SubSeq(text, 1, at)
           B == SubSeq(text, at + 1, end)
<1>p. Parts(text, list, k, t, rest)
    BY LeftParts
<1>1. /\ A \in Seq(Chars) /\ Len(A) = at /\ B \in Seq(Chars) /\ Len(B) = end - at
      /\ t = A \o (B \o rest)
    BY <1>p DEF Parts
<1>2. /\ at \in Nat /\ list[k].end \in Nat /\ at < end /\ end \in at .. Len(text)
      /\ list[k].end <= Len(text) => end = list[k].end
      /\ ~(list[k].end <= Len(text)) => end = Len(text) /\ list[k].end = Len(text) + 1
    BY PlacesOrdered
<1>3. ~(list[k].end <= Len(text)) => rest = <<>>
    BY <1>2 DEF LeftWith
<1> HIDE DEF at, end, A, B
<1>4. c.at = Len(A) /\ (c.count = Len(B) \/ (rest = <<>> /\ c.count >= Len(B)))
    <2>0. c.at = at /\ c.count = list[k].end - at /\ Len(text) \in Nat
        BY DEF at
    <2>1. CASE list[k].end <= Len(text)
        BY <1>1, <1>2, <2>0, <2>1
    <2>2. CASE ~(list[k].end <= Len(text))
        <3>1. c.count >= Len(B)
            BY <1>1, <1>2, <2>0, <2>2
        <3> QED BY <1>1, <1>3, <2>0, <2>2, <3>1
    <2> QED BY <2>1, <2>2
<1>a. A \in Seq(Chars) /\ B \in Seq(Chars)
    BY <1>1
<1>5. Edited!Spliced(A \o (B \o rest), c) = A \o (c.by \o rest)
    <2>1. InMiddle(A, B, rest, c)
        BY <1>a, <1>4, MiddleSpliced
    <2> QED BY <2>1 DEF InMiddle
<1>6. c.at < Len(t)
    <2>1. Len(B \o rest) = Len(B) + Len(rest) /\ B \o rest \in Seq(Chars)
        BY <1>1, JoinIs
    <2>2. Len(t) = Len(A) + Len(B \o rest)
        BY <1>1, <2>1, JoinIs
    <2>3. Len(rest) \in Nat
        OBVIOUS
    <2> QED BY <1>1, <1>2, <1>4, <2>1, <2>2, <2>3
<1> QED BY <1>1, <1>5, <1>6 DEF A, at, TokenSpliced

(* Token k is as it will be: it belongs to the rest now.                   *)
LEMMA LeftNext ==
    ASSUME NEW text \in Seq(Chars), NEW list \in Seq(TokenType), Ordered(text, list),
           NEW k \in 1 .. Len(list), NEW t, NEW rest \in Seq(Chars),
           LeftWith(text, list, k, t, rest), NEW new,
           new = SubSeq(text, 1, list[k].start) \o (Now(text, list, k) \o rest)
    PROVE  Left(text, list, k - 1, new)
<1> DEFINE a == Upto(text, list, k - 1)
           at == list[k].start
           A == SubSeq(text, 1, a)
           B == SubSeq(text, a + 1, at)
           N == Now(text, list, k)
           bits == Bits(text, list)
           more == bits[k] \o rest
<1>1. a \in 0 .. at /\ at \in 0 .. Len(text) /\ at \in Nat /\ (k > 1 => list[k - 1].end <= Len(text))
    BY PlacesOrdered
<1>p. IsBit(text, list, k)
    BY BitIs
<1>2. N \in Seq(Chars) /\ B \in Seq(Chars) /\ bits[k] = B \o N /\ bits[k] \in Seq(Chars)
    BY <1>p DEF IsBit
<1>3. Joined(bits, k) = Joined(bits, k - 1) \o bits[k]
    <2>1. Pieces(bits, Len(list), Chars) /\ Len(list) \in Nat
        BY BitsAre
    <2> HIDE DEF bits
    <2> QED BY <2>1, JoinedTurn
<1>4. Joined(bits, k - 1) \in Seq(Chars)
    <2>1. k - 1 \in Nat /\ k - 1 <= Len(list) /\ Len(list) \in Nat
        OBVIOUS
    <2>2. Pieces(bits, k - 1, Chars)
        BY <2>1, BitsAre, FewerPieces
    <2> QED BY <2>1, <2>2, JoinedType
<1>0. Joined(bits, k) \o rest = Rebuilt(text, list)
    BY DEF LeftWith
<1> HIDE DEF a, at, N, bits
<1>5. A \in Seq(Chars) /\ A \o B = SubSeq(text, 1, at)
    <2>1. a \in 0 .. Len(text) /\ at \in a .. Len(text)
        BY <1>1
    <2> QED BY <2>1, FrontIs, FrontJoins
<1>6. new = SubSeq(text, 1, at) \o (N \o rest)
    BY DEF at, N
<1> HIDE DEF A, B
<1>b. N \in Seq(Chars) /\ B \in Seq(Chars) /\ bits[k] \in Seq(Chars) /\ A \in Seq(Chars)
    BY <1>2, <1>5
<1>7. N \o rest \in Seq(Chars) /\ more \in Seq(Chars)
    BY <1>b, JoinIs
<1>8. (A \o B) \o (N \o rest) = A \o (B \o (N \o rest))
    <2> DEFINE M == N \o rest
    <2>1. M \in Seq(Chars)
        BY <1>7
    <2> HIDE DEF M
    <2>2. (A \o B) \o M = A \o (B \o M)
        <3>1. Grouped(A, B, M)
            BY <1>b, <2>1, GroupedIs
        <3> QED BY <3>1 DEF Grouped
    <2> QED BY <2>2 DEF M
<1>9. B \o (N \o rest) = more
    <2>1. Grouped(B, N, rest)
        BY <1>b, GroupedIs
    <2>2. (B \o N) \o rest = B \o (N \o rest)
        BY <2>1 DEF Grouped
    <2> QED BY <1>2, <2>2, Zenon
<1>10. Joined(bits, k - 1) \o more = Rebuilt(text, list)
    <2>1. Grouped(Joined(bits, k - 1), bits[k], rest)
        BY <1>b, <1>4, GroupedIs
    <2>2. (Joined(bits, k - 1) \o bits[k]) \o rest = Joined(bits, k - 1) \o more
        BY <2>1 DEF Grouped
    <2> QED BY <1>0, <1>3, <2>2, Zenon
<1>11. ~(k - 1 > 0 /\ list[k - 1].end > Len(text))
    <2>1. ASSUME k - 1 > 0, list[k - 1].end > Len(text) PROVE FALSE
        <3>1. k - 1 \in 1 .. Len(list)
            BY <2>1
        <3>2. list[k - 1].end \in Nat /\ Len(text) \in Nat
            <4>1. list[k - 1] \in TokenType
                BY <3>1
            <4> QED BY <4>1 DEF TokenType
        <3> QED BY <1>1, <2>1, <3>2
    <2> QED BY <2>1
<1> HIDE DEF more
<1>12. new = A \o more
    BY <1>5, <1>6, <1>8, <1>9
<1>13. LeftWith(text, list, k - 1, new, more)
    BY <1>10, <1>11, <1>12 DEF LeftWith, A, a, bits
<1> QED BY <1>7, <1>13 DEF Left

-----------------------------------------------------------------------------
(* ReplaceAll.  A text occurs behind the first q characters of another.    *)
At(t, q, find) == q + Len(find) <= Len(t) /\ \A j \in 1 .. Len(find) : t[q + j] = find[j]
Everywhere(text, find) ==
    {q \in 0 .. Len(text) : q + Len(find) <= Len(text)
                              /\ SubSeq(text, q + 1, q + Len(find)) = find}
Cells(text, places, len, by) ==
    [i \in 1 .. Len(text) |->
        IF i - 1 \in places THEN by
        ELSE IF \E q \in places : q < i - 1 /\ i - 1 < q + len THEN <<>>
        ELSE <<text[i]>>]

LEMMA ReplacedIs ==
    ASSUME NEW text, NEW places, NEW len, NEW by
    PROVE  ReplacedAt(text, places, len, by) = Joined(Cells(text, places, len, by), Len(text))
<1>1. [k \in 1 .. Len(text) |-> Cells(text, places, len, by)[k]] = Cells(text, places, len, by)
    BY DEF Cells
<1> QED BY <1>1 DEF ReplacedAt, Joined, Cells

LEMMA CellsAre ==
    ASSUME NEW text \in Seq(Chars), NEW places, NEW len, NEW by \in Seq(Chars)
    PROVE  Pieces(Cells(text, places, len, by), Len(text), Chars)
<1> SUFFICES ASSUME NEW k \in 1 .. Len(text)
             PROVE  Cells(text, places, len, by)[k] \in Seq(Chars)
    BY DEF Pieces
<1>1. <<>> \in Seq(Chars) /\ text[k] \in Chars /\ <<text[k]>> \in Seq(Chars)
    OBVIOUS
<1>2. Cells(text, places, len, by)[k] \in {by, <<>>, <<text[k]>>}
    BY DEF Cells
<1> QED BY <1>1, <1>2

(* Where nothing is replaced, the text is as it was.                       *)
LEMMA SinglesJoin ==
    ASSUME NEW text \in Seq(Chars), NEW f, Pieces(f, Len(text), Chars),
           NEW a \in 0 .. Len(text), NEW b \in a .. Len(text),
           \A i \in a + 1 .. b : f[i] = <<text[i]>>
    PROVE  Joined(f, b) = Joined(f, a) \o SubSeq(text, a + 1, b)
<1> DEFINE B == {i \in 0 .. b : i >= a => Joined(f, i) = Joined(f, a) \o SubSeq(text, a + 1, i)}
<1>0. /\ a \in Nat /\ b \in Nat /\ Len(text) \in Nat /\ b \in 0 .. b
      /\ Joined(f, a) \in Seq(Chars)
    <2>1. a \in Nat /\ b \in Nat /\ Len(text) \in Nat /\ a <= Len(text) /\ b \in 0 .. b
        OBVIOUS
    <2>2. Pieces(f, a, Chars)
        BY <2>1, FewerPieces
    <2> QED BY <2>1, <2>2, JoinedType
<1>1. Joined(f, a) = Joined(f, a) \o SubSeq(text, a + 1, a)
    <2>1. SubSeq(text, a + 1, a) = <<>>
        <3>1. SubSeq(text, a + 1, a) \in Seq(Chars) /\ Len(SubSeq(text, a + 1, a)) = a - a
            BY <1>0, CutIs
        <3> QED BY <1>0, <3>1
    <2>2. Joined(f, a) \o <<>> = Joined(f, a)
        BY <1>0, EmptyFirst
    <2> QED BY <2>1, <2>2
<1>2. 0 \in B
    <2>1. CASE a = 0
        BY <1>0, <1>1, <2>1
    <2>2. CASE a # 0
        BY <1>0, <2>2
    <2> QED BY <2>1, <2>2
<1>3. ASSUME NEW i \in 1 .. b, i - 1 \in B
      PROVE  i \in B
    <2>1. i \in 1 .. Len(text) /\ i \in 0 .. b /\ i \in Nat /\ i - 1 \in 0 .. Len(text)
        BY <1>0
    <2>2. CASE i < a
        BY <1>0, <2>1, <2>2
    <2>3. CASE i = a
        BY <1>1, <2>1, <2>3
    <2>4. CASE i > a
        <3>1. i - 1 >= a /\ i \in a + 1 .. b /\ i - 1 \in a .. Len(text) /\ i \in i - 1 .. Len(text)
            BY <1>0, <2>1, <2>4
        <3>2. Joined(f, i - 1) = Joined(f, a) \o SubSeq(text, a + 1, i - 1)
            BY <1>3, <3>1
        <3>3. Joined(f, i) = Joined(f, i - 1) \o f[i]
            BY <1>0, <2>1, JoinedTurn
        <3>4. f[i] = SubSeq(text, (i - 1) + 1, i)
            <4> DEFINE u == SubSeq(text, (i - 1) + 1, i)
            <4>1. u \in Seq(Chars) /\ Len(u) = i - (i - 1) /\ \A j \in 1 .. i - (i - 1) : u[j] = text[(i - 1) + j]
                BY <2>1, <3>1, CutIs
            <4> HIDE DEF u
            <4>2. Len(u) = 1 /\ u[1] = text[i]
                BY <2>1, <4>1
            <4>3. u = <<text[i]>>
                BY <4>1, <4>2
            <4>4. f[i] = <<text[i]>>
                BY <3>1
            <4> QED BY <4>3, <4>4 DEF u
        <3>5. SubSeq(text, a + 1, i - 1) \o SubSeq(text, (i - 1) + 1, i) = SubSeq(text, a + 1, i)
            BY <2>1, <3>1, CutsJoin
        <3>6. SubSeq(text, a + 1, i - 1) \in Seq(Chars)
            BY <3>1, CutIs
        <3>7. SubSeq(text, (i - 1) + 1, i) \in Seq(Chars)
            BY <2>1, <3>1, CutIs
        <3>8. Joined(f, i) = Joined(f, a) \o SubSeq(text, a + 1, i)
            <4> DEFINE A == Joined(f, a)
                       C == SubSeq(text, a + 1, i - 1)
                       D == SubSeq(text, (i - 1) + 1, i)
            <4>1. A \in Seq(Chars) /\ C \in Seq(Chars) /\ D \in Seq(Chars)
                BY <1>0, <3>6, <3>7
            <4>2. Joined(f, i) = (A \o C) \o D /\ C \o D = SubSeq(text, a + 1, i)
                BY <3>2, <3>3, <3>4, <3>5
            <4> HIDE DEF A, C, D
            <4>3. (A \o C) \o D = A \o (C \o D)
                <5>1. Grouped(A, C, D)
                    BY <4>1, GroupedIs
                <5> QED BY <5>1 DEF Grouped
            <4>4. Joined(f, i) = A \o SubSeq(text, a + 1, i)
                BY <4>2, <4>3, Zenon
            <4> QED BY <4>4 DEF A
        <3> QED BY <2>1, <3>8
    <2> HIDE DEF B
    <2> QED BY <1>0, <2>1, <2>2, <2>3, <2>4
<1>4. 0 .. b \subseteq B
    <2> HIDE DEF B
    <2> QED BY <1>0, <1>2, <1>3, UpTo
<1>5. b \in B
    BY <1>0, <1>4
<1>6. b >= a
    BY <1>0
<1> QED BY <1>5, <1>6

LEMMA EverywhereIs ==
    ASSUME NEW text \in Seq(Chars), NEW find \in Seq(Chars), NEW q \in Nat
    PROVE  q \in Everywhere(text, find) <=> At(text, q, find)
<1> DEFINE u == SubSeq(text, q + 1, q + Len(find))
<1>1. CASE q + Len(find) <= Len(text)
    <2>1. q \in 0 .. Len(text) /\ q + Len(find) \in q .. Len(text) /\ (q + Len(find)) - q = Len(find)
        BY <1>1
    <2>2. /\ u \in Seq(Chars) /\ Len(u) = Len(find)
          /\ \A j \in 1 .. Len(find) : u[j] = text[q + j]
        <3>1. /\ u \in Seq(Chars) /\ Len(u) = (q + Len(find)) - q
              /\ \A j \in 1 .. (q + Len(find)) - q : u[j] = text[q + j]
            BY <2>1, CutIs
        <3> HIDE DEF u
        <3> QED BY <2>1, <3>1
    <2>3. q \in Everywhere(text, find) <=> u = find
        BY <1>1, <2>1 DEF Everywhere
    <2> HIDE DEF u
    <2>4. u = find <=> \A j \in 1 .. Len(find) : text[q + j] = find[j]
        <3>1. ASSUME u = find, NEW j \in 1 .. Len(find) PROVE text[q + j] = find[j]
            BY <2>2, <3>1
        <3>2. ASSUME \A j \in 1 .. Len(find) : text[q + j] = find[j] PROVE u = find
            <4>1. \A j \in 1 .. Len(u) : u[j] = find[j]
                BY <2>2, <3>2
            <4> QED BY <2>2, <4>1, SameText
        <3> QED BY <3>1, <3>2
    <2> QED BY <1>1, <2>3, <2>4 DEF At
<1>2. CASE ~(q + Len(find) <= Len(text))
    BY <1>2 DEF At, Everywhere
<1> QED BY <1>1, <1>2

(* An occurrence in the rest of the text, seen from the text as it is now. *)
LEMMA AtBehind ==
    ASSUME NEW text \in Seq(Chars), NEW find \in Seq(Chars), NEW front \in Seq(Chars),
           NEW f \in 0 .. Len(text), NEW q \in Nat, f <= q
    PROVE  At(front \o SubSeq(text, f + 1, Len(text)), Len(front) + (q - f), find)
               <=> At(text, q, find)
<1> DEFINE rest == SubSeq(text, f + 1, Len(text))
           t == front \o rest
           a == Len(front) + (q - f)
<1>0. /\ f \in Nat /\ Len(text) \in Nat /\ Len(text) \in f .. Len(text)
      /\ Len(front) \in Nat /\ Len(find) \in Nat /\ q - f \in Nat
    OBVIOUS
<1>1. /\ rest \in Seq(Chars) /\ Len(rest) = Len(text) - f
      /\ \A i \in 1 .. Len(text) - f : rest[i] = text[f + i]
    BY <1>0, CutIs
<1> HIDE DEF rest
<1>a. rest \in Seq(Chars)
    BY <1>1
<1>2. /\ Len(t) = Len(front) + Len(rest)
      /\ \A i \in 1 .. Len(rest) : t[Len(front) + i] = rest[i]
    BY <1>a, JoinIs
<1> HIDE DEF t
<1>3. a + Len(find) <= Len(t) <=> q + Len(find) <= Len(text)
    BY <1>0, <1>1, <1>2
<1>4. ASSUME q + Len(find) <= Len(text), NEW j \in 1 .. Len(find)
      PROVE  t[a + j] = text[q + j]
    <2> DEFINE i == (q - f) + j
    <2>1. /\ i \in 1 .. Len(text) - f /\ a + j = Len(front) + i /\ f + i = q + j
          /\ i \in 1 .. Len(rest)
        BY <1>0, <1>1, <1>4
    <2> HIDE DEF i
    <2>2. t[Len(front) + i] = rest[i]
        BY <1>2, <2>1
    <2>3. rest[i] = text[f + i]
        BY <1>1, <2>1
    <2> QED BY <2>1, <2>2, <2>3
<1> HIDE DEF a
<1>5. At(t, a, find) <=> At(text, q, find)
    BY <1>3, <1>4 DEF At
<1> QED BY <1>5 DEF t, a, rest

-----------------------------------------------------------------------------
(* What ReplaceAll has done: it has chosen places, and is f characters     *)
(* into the text it started from; what it has made of those is in front.   *)
Passed(q, places, len, more) ==
    \E p \in places : p < q /\ (q < p + len \/ q + more < p + len + len)
Beginning(text, places, len, by, f) == Joined(Cells(text, places, len, by), f)

IsChosen(text, find, by, places, f) ==
    /\ places \subseteq Everywhere(text, find)
    /\ f \in 0 .. Len(text)
    /\ \A p \in places : p + Len(find) <= f
    /\ \A p, q \in places : p < q => p + Len(find) <= q
    /\ \A q \in Everywhere(text, find) :
          q < f /\ q \notin places => Passed(q, places, Len(find), Len(by))

(* Where it will look on: not far behind the last place, and nothing is    *)
(* found there before the rest of the text.                                *)
LooksOn(t, next, find, by, places, f, front) ==
    /\ places = {} => f = 0 /\ next = 0
    /\ places # {} => f - Len(find) \in places /\ next + Len(by) <= front + Len(find)
    /\ \A q \in Nat : next <= q /\ q < front => ~At(t, q, find)

GoneTo(text, t, next, find, by, places, f) ==
    /\ IsChosen(text, find, by, places, f)
    /\ t = Beginning(text, places, Len(find), by, f) \o SubSeq(text, f + 1, Len(text))
    /\ LooksOn(t, next, find, by, places, f, Len(Beginning(text, places, Len(find), by, f)))

(* A search and its replacement, and the first place it finds, if any.     *)
Asked(text, find, by, next) ==
    /\ text \in Seq(Chars) /\ find \in Seq(Chars) /\ by \in Seq(Chars) /\ next \in Nat
    /\ find # <<>> /\ by # <<>> /\ Unlike(find, by)
NoneUpTo(t, next, a, find) == \A q \in Nat : next <= q /\ q < a => ~At(t, q, find)

LEMMA FrontTyped ==
    ASSUME NEW text \in Seq(Chars), NEW by \in Seq(Chars), NEW places, NEW len,
           NEW f \in 0 .. Len(text)
    PROVE  Beginning(text, places, len, by, f) \in Seq(Chars)
<1>1. f \in Nat /\ f <= Len(text) /\ Len(text) \in Nat
    OBVIOUS
<1>2. Pieces(Cells(text, places, len, by), f, Chars)
    BY <1>1, CellsAre, FewerPieces
<1> QED BY <1>1, <1>2, JoinedType DEF Beginning

LEMMA NotEmpty ==
    ASSUME NEW s \in Seq(Chars), s # <<>>
    PROVE  Len(s) \in Nat \ {0}
OBVIOUS

(* The place found, in the text ReplaceAll started from.                   *)
LEMMA PlaceFound ==
    ASSUME NEW text, NEW t, NEW next, NEW find, NEW by, NEW places, NEW f, NEW a \in Nat,
           Asked(text, find, by, next), GoneTo(text, t, next, find, by, places, f),
           next <= a, At(t, a, find)
    PROVE  \E p \in Everywhere(text, find) :
              /\ p \in Nat /\ f <= p
              /\ p + Len(find) \in 0 .. Len(text)
              /\ a = Len(Beginning(text, places, Len(find), by, f)) + (p - f)
<1> DEFINE X == Beginning(text, places, Len(find), by, f)
           p == f + (a - Len(X))
<1>1. /\ text \in Seq(Chars) /\ find \in Seq(Chars) /\ by \in Seq(Chars) /\ next \in Nat
      /\ f \in 0 .. Len(text) /\ Len(text) \in Nat /\ Len(find) \in Nat /\ f \in Nat
    BY DEF Asked, GoneTo, IsChosen
<1>2. X \in Seq(Chars)
    BY <1>1, FrontTyped
<1>3. /\ t = X \o SubSeq(text, f + 1, Len(text))
      /\ \A q \in Nat : next <= q /\ q < Len(X) => ~At(t, q, find)
    BY DEF GoneTo, LooksOn
<1> HIDE DEF X
<1>4. Len(X) \in Nat /\ a >= Len(X)
    BY <1>2, <1>3
<1>5. p \in Nat /\ f <= p /\ p - f = a - Len(X) /\ a = Len(X) + (p - f)
    BY <1>1, <1>4
<1> HIDE DEF p
<1>6. At(text, p, find)
    BY <1>1, <1>2, <1>3, <1>5, AtBehind
<1>7. p \in Everywhere(text, find)
    BY <1>1, <1>5, <1>6, EverywhereIs
<1>8. p + Len(find) \in 0 .. Len(text)
    BY <1>1, <1>5, <1>6 DEF At
<1> QED BY <1>5, <1>7, <1>8 DEF X

(* What is in front then.                                                  *)
Grows(text, find, by, places, f, p) ==
    Beginning(text, places \cup {p}, Len(find), by, p + Len(find)) =
        (Beginning(text, places, Len(find), by, f) \o SubSeq(text, f + 1, p)) \o by
LEMMA FrontGrows ==
    ASSUME NEW text \in Seq(Chars), NEW find \in Seq(Chars), find # <<>>, NEW by \in Seq(Chars),
           NEW places, NEW f, IsChosen(text, find, by, places, f),
           NEW p \in Nat, f <= p, p + Len(find) \in 0 .. Len(text)
    PROVE  Grows(text, find, by, places, f, p)
<1> DEFINE len == Len(find)
           old == Cells(text, places, len, by)
           new == Cells(text, places \cup {p}, len, by)
<1>1. len \in Nat \ {0} /\ Len(text) \in Nat /\ f \in Nat /\ f \in 0 .. Len(text)
    BY NotEmpty DEF IsChosen
<1>2. \A q \in places : q \in Nat /\ q + len <= f
    BY DEF IsChosen, Everywhere
<1>3. Pieces(new, Len(text), Chars)
    BY CellsAre
<1>4. \A i \in 1 .. Len(text) :
          /\ old[i] = IF i - 1 \in places THEN by
                      ELSE IF \E q \in places : q < i - 1 /\ i - 1 < q + len THEN <<>>
                      ELSE <<text[i]>>
          /\ new[i] = IF i - 1 \in places \cup {p} THEN by
                      ELSE IF \E q \in places \cup {p} : q < i - 1 /\ i - 1 < q + len THEN <<>>
                      ELSE <<text[i]>>
    BY DEF Cells
<1> HIDE DEF old, new, len
<1>5. Joined(old, f) = Joined(new, f)
    <2>1. ASSUME NEW i \in 1 .. f
          PROVE  old[i] = new[i]
        <3>1. i \in 1 .. Len(text) /\ i - 1 # p /\ ~(p < i - 1)
            BY <1>1
        <3> QED BY <1>4, <3>1
    <2> QED BY <1>1, <2>1, JoinedSame
<1>6. ASSUME NEW i \in f + 1 .. p
      PROVE  new[i] = <<text[i]>>
    <2>1. i \in 1 .. Len(text) /\ i - 1 # p /\ ~(p < i - 1) /\ i \in Nat /\ i - 1 >= f
        BY <1>1 DEF len
    <2>2. \A q \in places : ~(i - 1 < q + len) /\ q # i - 1
        BY <1>1, <1>2, <2>1
    <2> QED BY <1>4, <2>1, <2>2
<1>7. Joined(new, p) = Joined(new, f) \o SubSeq(text, f + 1, p)
    <2>1. f \in 0 .. Len(text) /\ p \in f .. Len(text)
        BY <1>1 DEF len
    <2> QED BY <1>3, <1>6, <2>1, SinglesJoin
<1>8. Joined(new, p + 1) = Joined(new, p) \o by
    <2>1. p + 1 \in 1 .. Len(text) /\ (p + 1) - 1 = p
        BY <1>1 DEF len
    <2>2. new[p + 1] = by
        BY <1>4, <2>1
    <2>3. Joined(new, p + 1) = Joined(new, (p + 1) - 1) \o new[p + 1]
        BY <1>1, <1>3, <2>1, JoinedTurn
    <2> QED BY <2>1, <2>2, <2>3
<1>9. ASSUME NEW i \in (p + 1) + 1 .. p + len
      PROVE  new[i] = <<>>
    <2>1. i \in 1 .. Len(text) /\ i - 1 # p /\ p < i - 1 /\ i - 1 < p + len /\ i \in Nat /\ i - 1 >= f
        BY <1>1 DEF len
    <2>2. \A q \in places : q # i - 1
        BY <1>1, <1>2, <2>1
    <2> QED BY <1>4, <2>1, <2>2
<1>10. Joined(new, p + len) = Joined(new, p + 1)
    <2>1. p + len \in Nat /\ p + 1 \in 0 .. p + len /\ p + len <= Len(text)
        BY <1>1 DEF len
    <2>2. Pieces(new, p + len, Chars)
        BY <1>1, <1>3, <2>1, FewerPieces
    <2> QED BY <1>9, <2>1, <2>2, JoinedRest
<1> QED BY <1>5, <1>7, <1>8, <1>10 DEF Grows, Beginning, old, new, len

(* The rest of the text, in front of the place, there and behind it.       *)
InParts(text, f, p, m) ==
    /\ SubSeq(text, f + 1, p) \in Seq(Chars) /\ Len(SubSeq(text, f + 1, p)) = p - f
    /\ SubSeq(text, p + 1, m) \in Seq(Chars) /\ Len(SubSeq(text, p + 1, m)) = m - p
    /\ SubSeq(text, m + 1, Len(text)) \in Seq(Chars)
    /\ SubSeq(text, f + 1, Len(text)) =
          SubSeq(text, f + 1, p) \o (SubSeq(text, p + 1, m) \o SubSeq(text, m + 1, Len(text)))
LEMMA RestParts ==
    ASSUME NEW text \in Seq(Chars), NEW f \in Nat, NEW p \in Nat, NEW m \in Nat,
           f <= p, p <= m, m <= Len(text)
    PROVE  InParts(text, f, p, m)
<1> DEFINE n == Len(text)
<1>1. /\ n \in Nat /\ m \in 0 .. n /\ p \in f .. n /\ m \in p .. n /\ n \in m .. n
      /\ f \in 0 .. n /\ p \in 0 .. n /\ n \in p .. n /\ n \in 0 .. n
    OBVIOUS
<1>2. SubSeq(text, f + 1, p) \in Seq(Chars) /\ Len(SubSeq(text, f + 1, p)) = p - f
    BY <1>1, CutIs
<1>3. SubSeq(text, p + 1, m) \in Seq(Chars) /\ Len(SubSeq(text, p + 1, m)) = m - p
    BY <1>1, CutIs
<1>4. SubSeq(text, m + 1, n) \in Seq(Chars)
    BY <1>1, CutIs
<1>5. SubSeq(text, f + 1, p) \o SubSeq(text, p + 1, n) = SubSeq(text, f + 1, n)
    BY <1>1, CutsJoin
<1>6. SubSeq(text, p + 1, m) \o SubSeq(text, m + 1, n) = SubSeq(text, p + 1, n)
    BY <1>1, CutsJoin
<1> QED BY <1>2, <1>3, <1>4, <1>5, <1>6 DEF InParts

Regrouped(X, P, B, C) ==
    /\ X \o (P \o (B \o C)) = (X \o P) \o (B \o C)
    /\ X \o P \in Seq(Chars) /\ Len(X \o P) = Len(X) + Len(P)
LEMMA JoinParts ==
    ASSUME NEW X \in Seq(Chars), NEW P \in Seq(Chars), NEW B \in Seq(Chars), NEW C \in Seq(Chars)
    PROVE  Regrouped(X, P, B, C)
<1> DEFINE D == B \o C
<1>1. D \in Seq(Chars) /\ X \o P \in Seq(Chars) /\ Len(X \o P) = Len(X) + Len(P)
    BY JoinIs
<1> HIDE DEF D
<1>2. (X \o P) \o D = X \o (P \o D)
    <2>1. Grouped(X, P, D)
        BY <1>1, GroupedIs
    <2> QED BY <2>1 DEF Grouped
<1> QED BY <1>1, <1>2 DEF D, Regrouped

(* The text then.                                                          *)
SplicedText(X, P, B, C, c) == Edited!Spliced(X \o (P \o (B \o C)), c) = ((X \o P) \o c.by) \o C
LEMMA TextGrows ==
    ASSUME NEW X \in Seq(Chars), NEW P \in Seq(Chars), NEW B \in Seq(Chars), NEW C \in Seq(Chars),
           NEW c \in Calls, c.at = Len(X) + Len(P), c.count = Len(B)
    PROVE  SplicedText(X, P, B, C, c)
<1> DEFINE A == X \o P
<1>0. Regrouped(X, P, B, C)
    BY JoinParts
<1>1. X \o (P \o (B \o C)) = A \o (B \o C) /\ A \in Seq(Chars) /\ Len(A) = c.at
    BY <1>0 DEF Regrouped
<1> HIDE DEF A
<1>2. Edited!Spliced(A \o (B \o C), c) = A \o (c.by \o C)
    <2>1. InMiddle(A, B, C, c)
        BY <1>1, MiddleSpliced
    <2> QED BY <2>1 DEF InMiddle
<1>3. c.by \in Seq(Chars)
    BY DEF Calls
<1>4. (A \o c.by) \o C = A \o (c.by \o C)
    <2>1. Grouped(A, c.by, C)
        BY <1>1, <1>3, GroupedIs
    <2> QED BY <2>1 DEF Grouped
<1> QED BY <1>1, <1>2, <1>4 DEF A, SplicedText

(* Nothing is found up to the end of what has been put there: it has no    *)
(* character of the one searched.                                          *)
LEMMA NoneInside ==
    ASSUME NEW X \in Seq(Chars), NEW P \in Seq(Chars), NEW R \in Seq(Chars), NEW C \in Seq(Chars),
           NEW find \in Seq(Chars), NEW by \in Seq(Chars), find # <<>>, by # <<>>,
           Unlike(find, by), NEW next \in Nat,
           NoneUpTo(X \o (P \o R), next, Len(X) + Len(P), find)
    PROVE  NoneUpTo(((X \o P) \o by) \o C, next, Len((X \o P) \o by), find)
<1> DEFINE A == X \o P
           Y == A \o by
           new == Y \o C
           old == A \o R
<1>1. A \in Seq(Chars) /\ Len(A) = Len(X) + Len(P)
    BY JoinIs
<1>2. X \o (P \o R) = old
    <2>1. Grouped(X, P, R)
        BY GroupedIs
    <2> QED BY <2>1 DEF Grouped
<1> HIDE DEF A
<1>3. /\ Y \in Seq(Chars) /\ Len(Y) = Len(A) + Len(by)
      /\ \A i \in 1 .. Len(A) : Y[i] = A[i]
      /\ \A i \in 1 .. Len(by) : Y[Len(A) + i] = by[i]
    BY <1>1, JoinIs
<1> HIDE DEF Y
<1>4. /\ Len(new) = Len(Y) + Len(C)
      /\ \A i \in 1 .. Len(Y) : new[i] = Y[i]
    <2>1. Y \in Seq(Chars)
        BY <1>3
    <2> QED BY <2>1, JoinIs
<1>5. /\ Len(old) = Len(A) + Len(R)
      /\ \A i \in 1 .. Len(A) : old[i] = A[i]
    <2>1. A \in Seq(Chars)
        BY <1>1
    <2> QED BY <2>1, JoinIs
<1> HIDE DEF new, old
<1>6. Len(find) \in Nat \ {0} /\ Len(by) \in Nat \ {0} /\ Len(A) \in Nat /\ Len(R) \in Nat
    BY <1>1, NotEmpty
<1>7. ASSUME NEW q \in Nat, next <= q, q < Len(Y), At(new, q, find)
      PROVE  FALSE
    <2>1. CASE q + Len(find) <= Len(A)
        <3>1. q + Len(find) <= Len(old) /\ q < Len(A)
            BY <1>5, <1>6, <2>1
        <3>2. \A j \in 1 .. Len(find) : old[q + j] = find[j]
            <4> TAKE j \in 1 .. Len(find)
            <4>1. q + j \in 1 .. Len(A) /\ q + j \in 1 .. Len(Y)
                BY <1>3, <1>6, <2>1
            <4>2. new[q + j] = find[j]
                BY <1>7 DEF At
            <4> QED BY <1>3, <1>4, <1>5, <4>1, <4>2
        <3>3. At(old, q, find)
            BY <3>1, <3>2 DEF At
        <3> QED BY <1>1, <1>2, <1>7, <3>1, <3>3 DEF NoneUpTo
    <2>2. CASE ~(q + Len(find) <= Len(A))
        <3> DEFINE k == IF q < Len(A) THEN Len(A) + 1 ELSE q + 1
        <3>1. /\ k - q \in 1 .. Len(find) /\ k - Len(A) \in 1 .. Len(by) /\ k \in 1 .. Len(Y)
              /\ q + (k - q) = k /\ Len(A) + (k - Len(A)) = k
            BY <1>3, <1>6, <1>7, <2>2, SMTT(30)
        <3> HIDE DEF k
        <3>2. new[k] = find[k - q]
            <4>1. new[q + (k - q)] = find[k - q]
                BY <1>7, <3>1 DEF At
            <4> QED BY <3>1, <4>1
        <3>3. Y[k] = by[k - Len(A)]
            <4>1. Y[Len(A) + (k - Len(A))] = by[k - Len(A)]
                BY <1>3, <3>1
            <4> QED BY <3>1, <4>1
        <3>4. new[k] = Y[k]
            BY <1>4, <3>1
        <3>5. find[k - q] \in Range(find) /\ by[k - Len(A)] \in Range(by)
            BY <3>1, SMTT(30) DEF Range
        <3> QED BY <3>2, <3>3, <3>4, <3>5 DEF Unlike
    <2> QED BY <2>1, <2>2
<1> QED BY <1>7 DEF NoneUpTo, new, Y, A

(* What a search before has gone beyond is passed.                         *)
LEMMA BehindIsPassed ==
    ASSUME NEW text, NEW t, NEW next, NEW find, NEW by, NEW places, NEW f,
           Asked(text, find, by, next), GoneTo(text, t, next, find, by, places, f),
           NEW q \in Everywhere(text, find), f <= q,
           \A a \in Nat : next <= a /\ At(t, a, find)
                => Len(Beginning(text, places, Len(find), by, f)) + (q - f) < a
    PROVE  Passed(q, places, Len(find), Len(by))
<1> DEFINE X == Beginning(text, places, Len(find), by, f)
           a == Len(X) + (q - f)
           len == Len(find)
<1>1. /\ text \in Seq(Chars) /\ find \in Seq(Chars) /\ by \in Seq(Chars) /\ next \in Nat
      /\ f \in 0 .. Len(text) /\ Len(text) \in Nat /\ len \in Nat \ {0} /\ f \in Nat
      /\ Len(by) \in Nat /\ q \in Nat
    <2>1. Len(find) \in Nat \ {0}
        BY NotEmpty DEF Asked
    <2> QED BY <2>1 DEF Asked, GoneTo, IsChosen, Everywhere
<1>2. X \in Seq(Chars) /\ Len(X) \in Nat
    BY <1>1, FrontTyped
<1>3. /\ t = X \o SubSeq(text, f + 1, Len(text))
      /\ places = {} => f = 0 /\ next = 0
      /\ places # {} => f - len \in places /\ next + Len(by) <= Len(X) + len
    BY DEF GoneTo, LooksOn
<1> HIDE DEF X
<1>4. At(text, q, find)
    BY <1>1, EverywhereIs
<1>5. At(t, a, find)
    BY <1>1, <1>2, <1>3, <1>4, AtBehind
<1>6. a \in Nat /\ a >= Len(X) /\ a - Len(X) = q - f
    BY <1>1, <1>2
<1>7. \A b \in Nat : next <= b /\ At(t, b, find) => a < b
    BY DEF X
<1> HIDE DEF a
<1>8. a < next
    BY <1>1, <1>5, <1>6, <1>7
<1>9. places # {}
    BY <1>3, <1>6, <1>8
<1>10. f - len \in places /\ next + Len(by) <= Len(X) + len
    BY <1>3, <1>9
<1> HIDE DEF len
<1>11. f - len < q /\ q + Len(by) < (f - len) + len + len
    BY <1>1, <1>2, <1>6, <1>8, <1>10
<1> QED BY <1>10, <1>11 DEF Passed, len

LEMMA ChosenGrows ==
    ASSUME NEW text, NEW t, NEW next, NEW find, NEW by, NEW places, NEW f,
           Asked(text, find, by, next), GoneTo(text, t, next, find, by, places, f),
           NEW p \in Everywhere(text, find), f <= p, p + Len(find) \in 0 .. Len(text),
           NoneUpTo(t, next, Len(Beginning(text, places, Len(find), by, f)) + (p - f), find)
    PROVE  IsChosen(text, find, by, places \cup {p}, p + Len(find))
<1> DEFINE X == Beginning(text, places, Len(find), by, f)
           len == Len(find)
           m == Len(by)
           new == places \cup {p}
           g == p + len
<1>1. /\ text \in Seq(Chars) /\ find \in Seq(Chars) /\ by \in Seq(Chars) /\ next \in Nat
      /\ f \in 0 .. Len(text) /\ Len(text) \in Nat /\ len \in Nat \ {0} /\ f \in Nat
      /\ m \in Nat /\ p \in Nat
    <2>1. Len(find) \in Nat \ {0}
        BY NotEmpty DEF Asked
    <2> QED BY <2>1 DEF Asked, GoneTo, IsChosen, Everywhere
<1>2. X \in Seq(Chars) /\ Len(X) \in Nat
    BY <1>1, FrontTyped
<1>3. /\ places \subseteq Everywhere(text, find)
      /\ \A r \in places : r + len <= f
      /\ \A r, q \in places : r < q => r + len <= q
      /\ \A q \in Everywhere(text, find) : q < f /\ q \notin places => Passed(q, places, len, m)
    BY DEF GoneTo, IsChosen
<1>4. \A q \in Everywhere(text, find) : q \in Nat
    BY DEF Everywhere
<1>5. \A a \in Nat : next <= a /\ At(t, a, find) => ~(a < Len(X) + (p - f))
    BY DEF NoneUpTo, X
<1>6. ASSUME NEW q \in Everywhere(text, find), f <= q, q < p
      PROVE  Passed(q, places, len, m)
    <2>1. Len(X) + (q - f) < Len(X) + (p - f) /\ Len(X) + (q - f) \in Nat /\ Len(X) + (p - f) \in Nat
        <3>1. q \in Nat
            BY <1>4
        <3> HIDE DEF X
        <3> QED BY <1>1, <1>2, <1>6, <3>1
    <2> DEFINE u == Len(X) + (q - f)
               v == Len(X) + (p - f)
    <2>2. \A a \in Nat : next <= a /\ At(t, a, find) => u < a
        <3> HIDE DEF X
        <3>1. u < v /\ u \in Nat /\ v \in Nat /\ \A a \in Nat : next <= a /\ At(t, a, find) => ~(a < v)
            BY <1>5, <2>1
        <3> HIDE DEF u, v
        <3> QED BY <3>1
    <2> QED BY <1>6, <2>2, BehindIsPassed
<1> HIDE DEF X, len, m
<1>7. new \subseteq Everywhere(text, find) /\ g \in 0 .. Len(text)
    BY <1>3 DEF len
<1>8. \A r \in new : r + len <= g
    BY <1>1, <1>3, <1>4
<1>9. ASSUME NEW r \in new, NEW q \in new, r < q
      PROVE  r + len <= q
    <2>1. r \in Nat /\ q \in Nat
        BY <1>4, <1>7
    <2>2. CASE r \in places /\ q \in places
        BY <1>3, <1>9, <2>2
    <2>3. CASE r \in places /\ q = p
        <3>1. r + len <= f
            BY <1>3, <2>3
        <3> QED BY <1>1, <2>1, <2>3, <3>1
    <2>4. CASE r = p /\ q \in places
        <3>1. q + len <= f
            BY <1>3, <2>4
        <3> QED BY <1>1, <1>9, <2>1, <2>4, <3>1
    <2>5. CASE r = p /\ q = p
        BY <1>9, <2>1, <2>5
    <2> QED BY <2>2, <2>3, <2>4, <2>5
<1>10. ASSUME NEW q \in Everywhere(text, find), q < g, q \notin new
       PROVE  Passed(q, new, len, m)
    <2>1. q \in Nat /\ q # p /\ q \notin places
        BY <1>4, <1>10
    <2>2. CASE q < p
        <3>1. Passed(q, places, len, m)
            BY <1>1, <1>3, <1>6, <2>1, <2>2
        <3> QED BY <3>1 DEF Passed
    <2>3. CASE ~(q < p)
        <3>1. p < q /\ q < p + len /\ p \in new
            BY <1>1, <1>10, <2>1, <2>3
        <3> QED BY <3>1 DEF Passed
    <2> QED BY <2>2, <2>3
<1> HIDE DEF new, g
<1>11. IsChosen(text, find, by, new, g)
    BY <1>7, <1>8, <1>9, <1>10 DEF IsChosen, len, m
<1> QED BY <1>11 DEF new, g, len

(* One replacement.                                                        *)
LEMMA ReplaceGoes ==
    ASSUME NEW text, NEW t, NEW next, NEW find, NEW by, NEW places, NEW f, NEW a \in Nat,
           Asked(text, find, by, next), GoneTo(text, t, next, find, by, places, f),
           next <= a, At(t, a, find), NoneUpTo(t, next, a, find),
           NEW c \in Calls, c.at = a, c.count = Len(find), c.by = by
    PROVE  \E new, g : GoneTo(text, Edited!Spliced(t, c), next + Len(find), find, by, new, g)
<1> DEFINE len == Len(find)
           X == Beginning(text, places, len, by, f)
<1>1. PICK p \in Everywhere(text, find) :
              /\ p \in Nat /\ f <= p /\ p + len \in 0 .. Len(text)
              /\ a = Len(X) + (p - f)
    BY PlaceFound
<1>2. /\ text \in Seq(Chars) /\ find \in Seq(Chars) /\ by \in Seq(Chars) /\ next \in Nat
      /\ find # <<>> /\ by # <<>> /\ Unlike(find, by)
      /\ f \in 0 .. Len(text) /\ Len(text) \in Nat /\ f \in Nat
      /\ IsChosen(text, find, by, places, f)
      /\ t = X \o SubSeq(text, f + 1, Len(text))
    BY DEF Asked, GoneTo, IsChosen
<1>3. len \in Nat \ {0} /\ Len(by) \in Nat
    BY <1>2, NotEmpty
<1>4. X \in Seq(Chars) /\ Len(X) \in Nat
    BY <1>2, FrontTyped
<1> DEFINE g == p + len
           new == places \cup {p}
           Y == Beginning(text, new, len, by, g)
           P == SubSeq(text, f + 1, p)
           B == SubSeq(text, p + 1, g)
           C == SubSeq(text, g + 1, Len(text))
<1>5. Y = (X \o P) \o by
    <2>1. p \in Nat /\ f <= p /\ p + Len(find) \in 0 .. Len(text)
        BY <1>1
    <2>2. Grows(text, find, by, places, f, p)
        BY <1>2, <2>1, FrontGrows
    <2> QED BY <2>2 DEF Grows
<1>6. IsChosen(text, find, by, new, g)
    BY <1>1, ChosenGrows
<1>7. g \in Nat /\ p <= g /\ g <= Len(text)
    BY <1>1, <1>3
<1>8. /\ P \in Seq(Chars) /\ Len(P) = p - f /\ B \in Seq(Chars) /\ Len(B) = g - p
      /\ C \in Seq(Chars) /\ SubSeq(text, f + 1, Len(text)) = P \o (B \o C)
    <2> HIDE DEF g
    <2>1. InParts(text, f, p, g)
        <3>1. p \in Nat /\ f <= p
            BY <1>1
        <3> QED BY <1>2, <1>7, <3>1, RestParts
    <2> QED BY <2>1 DEF InParts
<1>9. Len(B) = len
    BY <1>1, <1>3, <1>8
<1> HIDE DEF len, X, P, B, C
<1>10. t = X \o (P \o (B \o C))
    BY <1>2, <1>8
<1>11. c.at = Len(X) + Len(P) /\ c.count = Len(B)
    BY <1>1, <1>8, <1>9 DEF len
<1>12. Edited!Spliced(t, c) = Y \o C
    <2>1. Edited!Spliced(X \o (P \o (B \o C)), c) = ((X \o P) \o c.by) \o C
        <3>1. X \in Seq(Chars) /\ P \in Seq(Chars) /\ B \in Seq(Chars) /\ C \in Seq(Chars)
            BY <1>4, <1>8
        <3>2. SplicedText(X, P, B, C, c)
            BY <1>11, <3>1, TextGrows
        <3> QED BY <3>2 DEF SplicedText
    <2> QED BY <1>5, <1>10, <2>1
<1> HIDE DEF new, g
<1>13. LooksOn(Y \o C, next + len, find, by, new, g, Len(Y))
    <2> DEFINE R == B \o C
    <2>1. R \in Seq(Chars)
        <3>1. B \in Seq(Chars) /\ C \in Seq(Chars)
            BY <1>8
        <3> QED BY <3>1, JoinIs
    <2>2. NoneUpTo(X \o (P \o R), next, Len(X) + Len(P), find)
        BY <1>10, <1>11
    <2> HIDE DEF R, Y
    <2>3. NoneUpTo(((X \o P) \o by) \o C, next, Len((X \o P) \o by), find)
        BY <1>2, <1>4, <1>8, <2>1, <2>2, NoneInside
    <2>4. NoneUpTo(Y \o C, next, Len(Y), find)
        BY <1>5, <2>3
    <2>5. \A q \in Nat : next + len <= q /\ q < Len(Y) => ~At(Y \o C, q, find)
        <3>1. \A q \in Nat : next + len <= q => next <= q
            BY <1>2, <1>3
        <3> QED BY <2>4, <3>1 DEF NoneUpTo
    <2>6. Len(Y) = (Len(X) + Len(P)) + Len(by)
        <3>1. X \o P \in Seq(Chars) /\ Len(X \o P) = Len(X) + Len(P)
            BY <1>4, <1>8, JoinIs
        <3>2. Len((X \o P) \o by) = Len(X \o P) + Len(by)
            BY <1>2, <3>1, JoinIs
        <3> QED BY <1>5, <3>1, <3>2
    <2>7. (next + len) + Len(by) <= Len(Y) + len
        BY <1>2, <1>3, <1>11, <2>6
    <2>8. new # {} /\ g - len \in new
        BY <1>1, <1>3 DEF new, g
    <2> QED BY <2>5, <2>7, <2>8 DEF LooksOn, len
<1>14. GoneTo(text, Edited!Spliced(t, c), next + len, find, by, new, g)
    BY <1>6, <1>12, <1>13 DEF GoneTo, len, C
<1> QED BY <1>14 DEF len

(* Before the first replacement, and when nothing more is found.           *)
LEMMA ReplaceStarts ==
    ASSUME NEW text \in Seq(Chars), NEW find \in Seq(Chars), NEW by \in Seq(Chars)
    PROVE  GoneTo(text, text, 0, find, by, {}, 0)
<1>1. Beginning(text, {}, Len(find), by, 0) = <<>> /\ Len(<<>>) = 0
    BY JoinedZero DEF Beginning
<1>2. text = <<>> \o SubSeq(text, 0 + 1, Len(text))
    BY WholeCut, EmptyFirst
<1>3. IsChosen(text, find, by, {}, 0)
    BY DEF IsChosen, Everywhere
<1>4. LooksOn(text, 0, find, by, {}, 0, 0)
    BY DEF LooksOn
<1> QED BY <1>1, <1>2, <1>3, <1>4 DEF GoneTo

LEMMA ReplaceFinishes ==
    ASSUME NEW text, NEW t, NEW next, NEW find, NEW by, NEW places, NEW f,
           Asked(text, find, by, next), GoneTo(text, t, next, find, by, places, f),
           \A a \in Nat : next <= a => ~At(t, a, find)
    PROVE  t \in Replacements(text, find, by)
<1> DEFINE len == Len(find)
           m == Len(by)
           all == Everywhere(text, find)
           cells == Cells(text, places, len, by)
<1>1. /\ text \in Seq(Chars) /\ find \in Seq(Chars) /\ by \in Seq(Chars)
      /\ f \in 0 .. Len(text) /\ Len(text) \in Nat /\ f \in Nat /\ len \in Nat
      /\ Len(text) \in f .. Len(text)
    BY DEF Asked, GoneTo, IsChosen
<1>2. /\ places \subseteq all
      /\ \A p \in places : p + len <= f
      /\ \A p, q \in places : p < q => p + len <= q
      /\ \A q \in all : q < f /\ q \notin places => Passed(q, places, len, m)
    BY DEF GoneTo, IsChosen
<1>3. \A q \in all : q \in Nat
    BY DEF Everywhere
<1>4. ASSUME NEW q \in all, q \notin places
      PROVE  Passed(q, places, len, m)
    <2>1. CASE q < f
        BY <1>2, <1>4, <2>1
    <2>2. CASE ~(q < f)
        <3>1. f <= q
            BY <1>1, <1>3, <2>2
        <3>2. q \in Everywhere(text, find)
            BY <1>4
        <3> QED BY <3>1, <3>2, BehindIsPassed
    <2> QED BY <2>1, <2>2
<1>5. places \in Chosen(all, len, m)
    <2> HIDE DEF all, len, m
    <2>1. ASSUME NEW q \in all
          PROVE  IF q \in places THEN \A p \in places : p < q => p + len <= q
                 ELSE \E p \in places : p < q /\ (q < p + len \/ q + m < p + len + len)
        <3>1. CASE q \in places
            BY <1>2, <3>1
        <3>2. CASE q \notin places
            <4>1. Passed(q, places, len, m)
                BY <1>4, <3>2
            <4> QED BY <3>2, <4>1 DEF Passed
        <3> QED BY <3>1, <3>2
    <2> QED BY <1>2, <2>1 DEF Chosen
<1>6. Joined(cells, Len(text)) = Joined(cells, f) \o SubSeq(text, f + 1, Len(text))
    <2>1. Pieces(cells, Len(text), Chars)
        BY <1>1, CellsAre
    <2>2. ASSUME NEW i \in f + 1 .. Len(text)
          PROVE  cells[i] = <<text[i]>>
        <3>1. i \in 1 .. Len(text) /\ i \in Nat /\ i - 1 >= f
            BY <1>1
        <3>2. \A q \in places : (~(i - 1 < q + len) /\ q # i - 1) \/ (len = 0 /\ ~(i - 1 < q + len))
            <4> TAKE q \in places
            <4>1. q \in Nat /\ q + len <= f
                BY <1>2, <1>3
            <4> HIDE DEF len
            <4> QED BY <1>1, <3>1, <4>1
        <3>3. len # 0
            <4>1. Len(find) \in Nat \ {0}
                BY <1>1, NotEmpty DEF Asked
            <4> QED BY <4>1
        <3>4. i - 1 \notin places /\ ~(\E q \in places : q < i - 1 /\ i - 1 < q + len)
            BY <3>2, <3>3
        <3> QED BY <3>1, <3>4 DEF Cells
    <2> HIDE DEF cells
    <2> QED BY <1>1, <2>1, <2>2, SinglesJoin
<1>7. t = ReplacedAt(text, places, len, by)
    <2>1. t = Joined(cells, f) \o SubSeq(text, f + 1, Len(text))
        BY DEF GoneTo, Beginning
    <2>2. ReplacedAt(text, places, len, by) = Joined(cells, Len(text))
        BY ReplacedIs
    <2> QED BY <1>6, <2>1, <2>2
<1>8. Replacements(text, find, by) = {ReplacedAt(text, s, len, by) : s \in Chosen(all, len, m)}
    BY DEF Replacements, Everywhere
<1> HIDE DEF all, len, m
<1> QED BY <1>5, <1>7, <1>8

(* Find, over the buffer and over the text.                                *)
LEMMA FoundIs ==
    ASSUME NEW e, IsEditor(e), NEW from \in Nat, NEW find \in Seq(Chars), NEW q \in Nat
    PROVE  q \in FoundFrom(e, from, find) <=> from <= q /\ At(Content(e), q, find)
<1> DEFINE len == Len(find)
           t == Content(e)
<1>1. len \in Nat /\ e.size \in Nat /\ Len(t) = e.size
    BY ContentIs
<1>2. ASSUME q + len <= e.size, NEW j \in 1 .. len
      PROVE  t[q + j] = e.text[q + j - 1]
    <2>1. q + j \in 1 .. e.size
        BY <1>1, <1>2
    <2> HIDE DEF t, len
    <2>2. \A i \in 1 .. e.size : t[i] = e.text[i - 1]
        BY ContentIs DEF t
    <2> QED BY <2>1, <2>2
<1> HIDE DEF t, len
<1>3. q + len <= e.size => (Occurs(e, q, find) <=> \A j \in 1 .. len : t[q + j] = find[j])
    BY <1>2 DEF Occurs, len
<1>4. q \in from .. e.size /\ q + len <= e.size <=> from <= q /\ q + len <= e.size
    BY <1>1
<1>5. q \in FoundFrom(e, from, find) <=> q \in from .. e.size /\ q + len <= e.size /\ Occurs(e, q, find)
    BY DEF FoundFrom, len
<1> QED BY <1>1, <1>3, <1>4, <1>5 DEF At, t, len

-----------------------------------------------------------------------------
(* The loops.  Tokens belong to the text they were cut from; a rebuilding  *)
(* and a ReplaceAll have done a part of what they will.                    *)
ReplacedSoFar ==
    /\ job.find # <<>>
    /\ job.by # <<>> /\ Unlike(job.find, job.by) =>
          \E places, f : GoneTo(job.from, Content(editor), job.next, job.find, job.by, places, f)

LoopInv ==
    /\ stage \in {"editing", "replacing"} => tokens = <<>>
    /\ stage \in {"parsing", "viewing"} => Ordered(Content(editor), tokens)
    /\ stage = "rebuilding" =>
          Ordered(job.from, tokens) /\ Left(job.from, tokens, job.next, Content(editor))
    /\ stage = "replacing" => ReplacedSoFar

Exact ==
    /\ stage = "replacing" /\ stage' = "editing" /\ answer' /\ job.by # <<>> /\ Unlike(job.find, job.by)
          => Content(editor') \in Replacements(job.from, job.find, job.by)
    /\ stage = "rebuilding" /\ stage' = "editing" /\ answer'
          => Content(editor') = Rebuilt(job.from, tokens)

(* What a call that was done has made of the text.                         *)
LEMMA ReplacedText ==
    ASSUME Done, asked'.op = "Replace", answer'
    PROVE  Content(editor') = Edited!Spliced(Content(editor), asked')
BY DEF Done, Edited!Outcome

LEMMA DeletedText ==
    ASSUME Done, asked'.op = "Delete", asked'.by = <<>>, asked'.at < Len(Content(editor)),
           IsEditor(editor)
    PROVE  Content(editor') = Edited!Spliced(Content(editor), asked')
<1> DEFINE t == Content(editor)
           c == asked'
<1>1. /\ Edited!Outcome(t, c, Content(editor'), answer')
      /\ c \in Calls /\ answer' \in BOOLEAN /\ Len(c.by) = 0
      /\ c.at \in Nat /\ c.count \in Nat /\ Len(t) \in Nat
    BY ContentIs DEF Done, Calls
<1>2. c.op = "Delete" /\ c.at < Len(t)
    OBVIOUS
<1> HIDE DEF t, c
<1>3. ~Edited!Outside(t, c) /\ ~Edited!Longer(t, c) /\ ~Edited!CutsOff(t, c)
    BY <1>1, <1>2 DEF Edited!Outside, Edited!Longer, Edited!CutsOff
<1>4. Content(editor') = Edited!Spliced(t, c)
    BY <1>1, <1>2, <1>3 DEF Edited!Outcome
<1> QED BY <1>4 DEF t, c

LEMMA EditingLoops ==
    ASSUME TypeOK, LoopInv, Editing
    PROVE  LoopInv' /\ Exact
<1>1. Still
    BY EditingDone DEF TypeOK
<1> QED BY <1>1 DEF Still, LoopInv, Exact

LEMMA StartLoops ==
    ASSUME TypeOK, LoopInv, NEW s \in Searches, StartReplaceAll(s.find, s.by)
    PROVE  LoopInv' /\ Exact
<1>1. CASE s.find = <<>> \/ Length = 0
    <2>1. Still
        BY <1>1 DEF StartReplaceAll, Edit, Still
    <2> QED BY <2>1 DEF Still, LoopInv, Exact
<1>2. CASE ~(s.find = <<>> \/ Length = 0)
    <2>1. /\ stage = "editing" /\ stage' = "replacing"
          /\ job' = [from |-> Content(editor), find |-> s.find, by |-> s.by, next |-> 0]
          /\ UNCHANGED <<editor, tokens, asked, answer>>
        BY <1>2 DEF StartReplaceAll
    <2>2. Content(editor) \in Seq(Chars) /\ s.find \in Seq(Chars) /\ s.by \in Seq(Chars)
        BY ContentIs, TextsAssumption DEF TypeOK
    <2>3. /\ job'.from = Content(editor) /\ job'.find = s.find /\ job'.by = s.by /\ job'.next = 0
          /\ editor' = editor /\ tokens' = tokens
        BY <2>1
    <2>4. GoneTo(Content(editor), Content(editor), 0, s.find, s.by, {}, 0)
        BY <2>2, ReplaceStarts
    <2>5. ReplacedSoFar'
        BY <1>2, <2>3, <2>4 DEF ReplacedSoFar
    <2> QED BY <2>1, <2>3, <2>5 DEF LoopInv, Exact
<1> QED BY <1>1, <1>2

LEMMA ReplaceNextLoops ==
    ASSUME TypeOK, LoopInv, ReplaceNext
    PROVE  LoopInv' /\ Exact
<1> DEFINE places == FoundFrom(editor, job.next, job.find)
           at == First(places)
           len == Len(job.find)
           t == Content(editor)
<1>1. /\ stage = "replacing" /\ places # {}
      /\ Call("Replace", at, len, job.by, Replace(editor, at, len, job.by))
      /\ IF answer' THEN job' = [job EXCEPT !.next = @ + len] /\ UNCHANGED stage
         ELSE job' = NoJob /\ stage' = "editing"
      /\ UNCHANGED tokens
    BY DEF ReplaceNext
<1>2. /\ IsEditor(editor) /\ editor.size \in Nat /\ len \in Nat /\ job \in JobType
      /\ job.find \in Seq(Chars) /\ job.from \in Seq(Chars)
      /\ job.by \in Seq(Chars) /\ job.next \in Nat
    BY SMTT(30) DEF TypeOK, JobType, IsEditor
<1>3. places \in SUBSET Nat
    BY <1>2 DEF FoundFrom
<1>4. at \in Nat /\ at \in places /\ \A q \in places : at <= q
    BY <1>1, <1>3, FirstIs
<1>5. \A q \in Nat : q \in places <=> job.next <= q /\ At(t, q, job.find)
    BY <1>2, FoundIs
<1> HIDE DEF places, at, t
<1>6. Done /\ asked' = [op |-> "Replace", at |-> at, count |-> len, by |-> job.by]
    BY <1>1, <1>2, <1>4, ReplaceDone
<1>7. answer' \in BOOLEAN /\ asked' \in Calls
    BY <1>6 DEF Done
<1>8. CASE ~answer'
    <2>1. stage' = "editing" /\ tokens' = <<>>
        BY <1>1, <1>8 DEF LoopInv
    <2> QED BY <1>1, <1>8, <2>1 DEF LoopInv, Exact
<1>9. CASE answer'
    <2>1. stage' = "replacing" /\ tokens' = <<>> /\ job' = [job EXCEPT !.next = job.next + len]
        BY <1>1, <1>2, <1>9 DEF LoopInv
    <2>2. /\ job'.from = job.from /\ job'.find = job.find /\ job'.by = job.by
          /\ job'.next = job.next + len
        BY <1>2, <2>1 DEF JobType
    <2>3. Content(editor') = Edited!Spliced(t, asked')
        BY <1>6, <1>9, ReplacedText DEF t
    <2>4. ReplacedSoFar
        BY <1>1 DEF LoopInv
    <2>5. ASSUME job.by # <<>>, Unlike(job.find, job.by)
          PROVE  \E new, g : GoneTo(job.from, Content(editor'), job.next + len, job.find, job.by, new, g)
        <3>1. PICK chosen, f : GoneTo(job.from, t, job.next, job.find, job.by, chosen, f)
            BY <2>4, <2>5 DEF ReplacedSoFar, t
        <3>2. Asked(job.from, job.find, job.by, job.next)
            BY <1>2, <2>4, <2>5 DEF Asked, ReplacedSoFar
        <3>3. job.next <= at /\ At(t, at, job.find)
            BY <1>4, <1>5
        <3>4. NoneUpTo(t, job.next, at, job.find)
            <4> SUFFICES ASSUME NEW q \in Nat, job.next <= q, q < at, At(t, q, job.find)
                         PROVE  FALSE
                BY DEF NoneUpTo
            <4>1. at <= q
                BY <1>4, <1>5
            <4> QED BY <1>4, <4>1
        <3>5. asked'.at = at /\ asked'.count = Len(job.find) /\ asked'.by = job.by
            BY <1>6
        <3> QED BY <1>4, <1>7, <2>3, <3>1, <3>2, <3>3, <3>4, <3>5, ReplaceGoes
    <2>6. ReplacedSoFar'
        BY <2>2, <2>4, <2>5 DEF ReplacedSoFar
    <2> QED BY <1>1, <2>1, <2>6 DEF LoopInv, Exact
<1> QED BY <1>7, <1>8, <1>9

LEMMA ReplaceEndLoops ==
    ASSUME TypeOK, LoopInv, ReplaceEnds
    PROVE  LoopInv' /\ Exact
<1>1. /\ stage = "replacing" /\ FoundFrom(editor, job.next, job.find) = {}
      /\ stage' = "editing" /\ UNCHANGED <<editor, tokens>>
    BY DEF ReplaceEnds
<1>2. /\ IsEditor(editor) /\ job.find \in Seq(Chars) /\ job.from \in Seq(Chars)
      /\ job.by \in Seq(Chars) /\ job.next \in Nat
    BY DEF TypeOK, JobType
<1>3. tokens' = <<>> /\ ReplacedSoFar
    BY <1>1 DEF LoopInv
<1>4. \A q \in Nat : job.next <= q => ~At(Content(editor), q, job.find)
    BY <1>1, <1>2, FoundIs
<1>5. ASSUME job.by # <<>>, Unlike(job.find, job.by)
      PROVE  Content(editor') \in Replacements(job.from, job.find, job.by)
    <2>1. PICK chosen, f : GoneTo(job.from, Content(editor), job.next, job.find, job.by, chosen, f)
        BY <1>3, <1>5 DEF ReplacedSoFar
    <2>2. Asked(job.from, job.find, job.by, job.next)
        BY <1>2, <1>3, <1>5 DEF Asked, ReplacedSoFar
    <2>3. Content(editor) \in Replacements(job.from, job.find, job.by)
        BY <1>4, <2>1, <2>2, ReplaceFinishes
    <2> QED BY <1>1, <2>3
<1> QED BY <1>1, <1>3, <1>5 DEF LoopInv, Exact

(* Tokens, and what is done with them.                                     *)
LEMMA AddTokenLoops ==
    ASSUME TypeOK, LoopInv, NEW start \in Places, NEW end \in Places, AddToken(start, end)
    PROVE  LoopInv' /\ Exact
<1> DEFINE tok == [start |-> start, end |-> end, value |-> <<>>, deleted |-> FALSE]
           text == Content(editor)
<1>1. /\ stage = "parsing" /\ tokens' = Append(tokens, tok)
      /\ Fits(start, end) /\ Follows(start, tokens)
      /\ UNCHANGED <<editor, stage, job, asked, answer>>
    BY DEF AddToken
<1>2. Ordered(text, tokens) /\ tokens \in Seq(TokenType)
    BY <1>1 DEF LoopInv, TypeOK
<1>3. /\ Len(text) = editor.size /\ editor.size \in Nat /\ start \in Nat /\ end \in Nat
      /\ start < editor.size /\ end <= editor.size + 1
    <2>1. IsEditor(editor)
        BY DEF TypeOK
    <2>2. start \in Nat /\ end \in Nat
        BY <2>1 DEF Places, IsEditor
    <2>3. Len(text) = editor.size /\ editor.size \in Nat
        BY <2>1, ContentIs
    <2> HIDE DEF text
    <2> QED BY <1>1, <2>2, <2>3 DEF Fits, Length
<1>4. \A i \in 1 .. Len(tokens) :
          tokens[i].start < Len(text) /\ tokens[i].end <= Len(text) + 1
    BY <1>2 DEF Ordered
<1>5. Len(tokens) > 0 => tokens[Len(tokens)].end <= start
    <2>1. ASSUME Len(tokens) > 0
          PROVE  tokens[Len(tokens)].end <= start
        <3>1. tokens # <<>> /\ Len(tokens) \in 1 .. Len(tokens)
            BY <1>2, <2>1
        <3>2. start >= tokens[Len(tokens)].end
            BY <1>1, <3>1 DEF Follows, Last
        <3>3. tokens[Len(tokens)].end \in Nat
            BY <1>2, <3>1 DEF TokenType
        <3> QED BY <1>3, <3>2, <3>3
    <2> QED BY <2>1
<1> DEFINE n == Len(tokens)
           new == Append(tokens, tok)
<1>6. /\ n \in Nat /\ Len(new) = n + 1 /\ new[n + 1] = tok
      /\ \A i \in 1 .. n : new[i] = tokens[i]
    BY <1>2
<1>7. tok.start = start /\ tok.end = end
    OBVIOUS
<1> HIDE DEF tok, text, new
<1>8. Ordered(text, new)
    <2>1. ASSUME NEW i \in 1 .. n + 1
          PROVE  new[i].start < Len(text) /\ new[i].end <= Len(text) + 1
        <3>1. CASE i \in 1 .. n
            BY <1>4, <1>6, <3>1
        <3>2. CASE i = n + 1
            BY <1>3, <1>6, <1>7, <3>2
        <3> QED BY <1>6, <3>1, <3>2
    <2>2. ASSUME NEW i \in 2 .. n + 1
          PROVE  new[i - 1].end <= new[i].start
        <3>1. CASE i \in 2 .. n
            <4>1. i \in 1 .. n /\ i - 1 \in 1 .. n
                BY <1>6, <3>1
            <4>2. tokens[i - 1].end <= tokens[i].start
                BY <1>2, <3>1 DEF Ordered
            <4> QED BY <1>6, <4>1, <4>2
        <3>2. CASE i = n + 1
            <4>1. n \in 1 .. n /\ n > 0 /\ i - 1 = n
                BY <1>6, <3>2
            <4> QED BY <1>5, <1>6, <1>7, <3>2, <4>1
        <3> QED BY <1>6, <3>1, <3>2
    <2> QED BY <1>6, <2>1, <2>2 DEF Ordered
<1>9. Ordered(Content(editor'), tokens')
    BY <1>1, <1>8 DEF text, new
<1> QED BY <1>1, <1>9 DEF LoopInv, Exact

LEMMA ParseLoops ==
    ASSUME TypeOK, LoopInv, Parse
    PROVE  LoopInv' /\ Exact
<1>1. UNCHANGED <<editor, tokens, job>>
    BY DEF Parse
<1>2. CASE stage = "editing" /\ stage' = "parsing"
    <2>1. Ordered(Content(editor'), <<>>)
        BY DEF Ordered
    <2>2. tokens' = <<>>
        BY <1>1, <1>2 DEF LoopInv
    <2> QED BY <1>2, <2>1, <2>2 DEF LoopInv, Exact
<1>3. CASE stage = "parsing" /\ stage' = "viewing"
    <2>1. Ordered(Content(editor'), tokens')
        BY <1>1, <1>3 DEF LoopInv
    <2> QED BY <1>3, <2>1 DEF LoopInv, Exact
<1> QED BY <1>2, <1>3 DEF Parse

LEMMA SamePlaces ==
    ASSUME NEW text, NEW list \in Seq(TokenType), NEW new \in Seq(TokenType),
           Ordered(text, list), Len(new) = Len(list),
           \A i \in 1 .. Len(list) : new[i].start = list[i].start /\ new[i].end = list[i].end
    PROVE  Ordered(text, new)
<1>1. \A i \in 2 .. Len(list) : i \in 1 .. Len(list) /\ i - 1 \in 1 .. Len(list)
    OBVIOUS
<1> QED BY <1>1 DEF Ordered

LEMMA MarkedLoops ==
    ASSUME TypeOK, LoopInv, stage = "viewing", tokens' \in Seq(TokenType),
           Len(tokens') = Len(tokens),
           \A i \in 1 .. Len(tokens) :
              tokens'[i].start = tokens[i].start /\ tokens'[i].end = tokens[i].end,
           Reparse \/ UNCHANGED <<stage, job>>, UNCHANGED <<editor, asked, answer>>
    PROVE  LoopInv' /\ Exact
<1>1. Ordered(Content(editor), tokens')
    <2>1. Ordered(Content(editor), tokens) /\ tokens \in Seq(TokenType)
        BY DEF LoopInv, TypeOK
    <2> QED BY <2>1, SamePlaces
<1>2. CASE Reparse
    <2>1. stage' = "rebuilding" /\ job'.from = Content(editor) /\ job'.next = Len(tokens')
        BY <1>2 DEF Reparse
    <2>2. Content(editor) \in Seq(Chars)
        BY ContentIs DEF TypeOK
    <2>3. Left(Content(editor), tokens', Len(tokens'), Content(editor))
        BY <1>1, <2>2, LeftStarts
    <2>4. Ordered(job'.from, tokens') /\ Left(job'.from, tokens', job'.next, Content(editor'))
        BY <1>1, <2>1, <2>3
    <2> QED BY <2>1, <2>4 DEF LoopInv, Exact
<1>3. CASE UNCHANGED <<stage, job>>
    <2>1. stage' = "viewing" /\ Ordered(Content(editor'), tokens')
        BY <1>1, <1>3
    <2> QED BY <2>1 DEF LoopInv, Exact
<1> QED BY <1>2, <1>3

LEMMA ViewingLoops ==
    ASSUME TypeOK, LoopInv, Viewing
    PROVE  LoopInv' /\ Exact
<1>1. CASE RunPlugin
    <2>1. stage = "viewing" /\ stage' = "editing" /\ tokens' = <<>>
        BY <1>1 DEF RunPlugin
    <2> QED BY <2>1 DEF LoopInv, Exact
<1>0. tokens \in Seq(TokenType) /\ DOMAIN tokens = 1 .. Len(tokens)
    BY DEF TypeOK
<1>2. CASE \E some \in SUBSET DOMAIN tokens \ {{}}, name \in NewNames, reparse \in BOOLEAN :
              Rename(some, name, reparse)
    <2> PICK some \in SUBSET DOMAIN tokens \ {{}}, name \in NewNames, reparse \in BOOLEAN :
              Rename(some, name, reparse)
        BY <1>2
    <2>1. name \in Seq(Chars)
        BY TextsAssumption
    <2>2. ASSUME NEW i \in DOMAIN tokens
          PROVE  /\ [tokens[i] EXCEPT !.value = name] \in TokenType
                 /\ [tokens[i] EXCEPT !.value = name].start = tokens[i].start
                 /\ [tokens[i] EXCEPT !.value = name].end = tokens[i].end
        <3>1. tokens[i] \in TokenType
            BY <1>0
        <3>2. [tokens[i] EXCEPT !.value = name] \in TokenType
            BY <2>1, <3>1, TokenIs
        <3> QED BY <3>1, <3>2 DEF TokenType
    <2>3. tokens' = [i \in DOMAIN tokens |->
                        IF i \in some THEN [tokens[i] EXCEPT !.value = name] ELSE tokens[i]]
        BY DEF Rename
    <2>4. \A i \in DOMAIN tokens :
              tokens'[i] \in TokenType /\ tokens'[i].start = tokens[i].start /\ tokens'[i].end = tokens[i].end
        BY <1>0, <2>2, <2>3
    <2>5. tokens' \in Seq(TokenType) /\ Len(tokens') = Len(tokens)
        BY <1>0, <2>3, <2>4
    <2>6. /\ stage = "viewing"
          /\ Reparse \/ UNCHANGED <<stage, job>>
          /\ UNCHANGED <<editor, asked, answer>>
        BY DEF Rename
    <2> QED BY <1>0, <2>4, <2>5, <2>6, MarkedLoops
<1>3. CASE \E first, last \in DOMAIN tokens : first <= last /\ DeleteTokens(first, last)
    <2> PICK first \in DOMAIN tokens, last \in DOMAIN tokens : DeleteTokens(first, last)
        BY <1>3
    <2>2. ASSUME NEW i \in DOMAIN tokens
          PROVE  /\ [tokens[i] EXCEPT !.deleted = TRUE] \in TokenType
                 /\ [tokens[i] EXCEPT !.deleted = TRUE].start = tokens[i].start
                 /\ [tokens[i] EXCEPT !.deleted = TRUE].end = tokens[i].end
        <3>1. tokens[i] \in TokenType
            BY <1>0
        <3>2. [tokens[i] EXCEPT !.deleted = TRUE] \in TokenType
            BY <3>1, TokenIs
        <3> QED BY <3>1, <3>2 DEF TokenType
    <2>3. tokens' = [i \in DOMAIN tokens |->
                        IF i \in first .. last THEN [tokens[i] EXCEPT !.deleted = TRUE] ELSE tokens[i]]
        BY DEF DeleteTokens
    <2>4. \A i \in DOMAIN tokens :
              tokens'[i] \in TokenType /\ tokens'[i].start = tokens[i].start /\ tokens'[i].end = tokens[i].end
        BY <1>0, <2>2, <2>3
    <2>5. tokens' \in Seq(TokenType) /\ Len(tokens') = Len(tokens)
        BY <1>0, <2>3, <2>4
    <2>6. stage = "viewing" /\ Reparse /\ UNCHANGED <<editor, asked, answer>>
        BY DEF DeleteTokens
    <2> QED BY <1>0, <2>4, <2>5, <2>6, MarkedLoops
<1> QED BY <1>1, <1>2, <1>3 DEF Viewing

LEMMA RebuildTokenLoops ==
    ASSUME TypeOK, LoopInv, RebuildToken
    PROVE  LoopInv' /\ Exact
<1> DEFINE k == job.next
           tok == tokens[k]
           count == tok.end - tok.start
           text == job.from
           t == Content(editor)
<1>1. /\ stage = "rebuilding" /\ k > 0
      /\ IF tok.deleted
         THEN Call("Delete", tok.start, count, <<>>, Delete(editor, tok.start, count)) /\ GoOn
         ELSE IF tok.value # <<>>
         THEN /\ Call("Replace", tok.start, count, tok.value,
                      Replace(editor, tok.start, count, tok.value))
              /\ IF answer' THEN GoOn ELSE Stop
         ELSE GoOn /\ UNCHANGED <<editor, asked, answer>>
    BY DEF RebuildToken
<1>2. /\ IsEditor(editor) /\ k \in 1 .. Len(tokens) /\ k \in Nat /\ tokens \in Seq(TokenType)
      /\ job \in JobType /\ text \in Seq(Chars)
    BY <1>1 DEF TypeOK, JobType
<1>3. tok \in TokenType
    BY <1>2
<1>4. /\ tok.start \in Nat /\ tok.end \in Nat /\ count \in Nat /\ tok.value \in Seq(Chars)
      /\ tok.deleted \in BOOLEAN
    BY <1>3 DEF TokenType
<1>5. Ordered(text, tokens) /\ Left(text, tokens, k, t)
    BY <1>1 DEF LoopInv
<1>6. PICK rest \in Seq(Chars) : LeftWith(text, tokens, k, t, rest)
    BY <1>5 DEF Left
<1>7. ASSUME GoOn, Left(text, tokens, k - 1, Content(editor'))
      PROVE  LoopInv' /\ Exact
    <2>1. job' = [job EXCEPT !.next = k - 1] /\ stage' = stage /\ tokens' = tokens
        BY <1>2, <1>7 DEF GoOn, JobType
    <2>2. job'.from = text /\ job'.next = k - 1
        BY <1>2, <2>1 DEF JobType
    <2>3. Ordered(job'.from, tokens') /\ Left(job'.from, tokens', job'.next, Content(editor'))
        BY <1>5, <1>7, <2>1, <2>2
    <2> HIDE DEF k, tok, count, text, t
    <2> QED BY <1>1, <2>1, <2>3 DEF LoopInv, Exact
<1>8. ASSUME Content(editor') = SubSeq(text, 1, tokens[k].start) \o (Now(text, tokens, k) \o rest)
      PROVE  Left(text, tokens, k - 1, Content(editor'))
    <2> HIDE DEF k, text, t
    <2> QED BY <1>2, <1>5, <1>6, <1>8, LeftNext
<1>9. ASSUME Done, NEW by, asked' = [op |-> asked'.op, at |-> tok.start, count |-> count, by |-> by],
             Content(editor') = Edited!Spliced(t, asked'), by = Now(text, tokens, k)
      PROVE  Left(text, tokens, k - 1, Content(editor'))
    <2>1. asked' \in Calls
        BY <1>9 DEF Done
    <2>2. asked'.at = tokens[k].start /\ asked'.count = tokens[k].end - tokens[k].start /\ asked'.by = by
        BY <1>9
    <2> HIDE DEF k, text, t
    <2>3. Edited!Spliced(t, asked') = SubSeq(text, 1, tokens[k].start) \o (asked'.by \o rest)
        <3>1. TokenSpliced(text, tokens, k, t, rest, asked')
            BY <1>2, <1>5, <1>6, <2>1, <2>2, LeftSpliced
        <3> QED BY <3>1 DEF TokenSpliced
    <2> QED BY <1>8, <1>9, <2>2, <2>3
<1>10. CASE tok.deleted
    <2>1. Call("Delete", tok.start, count, <<>>, Delete(editor, tok.start, count)) /\ GoOn
        BY <1>1, <1>10
    <2>2. Done /\ asked' = [op |-> "Delete", at |-> tok.start, count |-> count, by |-> <<>>]
        BY <1>2, <1>4, <2>1, DeleteDone
    <2>3. asked'.op = "Delete" /\ asked'.by = <<>> /\ asked'.at = tokens[k].start
          /\ asked'.count = tokens[k].end - tokens[k].start /\ asked' \in Calls
        BY <2>2 DEF Done
    <2>4. asked'.at < Len(t)
        <3> HIDE DEF k, text, t
        <3>1. TokenSpliced(text, tokens, k, t, rest, asked')
            BY <1>2, <1>5, <1>6, <2>3, LeftSpliced
        <3> QED BY <3>1 DEF TokenSpliced
    <2>5. Content(editor') = Edited!Spliced(t, asked')
        BY <1>2, <2>2, <2>3, <2>4, DeletedText
    <2>6. Now(text, tokens, k) = <<>>
        BY <1>10 DEF Now
    <2>7. asked' = [op |-> asked'.op, at |-> tok.start, count |-> count, by |-> <<>>]
        BY <2>2
    <2> HIDE DEF k, tok, count, text, t
    <2>8. Left(text, tokens, k - 1, Content(editor'))
        BY <1>9, <2>2, <2>5, <2>6, <2>7
    <2> QED BY <1>7, <2>1, <2>8
<1>11. CASE ~tok.deleted /\ tok.value # <<>>
    <2>1. /\ Call("Replace", tok.start, count, tok.value, Replace(editor, tok.start, count, tok.value))
          /\ IF answer' THEN GoOn ELSE Stop
        BY <1>1, <1>11
    <2>2. Done /\ asked' = [op |-> "Replace", at |-> tok.start, count |-> count, by |-> tok.value]
        BY <1>2, <1>4, <2>1, ReplaceDone
    <2>3. Now(text, tokens, k) = tok.value
        BY <1>11 DEF Now
    <2>4. CASE answer'
        <3>1. Content(editor') = Edited!Spliced(t, asked')
            BY <2>2, <2>4, ReplacedText
        <3>2. asked' = [op |-> asked'.op, at |-> tok.start, count |-> count, by |-> tok.value]
            BY <2>2
        <3> HIDE DEF k, count, text, t
        <3>3. Left(text, tokens, k - 1, Content(editor'))
            BY <1>9, <2>2, <2>3, <3>1, <3>2
        <3> QED BY <1>7, <2>1, <2>4, <3>3
    <2>5. CASE ~answer'
        <3>1. stage' = "editing" /\ tokens' = <<>>
            BY <2>1, <2>5 DEF Stop
        <3> QED BY <1>1, <2>5, <3>1 DEF LoopInv, Exact
    <2> QED BY <2>4, <2>5
<1>12. CASE ~tok.deleted /\ ~(tok.value # <<>>)
    <2>1. GoOn /\ UNCHANGED <<editor, asked, answer>>
        BY <1>1, <1>12
    <2>2. Now(text, tokens, k) = SubSeq(text, tokens[k].start + 1, Upto(text, tokens, k))
        BY <1>12 DEF Now
    <2>3. Content(editor') = t
        BY <2>1
    <2> HIDE DEF k, tok, count, text, t
    <2>4. Parts(text, tokens, k, t, rest)
        BY <1>2, <1>5, <1>6, LeftParts
    <2>5. t = SubSeq(text, 1, tokens[k].start) \o (Now(text, tokens, k) \o rest)
        BY <2>2, <2>4 DEF Parts
    <2> QED BY <1>7, <1>8, <2>1, <2>3, <2>5
<1> QED BY <1>4, <1>10, <1>11, <1>12

LEMMA RebuildEndLoops ==
    ASSUME TypeOK, LoopInv, RebuildEnds
    PROVE  LoopInv' /\ Exact
<1>1. /\ stage = "rebuilding" /\ job.next = 0 /\ stage' = "editing" /\ tokens' = <<>>
      /\ UNCHANGED editor
    BY DEF RebuildEnds, Stop
<1>2. Left(job.from, tokens, 0, Content(editor)) /\ job.from \in Seq(Chars)
    BY <1>1 DEF LoopInv, TypeOK, JobType
<1>3. Content(editor) = Rebuilt(job.from, tokens)
    BY <1>2, LeftEnds
<1> QED BY <1>1, <1>3 DEF LoopInv, Exact

LEMMA StepLoops ==
    ASSUME TypeOK, LoopInv, Next
    PROVE  LoopInv' /\ Exact
BY EditingLoops, StartLoops, AddTokenLoops, ParseLoops, ViewingLoops, ReplaceNextLoops,
   ReplaceEndLoops, RebuildTokenLoops, RebuildEndLoops DEF Next, Loop

LEMMA SameLoops ==
    ASSUME LoopInv, UNCHANGED vars
    PROVE  LoopInv'
BY DEF LoopInv, ReplacedSoFar, vars

(* ReplaceAll, with a replacement that is not empty and shares no character *)
(* with the text searched, replaces every occurrence once, but for those it *)
(* passes over for a reason; of other replacements the theorem says         *)
(* nothing.  A rebuilding leaves each token as it was named, renamed or     *)
(* deleted, and the rest of the text alone.  Both for texts, tokens and     *)
(* names of any length.                                                     *)
THEOREM LoopsLeaveWhatWasAsked == Spec => LoopsAreExact
<1>1. Init => LoopInv
    BY DEF Init, LoopInv
<1>2. TypeOK /\ LoopInv /\ [Next]_vars => LoopInv'
    BY StepLoops, SameLoops
<1>3. TypeOK /\ LoopInv /\ [Next]_vars => [Exact]_vars
    BY StepLoops
<1>4. Spec => [][Exact]_vars
    BY <1>1, <1>2, <1>3, TextFits, PTL DEF Spec
<1> QED BY <1>4 DEF LoopsAreExact, Exact
=============================================================================
