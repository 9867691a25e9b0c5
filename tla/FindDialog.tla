---------------------------- MODULE FindDialog -----------------------------
(***************************************************************************)
(* The search of the hex view's find dialog (View/BufferViewer/            *)
(* FindDialog.cpp), as operators from the text, the place to start at and  *)
(* the match kept so far to the matches that may be kept afterwards.       *)
(*                                                                         *)
(* The expression a search runs with is abstracted to the places where it  *)
(* matches, all in the same number of characters: a record [unit, len, at] *)
(* with the bytes of a character, the characters of a match and the        *)
(* offsets of the matches, which may overlap.  ASCII and binary searches   *)
(* have characters of one byte.  The Unicode search goes through the file  *)
(* in the characters of a wide string, but takes the bytes of a block for  *)
(* its characters: it reads on past the block, into memory that may hold   *)
(* anything, and so a search has a set of answers.                         *)
(***************************************************************************)
EXTENDS Integers

CONSTANTS
    Size,       \* bytes of the file
    CacheSize,  \* bytes of a search block: the size of the file's cache
    WideBytes,  \* bytes of a wide character: 2 on Windows, 4 elsewhere
    Patterns    \* the texts

ASSUME SizeAssumption == Size \in Nat \ {0}
ASSUME SearchAssumption ==
    /\ CacheSize \in Nat \ {0}
    /\ WideBytes \in {2, 4}
    /\ Patterns \subseteq [unit : {1, WideBytes}, len : Nat \ {0}, at : SUBSET (0 .. Size - 1)]
    /\ \A p \in Patterns : \A a \in p.at : a + p.len * p.unit <= Size

\* INVALID_OFFSET with length 0, and an empty text field.
NoMatch == [at |-> Size, len |-> 0, unit |-> 1]
NoInput == [unit |-> 1, len |-> 0, at |-> {}]

HasResults(m) == m.len > 0

FirstOf(S) == CHOOSE a \in S : \A b \in S : a <= b
LastOf(S)  == CHOOSE a \in S : \A b \in S : b <= a

\* The matches that lie in the bytes from low up to high, and those that memory
\* behind these bytes may hold for a search that takes the bytes for characters:
\* counted in characters from low.
Within(p, low, high) ==
    {i \in 0 .. high - low : low + i * p.unit \in p.at /\ low + (i + p.len) * p.unit <= high}
Behind(p, low, high) ==
    {i \in 0 .. high - low - p.len : low + (i + p.len) * p.unit > high}

\* What a search of these bytes may meet.
Seen(p, low, high) == {Within(p, low, high) \cup S : S \in SUBSET Behind(p, low, high)}

\* A search that goes on after each match takes those that do not overlap one it took.
Taken(S, len) ==
    CHOOSE T \in SUBSET S :
       \A i \in S : i \in T <=> \A j \in T : j < i => j + len <= i

\* With a bug: the position is taken after the search has gone past the match.
MatchOfEnd(p, low, start, i) ==
    [at |-> low + start * p.unit + (i - start) + p.len, len |-> p.len, unit |-> p.unit]

\* The match at character i of a search that last began at character start.  The
\* way to start is turned into bytes, the way from there to the match is not.
MatchOf(p, low, start, i) ==
    [at |-> low + start * p.unit + (i - start), len |-> p.len, unit |-> p.unit]

\* What is kept of the matches S of a block: the first, or the last of those taken.
KeptOf(p, low, S, last) ==
    IF ~last THEN MatchOf(p, low, 0, FirstOf(S))
    ELSE LET T == Taken(S, p.len)
             i == LastOf(T)
         IN  MatchOf(p, low, LastOf({0} \cup {j + p.len : j \in T \ {i}}), i)

\* The blocks of a search that starts at from.
BlockNumbers == {k \in 0 .. Size : k * CacheSize < Size}
BlockLow(from, k)  == from + k * CacheSize
BlockHigh(from, k) ==
    IF BlockLow(from, k) + CacheSize < Size THEN BlockLow(from, k) + CacheSize ELSE Size
Block(p, from, k)  == Within(p, BlockLow(from, k), BlockHigh(from, k))

\* No block behind the k-th has a match of its own.
QuietBehind(p, from, k) == \A j \in BlockNumbers : j > k => Block(p, from, j) = {}

\* A search to the end of the file.  One that stops at the first match of a block
\* goes on with the next blocks all the same, so what it keeps comes from the last
\* block that has one; a match that lies in two blocks is not seen; a search that
\* finds nothing keeps the match it had.
Search(p, from, last, m) ==
    {n \in {m} : QuietBehind(p, from, -1)}
    \cup UNION {{KeptOf(p, BlockLow(from, k), S, last) :
                    S \in Seen(p, BlockLow(from, k), BlockHigh(from, k)) \ {{}}} :
                k \in {b \in BlockNumbers : QuietBehind(p, from, b)}}

\* With a bug: every match of a block replaces the one before.
NextMatchAll(p, from, m) == Search(p, from, TRUE, m)

\* GetNextMatch.
NextMatch(p, from, m) == Search(p, from, FALSE, m)

\* With a bug: the search stops at the first match.
PreviousMatchFirst(p, from, m) ==
    LET low == IF CacheSize > from THEN 0 ELSE from - CacheSize
    IN  IF from = 0 THEN Search(p, 0, TRUE, m)
        ELSE {IF S = {} THEN m ELSE KeptOf(p, low, S, FALSE) : S \in Seen(p, low, from - 1)}

\* GetPreviousMatch: the last match of one block that ends a byte before the place
\* it was asked for.  At 0 that end wraps to INVALID_OFFSET, which stands for the
\* end of the file, and the search goes forward.
PreviousMatch(p, from, m) ==
    LET low == IF CacheSize > from THEN 0 ELSE from - CacheSize
    IN  IF from = 0 THEN Search(p, 0, TRUE, m)
        ELSE {IF S = {} THEN m ELSE KeptOf(p, low, S, TRUE) : S \in Seen(p, low, from - 1)}

\* GetPreviousMatch reads the same block again while it has no match and the block
\* does not start the file.
LoopsForever(m, from) == ~HasResults(m) /\ from >= CacheSize /\ from - CacheSize > 0
==============================================================================
