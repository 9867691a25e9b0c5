------------------------------ MODULE TextEditor ------------------------------
(***************************************************************************)
(* TextEditor of the lexical view (View/LexicalViewer/TextEditor.cpp): a   *)
(* text in a buffer that may be longer than the text.  Every operation     *)
(* yields the set of its outcomes: growing the buffer may fail, at the     *)
(* limit of memory or because the allocation throws.                       *)
(*                                                                         *)
(* Offsets and counts stay far below 2^32 in every caller, so that the     *)
(* sums of two of them do not wrap.                                        *)
(***************************************************************************)
EXTENDS Naturals, Sequences

CONSTANTS
    Chars,      \* the characters of a text
    Junk,       \* what a new buffer holds where nothing was written
    Block,      \* buffers grow to multiples of it (256 in the code)
    MaxMemory   \* MAX_MEMORY_TO_ALLOCATE

ASSUME BufferAssumption == Block \in Nat \ {0} /\ MaxMemory \in Nat

Editor(t, s, a) == [text |-> t, size |-> s, allocated |-> a]
Empty == Editor(<<>>, 0, 0)

(* The buffer is as long as it says and holds all of the text.             *)
IsEditor(e) ==
    /\ e.allocated \in Nat
    /\ e.size \in 0 .. e.allocated
    /\ e.text \in [0 .. e.allocated - 1 -> Chars \cup {Junk}]
    /\ \A i \in 0 .. e.size - 1 : e.text[i] \in Chars

Content(e) == [i \in 1 .. e.size |-> e.text[i - 1]]

Yes(e) == [done |-> TRUE, editor |-> e]
No(e)  == [done |-> FALSE, editor |-> e]

-----------------------------------------------------------------------------
(* Grow: a longer buffer with the same text in it.                         *)
Rounded(n) == (n \div Block + 1) * Block
GrownWithin(e, n) ==
    [i \in 0 .. Rounded(n) - 1 |-> IF i < e.size THEN e.text[i] ELSE Junk]
Grown(e, n) ==
    IF n <= e.allocated THEN {e}
    ELSE IF Rounded(n) <= MaxMemory THEN {Editor(GrownWithin(e, n), e.size, Rounded(n))}
    ELSE {}
Ungrown(e, n) == IF n > e.allocated THEN {No(e)} ELSE {}

(* memmove of n characters, and the copying of a text, in a buffer.        *)
Moved(t, to, from, n) ==
    [i \in DOMAIN t |-> IF to <= i /\ i < to + n THEN t[from + (i - to)] ELSE t[i]]
Written(t, at, new) ==
    [i \in DOMAIN t |-> IF at <= i /\ i < at + Len(new) THEN new[i - at + 1] ELSE t[i]]

(* What follows the count characters at o moves to where new will end, and *)
(* new is written in between.                                              *)
\* With a bug: the last character stays where it was.
SpreadTooShort(e, o, count, new) ==
    Editor(Written(Moved(e.text, o + Len(new), o + count, e.size - (o + count) - 1), o, new),
           e.size + Len(new) - count, e.allocated)
Spread(e, o, count, new) ==
    Editor(Written(Moved(e.text, o + Len(new), o + count, e.size - (o + count)), o, new),
           e.size + Len(new) - count, e.allocated)
SpreadWithin(e, n, o, count, new) ==
    {Yes(Spread(g, o, count, new)) : g \in Grown(e, n)} \cup Ungrown(e, n)

Add(e, new) == SpreadWithin(e, e.size + Len(new), e.size, 0, new)

Insert(e, o, new) ==
    IF new = <<>> THEN {Yes(e)}
    ELSE IF o > e.size THEN {No(e)}
    ELSE SpreadWithin(e, e.size + Len(new), o, 0, new)

InsertChar(e, o, ch) ==
    {IF o > e.size THEN No(g) ELSE Yes(Spread(g, o, 0, <<ch>>)) : g \in Grown(e, e.size + 1)}
        \cup Ungrown(e, e.size + 1)

(* A replacement that reaches the end first drops the text from o on: when *)
(* there is no memory for the rest, that is all it has done.               *)
\* With a bug: a longer text in the middle is given no room.
ReplaceUngrown(e, o, count, new) ==
    IF o > e.size THEN {No(e)}
    ELSE IF o + count >= e.size THEN Add(Editor(e.text, o, e.allocated), new)
    ELSE {Yes(Spread(e, o, count, new))}
Replace(e, o, count, new) ==
    IF o > e.size THEN {No(e)}
    ELSE IF o + count >= e.size THEN Add(Editor(e.text, o, e.allocated), new)
    ELSE IF Len(new) > count THEN SpreadWithin(e, e.size + Len(new) - count, o, count, new)
    ELSE {Yes(Spread(e, o, count, new))}

DeleteChar(e, o) == IF o >= e.size THEN {No(e)} ELSE {Yes(Spread(e, o, 1, <<>>))}

Delete(e, o, count) ==
    IF o > e.size THEN {No(e)}
    ELSE IF o + count >= e.size THEN {Yes(Editor(e.text, o, e.allocated))}
    ELSE {Yes(Spread(e, o, count, <<>>))}

Set(e, new) ==
    {Yes(Editor(Written(g.text, 0, new), Len(new), g.allocated)) : g \in Grown(e, Len(new))}
        \cup Ungrown(e, Len(new))

Filled(n, ch) == [i \in 1 .. n |-> ch]
Resize(e, n, ch) ==
    IF n <= e.size THEN {Yes(Editor(e.text, n, e.allocated))}
    ELSE SpreadWithin(e, n, e.size, 0, Filled(n - e.size, ch))

Clear(e) == {Yes(Editor(e.text, 0, e.allocated))}
Reserve(e, n) == {Yes(g) : g \in Grown(e, n)} \cup Ungrown(e, n)

(* An assignment through operator[]: outside the text it goes to a         *)
(* character nobody reads.                                                 *)
Assign(e, o, ch) ==
    IF o < e.size THEN {Yes(Editor(Written(e.text, o, <<ch>>), e.size, e.allocated))}
    ELSE {No(e)}

(* A copy of the text in a buffer of its length (UnicodeString::Clone).    *)
Clone(e) == Editor([i \in 0 .. e.size - 1 |-> e.text[i]], e.size, e.size)

(* Find: the places from p on where a text occurs.                         *)
Occurs(e, p, t) == \A j \in 1 .. Len(t) : e.text[p + j - 1] = t[j]
FoundFrom(e, p, t) == {q \in p .. e.size : q + Len(t) <= e.size /\ Occurs(e, q, t)}
First(places) == CHOOSE q \in places : \A other \in places : q <= other
===============================================================================
