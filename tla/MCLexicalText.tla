---------------------------- MODULE MCLexicalText -----------------------------
(* Small files, in a buffer as long as the text and in a longer one; a     *)
(* text found twice side by side, twice apart, over itself, at the end.    *)
EXTENDS LexicalText

Loaded(t, room) ==
    Editor([i \in 0 .. room - 1 |-> IF i < Len(t) THEN t[i + 1] ELSE Junk], Len(t), room)

MCFiles == {Empty, Loaded(<<"a", "b", "a", "b">>, 4)}
MCInserts == {<<>>, <<"a", "b">>}
MCSearches == {[find |-> <<"a", "b">>, by |-> <<"c">>], [find |-> <<"b">>, by |-> <<"c", "c">>],
               [find |-> <<"b">>, by |-> <<"b", "b">>],
               [find |-> <<"a", "a">>, by |-> <<"c", "c", "c">>]}
MCNames == {<<>>, <<"a", "b">>}
===============================================================================
