----------------------------- MODULE LexicalText ------------------------------
(***************************************************************************)
(* The text of the lexical view and its tokens (View/LexicalViewer).  A    *)
(* language plugin prepares the text through TextEditor and cuts it into   *)
(* tokens; the user renames and deletes tokens; Reparse puts the changes   *)
(* into the text, token by token from the last one, and parses again.      *)
(* ReplaceAll and the rebuilding take one step per edit.                   *)
(***************************************************************************)
EXTENDS TextEditor, SequencesExt

CONSTANTS
    Files,      \* the buffers a file may be loaded into
    Inserts,    \* the texts a plugin may put in
    Typed,      \* the single characters it may
    Counts,     \* how many characters it may ask to replace or delete
    Searches,   \* what it may search, and what it puts in its place: [find, by]
    NewNames,   \* the values a token may be given
    MaxTokens   \* how many tokens a text may be cut into

ASSUME TextsAssumption ==
    /\ \A e \in Files : IsEditor(e)
    /\ Inserts \subseteq Seq(Chars) /\ NewNames \subseteq Seq(Chars)
    /\ Typed \subseteq Chars /\ Counts \subseteq Nat
    /\ \A s \in Searches : s.find \in Seq(Chars) /\ s.by \in Seq(Chars)
    /\ MaxTokens \in Nat

VARIABLES
    editor,     \* the text and its buffer
    stage,      \* "editing" by a plugin or "replacing" for it, "parsing", "viewing",
                \* "rebuilding"
    tokens,     \* the tokens: [start, end, value, deleted]
    job,        \* the loop that runs: what it started from and where it is
    asked,      \* the last call of the editor: [op, at, count, by], until it is shown
    answer      \* what it returned

vars == <<editor, stage, tokens, job, asked, answer>>

Nothing == [op |-> "none", at |-> 0, count |-> 0, by |-> <<>>]
NoJob == [from |-> <<>>, find |-> <<>>, by |-> <<>>, next |-> 0]

Init ==
    /\ editor \in Files
    /\ stage = "editing"
    /\ tokens = <<>>
    /\ job = NoJob
    /\ asked = Nothing
    /\ answer = TRUE

-----------------------------------------------------------------------------
(* The calls of a plugin (PreprocessText, Execute) or a dialog.            *)
Call(op, at, count, by, outcomes) ==
    /\ asked' = [op |-> op, at |-> at, count |-> count, by |-> by]
    /\ \E r \in outcomes : editor' = r.editor /\ answer' = r.done

Edit(op, at, count, by, outcomes) ==
    /\ stage = "editing"
    /\ Call(op, at, count, by, outcomes)
    /\ UNCHANGED <<stage, tokens, job>>

Places == 0 .. editor.size + 1
Length == editor.size

Editing ==
    \/ \E at \in Places, new \in Inserts :
          \/ Edit("Insert", at, 0, new, Insert(editor, at, new))
          \/ \E count \in Counts :
                Edit("Replace", at, count, new, Replace(editor, at, count, new))
    \/ \E at \in Places, ch \in Typed :
          \/ Edit("InsertChar", at, 0, <<ch>>, InsertChar(editor, at, ch))
          \/ Edit("Assign", at, 1, <<ch>>, Assign(editor, at, ch))
    \/ \E at \in Places :
          \/ Edit("DeleteChar", at, 1, <<>>, DeleteChar(editor, at))
          \/ \E count \in Counts : Edit("Delete", at, count, <<>>, Delete(editor, at, count))
    \/ \E new \in Inserts :
          \/ Edit("Add", Length, 0, new, Add(editor, new))
          \/ Edit("Set", 0, Length, new, Set(editor, new))
    \/ \E n \in Counts, ch \in Typed :
          \/ n <= Length /\ Edit("Resize", n, Length - n, <<>>, Resize(editor, n, ch))
          \/ n > Length /\ Edit("Resize", Length, 0, Filled(n - Length, ch), Resize(editor, n, ch))
    \/ \E n \in Counts : Edit("Reserve", 0, 0, <<>>, Reserve(editor, n))
    \/ Edit("Clear", 0, Length, <<>>, Clear(editor))

(* ReplaceAll goes on behind its last position by the length of the text   *)
(* searched, wherever it has found one.                                    *)
StartReplaceAll(find, by) ==
    /\ stage = "editing"
    /\ IF find = <<>> \/ Length = 0
       THEN Edit("ReplaceAll", 0, 0, <<>>, {No(editor)})
       ELSE /\ stage' = "replacing"
            /\ job' = [from |-> Content(editor), find |-> find, by |-> by, next |-> 0]
            /\ UNCHANGED <<editor, tokens, asked, answer>>

ReplaceNext ==
    LET places == FoundFrom(editor, job.next, job.find)
        len == Len(job.find)
    IN  /\ stage = "replacing"
        /\ places # {}
        /\ Call("Replace", First(places), len, job.by,
                Replace(editor, First(places), len, job.by))
        /\ IF answer'
           THEN job' = [job EXCEPT !.next = @ + len] /\ UNCHANGED stage
           ELSE job' = NoJob /\ stage' = "editing"
        /\ UNCHANGED tokens

ReplaceEnds ==
    /\ stage = "replacing"
    /\ FoundFrom(editor, job.next, job.find) = {}
    /\ stage' = "editing"
    /\ job' = NoJob
    /\ answer' = TRUE
    /\ UNCHANGED <<editor, tokens, asked>>

-----------------------------------------------------------------------------
(* TokensList::Add takes the tokens in order; one may end right behind the *)
(* text.                                                                   *)
\* With a bug: the end of the last token is not looked at.
FollowsAnything(start, list) == TRUE
Follows(start, list) == IF list = <<>> THEN TRUE ELSE start >= Last(list).end
Fits(start, end) == start < end /\ start < Length /\ end <= Length + 1

AddToken(start, end) ==
    /\ stage = "parsing"
    /\ Len(tokens) < MaxTokens
    /\ Fits(start, end) /\ Follows(start, tokens)
    /\ tokens' = Append(tokens, [start |-> start, end |-> end, value |-> <<>>, deleted |-> FALSE])
    /\ UNCHANGED <<editor, stage, job, asked, answer>>

(* Parse: PreprocessText has returned, then AnalyzeText.                   *)
Parse ==
    /\ \/ stage = "editing" /\ stage' = "parsing"
       \/ stage = "parsing" /\ stage' = "viewing"
    /\ asked' = Nothing /\ answer' = TRUE
    /\ UNCHANGED <<editor, tokens, job>>

(* A plugin works on a copy of the text; when it asks for a rescan, the    *)
(* copy becomes the text.                                                  *)
RunPlugin ==
    /\ stage = "viewing"
    /\ editor' = Clone(editor)
    /\ tokens' = <<>>
    /\ stage' = "editing"
    /\ UNCHANGED <<job, asked, answer>>

(* Reparse begins by rebuilding the text from the last token on.           *)
Reparse ==
    /\ stage' = "rebuilding"
    /\ job' = [from |-> Content(editor), find |-> <<>>, by |-> <<>>, next |-> Len(tokens)]

(* Similar tokens get a new name, and Reparse is called if the user asks.  *)
Rename(some, name, reparse) ==
    /\ stage = "viewing"
    /\ tokens' = [i \in DOMAIN tokens |->
                     IF i \in some THEN [tokens[i] EXCEPT !.value = name] ELSE tokens[i]]
    /\ IF reparse THEN Reparse ELSE UNCHANGED <<stage, job>>
    /\ UNCHANGED <<editor, asked, answer>>

DeleteTokens(first, last) ==
    /\ stage = "viewing"
    /\ tokens' = [i \in DOMAIN tokens |->
                     IF i \in first .. last THEN [tokens[i] EXCEPT !.deleted = TRUE] ELSE tokens[i]]
    /\ Reparse
    /\ UNCHANGED <<editor, asked, answer>>

(* RebuildTextFromTokens, one token at a time.  A replacement that fails   *)
(* ends it; what is changed by then stays, and the text is parsed again.   *)
Stop ==
    /\ stage' = "editing"
    /\ job' = NoJob
    /\ tokens' = <<>>
GoOn ==
    /\ job' = [job EXCEPT !.next = @ - 1]
    /\ UNCHANGED <<stage, tokens>>

RebuildToken ==
    /\ stage = "rebuilding" /\ job.next > 0
    /\ LET tok == tokens[job.next]
           count == tok.end - tok.start
       IN  IF tok.deleted
           THEN Call("Delete", tok.start, count, <<>>, Delete(editor, tok.start, count)) /\ GoOn
           ELSE IF tok.value # <<>>
           THEN /\ Call("Replace", tok.start, count, tok.value,
                        Replace(editor, tok.start, count, tok.value))
                /\ IF answer' THEN GoOn ELSE Stop
           ELSE GoOn /\ UNCHANGED <<editor, asked, answer>>

RebuildEnds ==
    /\ stage = "rebuilding" /\ job.next = 0
    /\ Stop
    /\ answer' = TRUE
    /\ UNCHANGED <<editor, asked>>

-----------------------------------------------------------------------------
Viewing ==
    \/ RunPlugin
    \/ \E some \in SUBSET DOMAIN tokens \ {{}}, name \in NewNames, reparse \in BOOLEAN :
          Rename(some, name, reparse)
    \/ \E first, last \in DOMAIN tokens : first <= last /\ DeleteTokens(first, last)

Loop == ReplaceNext \/ ReplaceEnds \/ RebuildToken \/ RebuildEnds

Next ==
    \/ Editing
    \/ \E s \in Searches : StartReplaceAll(s.find, s.by)
    \/ \E start, end \in Places : AddToken(start, end)
    \/ Parse
    \/ Viewing
    \/ Loop

Spec == Init /\ [][Next]_vars

(* The two loops run on the calling thread.                                *)
FairSpec == Spec /\ WF_vars(Loop)

-----------------------------------------------------------------------------
Ops == {"none", "Add", "Assign", "Clear", "Delete", "DeleteChar", "Insert", "InsertChar",
        "Replace", "ReplaceAll", "Reserve", "Resize", "Set"}
JobType == [from : Seq(Chars), find : Seq(Chars), by : Seq(Chars), next : Nat]
TokenType ==
    {t \in [start : Nat, end : Nat, value : Seq(Chars), deleted : BOOLEAN] : t.start < t.end}

(* The text never outgrows its buffer, and no character of it is one that  *)
(* was never written: Grow, memmove and the size agree in every operation. *)
(* A token is never empty, and the rebuilding looks at tokens there are.   *)
TypeOK ==
    /\ IsEditor(editor)
    /\ stage \in {"editing", "replacing", "parsing", "viewing", "rebuilding"}
    /\ tokens \in Seq(TokenType)
    /\ job \in JobType
    /\ stage = "rebuilding" => job.next <= Len(tokens)
    /\ asked \in [op : Ops, at : Nat, count : Nat, by : Seq(Chars)]
    /\ answer \in BOOLEAN

(* TextEditor is a text that is edited without a buffer: every call does   *)
(* what its arguments say, or is refused and does nothing, but for a       *)
(* replacement that reaches the end; and both loops come to an end.        *)
Edited == INSTANCE EditedText WITH
    content <- Content(editor),
    working <- stage \in {"replacing", "rebuilding"}
ImplementsEditedText == Edited!Spec

(* The text with each token's new value in its place.                      *)
Rebuilt(text, list) ==
    LET n == Len(list)
        Shorter(k) == IF k <= Len(text) THEN k ELSE Len(text)
        Behind(i) == IF i = 0 THEN 0 ELSE Shorter(list[i].end)
        Shown(i) == IF list[i].deleted THEN <<>>
                    ELSE IF list[i].value # <<>> THEN list[i].value
                    ELSE SubSeq(text, list[i].start + 1, Behind(i))
    IN  FlattenSeq([i \in 1 .. n |-> SubSeq(text, Behind(i - 1) + 1, list[i].start) \o Shown(i)])
            \o SubSeq(text, Behind(n) + 1, Len(text))

(* Where a text is replaced at the given places, each counted from 0.      *)
ReplacedAt(text, places, len, by) ==
    FlattenSeq([i \in 1 .. Len(text) |->
        IF i - 1 \in places THEN by
        ELSE IF \E q \in places : q < i - 1 /\ i - 1 < q + len THEN <<>>
        ELSE <<text[i]>>])

(* The places ReplaceAll may have chosen: no two of them overlap, and any   *)
(* other occurrence overlaps one before it, or follows it closer than the  *)
(* text has become shorter there.                                          *)
Chosen(all, len, more) ==
    {s \in SUBSET all :
        \A q \in all :
            IF q \in s THEN \A p \in s : p < q => p + len <= q
            ELSE \E p \in s : p < q /\ (q < p + len \/ q + more < p + len + len)}

Replacements(text, find, by) ==
    LET len == Len(find)
        all == {q \in 0 .. Len(text) : q + len <= Len(text)
                                         /\ SubSeq(text, q + 1, q + len) = find}
    IN  {ReplacedAt(text, places, len, by) : places \in Chosen(all, len, Len(by))}

Unlike(s, t) == Range(s) \cap Range(t) = {}

(* What the two loops leave when they succeed.  ReplaceAll with a text     *)
(* that is not empty and has no character of the one searched: every       *)
(* occurrence is replaced once, but for those passed over.  Of any other   *)
(* replacement nothing is said: one may make occurrences the text never    *)
(* had, and the code replaces these too ("ab" by "a" in "xxabb").  A       *)
(* rebuilding: the text with each renamed token in its place and each      *)
(* deleted one gone; edits of later tokens do not move earlier ones.       *)
LoopsAreExact ==
    [][/\ stage = "replacing" /\ stage' = "editing" /\ answer' /\ job.by # <<>> /\ Unlike(job.find, job.by)
            => Content(editor') \in Replacements(job.from, job.find, job.by)
       /\ stage = "rebuilding" /\ stage' = "editing" /\ answer'
            => Content(editor') = Rebuilt(job.from, tokens)]_vars
===============================================================================
