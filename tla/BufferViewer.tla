--------------------------- MODULE BufferViewer ----------------------------
(***************************************************************************)
(* The hex view (GViewCore/src/View/BufferViewer): a window of rows over   *)
(* the file, a cursor, the selected ranges, and the find dialog with the   *)
(* last match it found.  One action per key, command or mouse event; each  *)
(* handler runs to its end before the next event, and the view is painted  *)
(* after it, so the cached zones always belong to the current window.      *)
(*                                                                         *)
(* Offsets are uint64 in the code.  ViewBelowCursor is what keeps its      *)
(* subtractions from wrapping; StartAfter and EndOfBlock name the two that *)
(* may wrap.                                                               *)
(***************************************************************************)
EXTENDS Selection, ZonesList, FindDialog

CONSTANTS
    Layouts,    \* the sizes of the window: [cols, rows], columns and visible rows
    Content,    \* the byte at each offset
    RunLength,  \* equal bytes that end a block (16 in the code)
    FileZones,  \* the zones of the file's plugin: [low, high]
    Steps,      \* how far a window in sync may push this one
    Sizes       \* lengths of the ranges panels and the editor may ask for

ASSUME LayoutsAssumption ==
    Layouts \subseteq [cols : Nat \ {0}, rows : Nat \ {0}]
ASSUME ContentAssumption ==
    /\ RunLength \in Nat \ {0}
    /\ DOMAIN Content = 0 .. Size - 1
ASSUME ZonesAssumption == FileZones \subseteq [low : Nat, high : Nat]
ASSUME RequestsAssumption == Steps \subseteq Int /\ Sizes \subseteq Nat

VARIABLES
    startView,  \* offset of the first byte of the window
    currentPos, \* offset of the cursor
    Layout,     \* the window's size, one of Layouts
    selection,  \* the selected ranges
    input,      \* the find dialog's text, NoInput when it is empty
    newRequest, \* the dialog was accepted and no search has run since
    match,      \* what the last search that found something found: [at, len]
    searching   \* Find Previous is in its loop and will not come out of it

view == <<startView, currentPos>>
find == <<input, newRequest, match>>
vars == <<view, Layout, selection, find, searching>>

Offsets == 0 .. Size - 1
\* With a bug: a position one byte after the file is let through.
ClampOneLate(p) == IF p > Size THEN Size - 1 ELSE p
Clamp(p) == IF p > Size - 1 THEN Size - 1 ELSE p

\* Bytes of the window, and the offsets a window that starts at s shows.
Shown == Layout.cols * Layout.rows
InWindow(p, s) == s <= p /\ p < s + Shown

------------------------------------------------------------------------------
(***************************************************************************)
(* Moving.  Starts and cursors are passed as values: a scroll moves the    *)
(* window first and then the cursor, from the window it has just set.      *)
(***************************************************************************)

\* With a bug: a move out of the window scrolls it by one row.
StartOneRow(s, c, p) ==
    IF p = c THEN p ELSE IF p < s THEN p ELSE IF InWindow(p, s) THEN s ELSE s + Layout.cols

\* Where MoveTo leaves the window that starts at s, with the cursor at c.  A move
\* to the cursor's own place brings that place to the top; a move out of the
\* window keeps the distance of the cursor from the top, unless the window has been
\* scrolled past the cursor: the distance wraps then, and is more than any offset.
StartAfter(s, c, p) ==
    IF p = c THEN p
    ELSE IF p < s THEN p
    ELSE IF InWindow(p, s) THEN s
    ELSE IF c >= s /\ p >= c - s THEN p - (c - s)
    ELSE 0

\* With a bug: the selection is taken to the position that was asked for.
MoveToUnclamped(offset, select) ==
    LET p == Clamp(offset)
    IN  /\ startView' = StartAfter(startView, currentPos, p)
        /\ currentPos' = p
        /\ selection' = IF select /\ p # currentPos
                        THEN SelectFromTo(selection, currentPos, offset)
                        ELSE selection

MoveTo(offset, select) ==
    LET p == Clamp(offset)
    IN  /\ startView' = StartAfter(startView, currentPos, p)
        /\ currentPos' = p
        /\ selection' = IF select /\ p # currentPos
                        THEN SelectFromTo(selection, currentPos, p)
                        ELSE selection

\* The cursor's target once MoveScrollTo has put the window's start at top.  A
\* scroll that does not move the window goes to the start of the file.
ScrolledTo(top) ==
    IF top > startView THEN currentPos + (top - startView)
    ELSE IF top < startView /\ startView - top <= currentPos
         THEN currentPos - (startView - top)
         ELSE 0

\* With a bug: the window is scrolled without the cursor.
MoveScrollToAlone(offset) == startView' = Clamp(offset) /\ UNCHANGED currentPos

MoveScrollTo(offset) ==
    LET top == Clamp(offset)
        p   == Clamp(ScrolledTo(top))
    IN  /\ startView' = StartAfter(top, currentPos, p)
        /\ currentPos' = p

\* The offsets the arrow, page, Home and End keys ask for.
RowStart == currentPos - ((currentPos - startView) % Layout.cols)
KeyTargets ==
    [down     |-> currentPos + Layout.cols,
     up       |-> IF currentPos > Layout.cols THEN currentPos - Layout.cols ELSE 0,
     right    |-> currentPos + 1,
     pagedown |-> currentPos + Shown,
     pageup   |-> IF currentPos > Shown THEN currentPos - Shown ELSE 0,
     home     |-> RowStart,
     end      |-> RowStart + Layout.cols - 1,
     first    |-> 0,
     last     |-> Size]

MoveKey(key, select) ==
    /\ MoveTo(KeyTargets[key], select)
    /\ UNCHANGED <<Layout, find, searching>>

\* The left arrow does nothing at the start of the file.
Left(select) ==
    /\ IF currentPos > 0 THEN MoveTo(currentPos - 1, select)
                         ELSE UNCHANGED <<view, selection>>
    /\ UNCHANGED <<Layout, find, searching>>

\* Go to, the entry point, a bookmark (with Shift: select) and a panel's list.
Jump(offset, select) ==
    /\ MoveTo(offset, select)
    /\ UNCHANGED <<Layout, find, searching>>

\* Ctrl and an arrow, and the mouse wheel.
ScrollTargets ==
    [up    |-> IF startView > Layout.cols THEN startView - Layout.cols ELSE 0,
     down  |-> startView + Layout.cols,
     right |-> startView + 1]

Scroll(key) ==
    /\ MoveScrollTo(ScrollTargets[key])
    /\ UNCHANGED <<Layout, selection, find, searching>>

ScrollLeft ==
    /\ IF startView >= 1 THEN MoveScrollTo(startView - 1) ELSE UNCHANGED view
    /\ UNCHANGED <<Layout, selection, find, searching>>

\* A click or, with select, a drag on a byte the window shows.  The byte under the
\* cursor is left alone.
Mouse(offset, select) ==
    /\ InWindow(offset, startView)
    /\ IF offset # currentPos THEN MoveTo(offset, select)
                              ELSE UNCHANGED <<view, selection>>
    /\ UNCHANGED <<Layout, find, searching>>

\* Another window that moves in sync pushes this one by a number of bytes.
AdvanceStartView(offset) ==
    LET by == IF -offset > startView THEN -startView ELSE offset
    IN  /\ startView' = Clamp(startView + by)
        /\ currentPos' = Clamp(startView + by)
        /\ UNCHANGED <<Layout, selection, find, searching>>

\* The window was resized, or its columns, value format or address width changed.
UpdateViewSizes(l) ==
    /\ Layout' = l
    /\ UNCHANGED <<view, selection, find, searching>>

------------------------------------------------------------------------------
(***************************************************************************)
(* Moves that read the file: the plugin's zones and runs of equal bytes.   *)
(***************************************************************************)

\* The zones Paint asked the list to cache: those that touch the bytes from the
\* window's first one to the first one of its last row.
PaintedZones == Cached(FileZones, startView, startView + Layout.cols * (Layout.rows - 1))

MoveToZone(startOfZone, select) ==
    LET found == OffsetToZone(PaintedZones, currentPos)
    IN  /\ IF found = {} THEN UNCHANGED <<view, selection>>
           ELSE \E z \in found : MoveTo(IF startOfZone THEN z.low ELSE z.high, select)
        /\ UNCHANGED <<Layout, find, searching>>

\* The first offset after the run of equal bytes at the cursor.
EndOfRun == Least({p \in currentPos .. Size :
                      p = Size \/ Content[p] # Content[currentPos]})

\* Where a run of RunLength equal bytes is complete, counting from the cursor.
CompleteRuns == {p \in Offsets : /\ p - currentPos >= RunLength - 1
                                 /\ \A q \in p - (RunLength - 1) .. p : Content[q] = Content[p]}

\* One byte before the first run; a run at the start of the file makes the
\* subtraction wrap, and MoveTo brings the result to the end of the file.
EndOfBlock ==
    LET runs  == CompleteRuns
        first == Least(runs)
    IN  IF runs = {} \/ first < RunLength THEN Size ELSE first - RunLength

SkipCurentCaracter(select) ==
    /\ MoveTo(EndOfRun, select)
    /\ UNCHANGED <<Layout, find, searching>>

MoveTillEndBlock(select) ==
    /\ MoveTo(EndOfBlock, select)
    /\ UNCHANGED <<Layout, find, searching>>

------------------------------------------------------------------------------
(***************************************************************************)
(* Selecting.                                                              *)
(***************************************************************************)

\* Alt and a number: to the start of a selected range, from its start to its end.
MoveToSelection(i) ==
    /\ IF i \in Selected(selection)
       THEN LET z == selection.zones[i]
            IN  MoveTo(IF currentPos # z.start THEN z.start ELSE z.end, FALSE)
       ELSE UNCHANGED <<view, selection>>
    /\ UNCHANGED <<Layout, find, searching>>

\* The command that switches modes.
ChangeSelection ==
    /\ selection' = EnableMultiSelection(selection, selection.single)
    /\ UNCHANGED <<view, Layout, find, searching>>

\* A panel selects a record of the file.  A record may end one byte after the file.
Select(offset, size) ==
    /\ selection' = IF size > 0 /\ offset + size - 1 <= Size
                    THEN SetSelection(selection, 1, offset, offset + size - 1)
                    ELSE selection
    /\ UNCHANGED <<view, Layout, find, searching>>

\* The selection editor: a range, refused when it is empty, leaves the file or is
\* as long as the file, or no range at all.
EditSelection(i, offset, size) ==
    /\ i \in Usable(selection)
    /\ selection' = IF size \in 1 .. Size - 1 /\ offset + size <= Size
                    THEN SetSelection(selection, i, offset, offset + size - 1)
                    ELSE selection
    /\ UNCHANGED <<view, Layout, find, searching>>

EraseSelection(i) ==
    /\ i \in Usable(selection)
    /\ selection' = ClearZone(selection, i)
    /\ UNCHANGED <<view, Layout, find, searching>>

------------------------------------------------------------------------------
(***************************************************************************)
(* Finding.  The dialog's options are chosen with each search: align (the  *)
(* match becomes the window's top) and take (the match is selected).       *)
(***************************************************************************)

\* The view goes to a match; when it is aligned the window does, and the cursor
\* follows the window.
GoToMatch(at, align) ==
    IF align THEN MoveScrollTo(at)
             ELSE /\ startView' = StartAfter(startView, currentPos, Clamp(at))
                  /\ currentPos' = Clamp(at)

\* The view and the selection after a search that left the match m.
Answer(m, align, take, sel) ==
    /\ match' = m
    /\ IF HasResults(m)
       THEN /\ GoToMatch(m.at, align)
            /\ selection' = IF take THEN SelectFromTo(Clear(sel), m.at, m.at + m.len - 1)
                                    ELSE sel
       ELSE selection' = sel /\ UNCHANGED view
    /\ UNCHANGED <<Layout, searching>>

\* The match a search starts from: a new request forgets the old one.
Kept == IF newRequest THEN NoMatch ELSE match

\* With an empty field no search runs: the match, and the request, stay as they are.
Searched(answers) == IF input = NoInput THEN {match} ELSE answers
RequestTaken == newRequest' = (newRequest /\ input = NoInput)

\* The find dialog was accepted with a text, which is a new request.
ShowFindDialog(p, align, take) ==
    /\ input' = p
    /\ newRequest' = (p = NoInput)
    /\ \E m \in IF p = NoInput THEN {match} ELSE NextMatch(p, currentPos, NoMatch) :
          Answer(m, align, take, selection)

\* The dialog was left with Cancel: the text typed in it stays there.
CancelFindDialog(p) ==
    /\ input' = p
    /\ UNCHANGED <<view, Layout, selection, newRequest, match, searching>>

\* The two commands are offered while there is a match.
FindNext(align, take) ==
    /\ HasResults(match)
    /\ RequestTaken
    /\ UNCHANGED input
    /\ \E m \in Searched(NextMatch(input, currentPos + 1, Kept)) :
          Answer(m, align, take, Clear(selection))

\* At the start of the file there is nothing before the cursor.
FindPrevious(align, take) ==
    /\ HasResults(match)
    /\ IF currentPos = 0 THEN UNCHANGED vars
       ELSE /\ RequestTaken
            /\ UNCHANGED input
            /\ \E m \in Searched(PreviousMatch(input, currentPos - 1, Kept)) :
                  ~LoopsForever(m, currentPos - 1) /\ Answer(m, align, take, Clear(selection))

\* The search repeats the same block as long as it has no match at all.
FindPreviousForever ==
    /\ HasResults(match)
    /\ currentPos > 0
    /\ \E m \in Searched(PreviousMatch(input, currentPos - 1, Kept)) :
          LoopsForever(m, currentPos - 1)
    /\ RequestTaken
    /\ match' = NoMatch
    /\ selection' = Clear(selection)
    /\ searching' = TRUE
    /\ UNCHANGED <<view, Layout, input>>

------------------------------------------------------------------------------
Init ==
    /\ startView = 0
    /\ currentPos = 0
    /\ Layout \in Layouts
    /\ selection = [single |-> TRUE, zones |-> NoZones]
    /\ input = NoInput
    /\ newRequest = TRUE
    /\ match = NoMatch
    /\ searching = FALSE

Move ==
    \/ \E select \in BOOLEAN :
          \/ \E key \in DOMAIN KeyTargets : MoveKey(key, select)
          \/ Left(select)
          \/ \E p \in 0 .. Size : Jump(p, select)
          \/ \E p \in Offsets : Mouse(p, select)
          \/ \E startOfZone \in BOOLEAN : MoveToZone(startOfZone, select)
          \/ SkipCurentCaracter(select)
          \/ MoveTillEndBlock(select)
    \/ \E i \in ZoneIndex : MoveToSelection(i)

ScrollOrResize ==
    \/ \E key \in DOMAIN ScrollTargets : Scroll(key)
    \/ ScrollLeft
    \/ \E offset \in Steps : AdvanceStartView(offset)
    \/ \E l \in Layouts : UpdateViewSizes(l)

Mark ==
    \/ ChangeSelection
    \/ \E offset \in Offsets : \E size \in Sizes :
          \/ Select(offset, size)
          \/ \E i \in ZoneIndex : EditSelection(i, offset, size)
    \/ \E i \in ZoneIndex : EraseSelection(i)

Find ==
    \/ \E align \in BOOLEAN : \E take \in BOOLEAN :
          \/ \E p \in Patterns \cup {NoInput} : ShowFindDialog(p, align, take)
          \/ FindNext(align, take)
          \/ FindPrevious(align, take)
    \/ \E p \in Patterns \cup {NoInput} : CancelFindDialog(p)
    \/ FindPreviousForever

\* A search that does not end takes no more events.
Next == \/ ~searching /\ (Move \/ ScrollOrResize \/ Mark \/ Find)
        \/ searching /\ UNCHANGED vars

Spec == Init /\ [][Next]_vars

------------------------------------------------------------------------------
(***************************************************************************)
(* Properties.                                                             *)
(***************************************************************************)

\* Every variable keeps to its type.
TypeOK ==
    /\ startView \in Offsets
    /\ currentPos \in Offsets
    /\ Layout \in Layouts
    /\ selection \in Selections
    /\ input \in Patterns \cup {NoInput}
    /\ newRequest \in BOOLEAN
    /\ match \in [at : 0 .. Size * WideBytes, len : Nat, unit : {1, WideBytes}]
    /\ searching \in BOOLEAN

\* The cursor is never above the window: the row and column of the cursor, which
\* Home and End and the moves out of the window compute by unsigned subtraction,
\* exist after any sequence of moves, scrolls, resizes and searches.
ViewBelowCursor == startView <= currentPos

\* The cursor stays in sight.  Once it is in the window, no key, mouse event, panel
\* or search takes it out; only a change of the window's size can.
CursorInSight == InWindow(currentPos, startView)
CursorStaysInSight == [][CursorInSight /\ Layout' = Layout => CursorInSight']_vars

\* A range as Find Previous selects a Unicode match: its place may be off the file.
IsWideMatch(z) == \E p \in Patterns : p.unit # 1 /\ z = Span(z.start, z.start + p.len - 1)

\* Every selected range runs forward from or to the place it was started at, so
\* that growing and shrinking it back across that place is possible, and ends
\* at most one byte after the file (Select lets a record end there), unless it is
\* a Unicode match nobody has grown or shrunk since.
SelectionInFile ==
    /\ ProperZones(selection)
    /\ \A i \in ZoneIndex : selection.zones[i] # NoZone =>
          selection.zones[i].end <= Size \/ IsWideMatch(selection.zones[i])

\* A move with Shift or a drag that changes the selection changes one range, and the
\* cursor is then an end of it: the range follows the cursor.
OneRangeFollows ==
    \E i \in ZoneIndex :
       /\ EndsAt(selection'.zones[i], currentPos')
       /\ \A j \in ZoneIndex \ {i} : selection'.zones[j] = selection.zones[j]
SelectionFollowsCursor ==
    [][selection' # selection => OneRangeFollows \/ ~Move]_vars

\* Ctrl+PageUp and Ctrl+PageDown take the cursor to an end of the innermost zone
\* around it when the zone list holds that zone: for a cursor in any row of the
\* window but the last.
ZoneKeyIsInnermost ==
    [][/\ CursorInSight
       /\ currentPos < startView + Layout.cols * (Layout.rows - 1)
       /\ Around(FileZones, currentPos) # {}
       => \A startOfZone \in BOOLEAN : \A select \in BOOLEAN :
             MoveToZone(startOfZone, select)
             => \E z \in Around(FileZones, currentPos) :
                   /\ currentPos' = Clamp(IF startOfZone THEN z.low ELSE z.high)
                   /\ \A y \in Around(FileZones, currentPos) : y.low <= z.low]_vars

\* What an ASCII or binary search makes the view jump to is a place where some text
\* of these searches occurs: a match that is kept from an older text is still a match
\* of that text.  Of a Unicode search it is not true.
MatchIsReal ==
    HasResults(match) /\ match.unit = 1
    => \E p \in Patterns : p.unit = 1 /\ match.len = p.len /\ match.at \in p.at

\* Find Next finds the nearest match after the cursor when the rest of the file is
\* one search block and the search is not for Unicode, and otherwise keeps the
\* match it has.
NextIsNearest ==
    [][\A align \in BOOLEAN : \A take \in BOOLEAN :
          /\ input # NoInput /\ input.unit = 1 /\ Size - (currentPos + 1) <= CacheSize
          /\ FindNext(align, take)
          =>
             LET ahead == {a \in input.at : a > currentPos}
             IN  IF ahead = {} THEN match' = Kept
                 ELSE match' = [at |-> FirstOf(ahead), len |-> input.len, unit |-> 1]]_vars

\* Find Previous with at least two bytes before the cursor never answers a new match
\* at or after the cursor, and within one search block passes over no match that
\* ends two bytes before the cursor but those that overlap the one it answers.
PreviousIsBefore ==
    [][\A align \in BOOLEAN : \A take \in BOOLEAN :
          /\ currentPos > 1 /\ match' # match /\ HasResults(match') /\ input.unit = 1
          /\ FindPrevious(align, take)
          =>
             LET near == {a \in input.at : /\ a + input.len <= currentPos - 2
                                           /\ a >= currentPos - 1 - CacheSize}
             IN  /\ match'.at \in near
                 /\ \A a \in near : a < match'.at + input.len]_vars

==============================================================================
