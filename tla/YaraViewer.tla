------------------------------ MODULE YaraViewer ------------------------------
(***************************************************************************)
(* The Yara view (GViewCore/src/View/YaraViewer): a list of lines shown    *)
(* through a map of the visible ones, a cursor and a viewport over that    *)
(* map, folding, search, selection, and the two contents the list can      *)
(* have: the rule files of the rules folder, or the results of a scan.     *)
(*                                                                         *)
(* A text is abstracted to its length and to the columns where the text    *)
(* searched for begins.  Rows and columns count from 0 as in the code,     *)
(* line numbers (the real indices) from 1.                                 *)
(***************************************************************************)
EXTENDS Integers, Sequences, SequencesExt

CONSTANTS
    Folders,    \* what the rules folder may hold: sequences of files, a file
                \* being [name : text, body : sequence of texts]
    Reports,    \* what a scan may print: sequences of lines
    Missing,    \* the rules folder does not exist
    Heights,    \* heights the control may be given
    Width,      \* columns left for text, at least 1
    Prefix,     \* width of "[ ] " and of the indentation, 4 in the code
    Suffix,     \* width of " >", 2 in the code
    QueryLen,   \* length of the text searched for
    Columns     \* screen columns the mouse may be at, 0 after the margin

VARIABLES
    lines,              \* yaraLines
    visibleIndices,     \* numbers of the lines shown, in order
    cursorRow, cursorCol,
    startViewLine, leftViewCol,
    selectionActive, selectionAnchorRow, selectionAnchorCol,
    searchActive, searchLine, searchCol,    \* searchResultRealIndex, ...StartCol
    searched,           \* lastSearchText is not empty
    isButtonFindPressed,
    yaraExecuted, yaraGetRulesFiles,
    shown,              \* what the lines are: "nothing", "rules" or "results"
    editing,            \* the Edit Rules dialog is open
    rulesDir,           \* the rules folder on disk
    height,             \* GetHeight()
    clipboard           \* the pieces last copied: [line, from, to]

list      == <<lines, visibleIndices>>
cursor    == <<cursorRow, cursorCol>>
viewport  == <<startViewLine, leftViewCol>>
selection == <<selectionActive, selectionAnchorRow, selectionAnchorCol>>
search    == <<searchActive, searchLine, searchCol>>
finding   == <<searched, isButtonFindPressed>>
content   == <<yaraExecuted, yaraGetRulesFiles, shown, editing>>
outside   == <<rulesDir, height, clipboard>>
vars == <<list, cursor, viewport, selection, search, finding, content, outside>>

-----------------------------------------------------------------------------
(* Lines.                                                                  *)
Blank == [len |-> 0, hits |-> {}]
Line(type, text) ==
    [type |-> type, text |-> text, isChecked |-> FALSE, isExpanded |-> TRUE,
     indented |-> FALSE, isVisible |-> TRUE]

TextType == [len : Nat, hits : SUBSET Nat]
FileType == [name : TextType, body : Seq(TextType)]
LineType ==
    [type : {"Normal", "FileHeader", "RuleContent"}, text : TextType,
     isChecked : BOOLEAN, isExpanded : BOOLEAN, indented : BOOLEAN, isVisible : BOOLEAN]

(* A scan prints no line that folds and none that is hidden; the kinds of  *)
(* line that differ in their colour only count as Normal.                  *)
ResultLine == {l \in LineType : l.type # "FileHeader" /\ l.isVisible}

ASSUME FoldersAssumption ==
    Folders \subseteq Seq(FileType) /\ Missing \notin Folders
ASSUME ReportsAssumption == Reports \subseteq Seq(ResultLine)
ASSUME SizesAssumption ==
    /\ Heights \subseteq Nat \ {0} /\ Width \in Nat \ {0}
    /\ Prefix \in Nat /\ Suffix \in Nat /\ QueryLen \in Nat
    /\ Columns \subseteq Int

Header(text)  == [Line("FileHeader", text) EXCEPT !.isExpanded = FALSE]
Content(text) == [Line("RuleContent", text) EXCEPT !.isVisible = FALSE, !.indented = TRUE]

FileLines(file) ==
    <<Header(file.name)>> \o [i \in DOMAIN file.body |-> Content(file.body[i])]
                          \o <<Line("Normal", Blank)>>

(* The list GetRulesFiles builds; one line stands for the twelve of the    *)
(* introduction.                                                           *)
RulesLines(folder) ==
    <<Line("Normal", Blank)>> \o FlattenSeq([i \in DOMAIN folder |-> FileLines(folder[i])])

IsHeader(ls, i) == ls[i].type = "FileHeader"

(* UpdateVisibleIndices: the loop over the lines, after each of them.      *)
VisibleUpTo(ls) ==
    LET upTo[i \in 0 .. Len(ls)] ==
            IF i = 0 THEN <<>>
            ELSE IF ls[i].isVisible THEN Append(upTo[i - 1], i) ELSE upTo[i - 1]
    IN  upTo
VisibleOf(ls) == VisibleUpTo(ls)[Len(ls)]

(* ToggleFold *)
FoldedToTheEnd(ls, h) ==
    LET open == ~ls[h].isExpanded
    IN  [i \in DOMAIN ls |->
            IF i = h THEN [ls[i] EXCEPT !.isExpanded = open]
            ELSE IF i > h /\ ls[i].type = "RuleContent"
                 THEN [ls[i] EXCEPT !.isVisible = open]
                 ELSE ls[i]]
Folded(ls, h) ==
    LET open == ~ls[h].isExpanded
        inSection(i) == i > h /\ \A k \in h + 1 .. i : ~IsHeader(ls, k)
    IN  [i \in DOMAIN ls |->
            IF i = h THEN [ls[i] EXCEPT !.isExpanded = open]
            ELSE IF inSection(i) /\ ls[i].type = "RuleContent"
                 THEN [ls[i] EXCEPT !.isVisible = open]
                 ELSE ls[i]]

Rows == Len(visibleIndices)
LineAt(row) == visibleIndices[row + 1]
TextLen(row) == lines[LineAt(row)].text.len

(* Where the text of a line begins on the screen.                          *)
Indent(ls, i) == IF IsHeader(ls, i) \/ ls[i].indented THEN Prefix ELSE 0

(* The map points at lines that are gone: Paint and the keys would read    *)
(* past the end of the list, and nothing is said of what happens then.     *)
Dangling == \E v \in DOMAIN visibleIndices : visibleIndices[v] > Len(lines)

(* Handlers run when no dialog is open.                                    *)
Ready == ~editing /\ ~Dangling

-----------------------------------------------------------------------------
(* MoveTo: scroll so that row and column are in view.                      *)
ScrollToLate(at, from, size) ==
    IF at < from THEN at
    ELSE IF at > from + size THEN at - size + 1
    ELSE from
ScrollTo(at, from, size) ==
    IF at < from THEN at
    ELSE IF at >= from + size THEN at - size + 1
    ELSE from

Scrolled(row, from, total) ==
    LET to == ScrollTo(row, from, height)
    IN  IF to > total THEN 0 ELSE to

MoveTo(row, col, from, total) ==
    /\ cursorRow' = row
    /\ cursorCol' = col
    /\ startViewLine' = Scrolled(row, from, total)
    /\ leftViewCol' = ScrollTo(col, leftViewCol, Width)

-----------------------------------------------------------------------------
(* GetRulesFiles with the flag down: the list is emptied before the folder *)
(* is looked at, and the map is rebuilt only when the folder is there.     *)
ResetCursor ==
    /\ cursorRow' = 0
    /\ cursorCol' = 0
    /\ startViewLine' = 0
    /\ leftViewCol' = 0
    /\ selectionActive' = FALSE
    /\ selectionAnchorRow' = 0
    /\ selectionAnchorCol' = 0

KeepCursor == UNCHANGED <<cursor, viewport, selection>>

LoadRules ==
    /\ ResetCursor
    /\ IF rulesDir = Missing
       THEN /\ lines' = <<>>
            /\ shown' = "nothing"
            /\ yaraGetRulesFiles' = FALSE
            /\ UNCHANGED visibleIndices
       ELSE /\ lines' = RulesLines(rulesDir)
            /\ visibleIndices' = VisibleOf(lines')
            /\ shown' = "rules"
            /\ yaraGetRulesFiles' = TRUE

(* Paint loads the rules when nothing has been loaded.                     *)
Paint ==
    /\ ~yaraGetRulesFiles
    /\ LoadRules
    /\ UNCHANGED <<search, finding, yaraExecuted, editing, outside>>

ViewRules ==
    /\ Ready
    /\ yaraExecuted' = FALSE
    /\ LoadRules
    /\ UNCHANGED <<search, finding, editing, outside>>

(* Edit Rules reloads the list, creates the folder when there is none, and *)
(* opens a dialog; its OK reloads the list once more.                      *)
EditRules ==
    /\ Ready
    /\ editing' = TRUE
    /\ LoadRules
    /\ rulesDir' = IF rulesDir = Missing THEN <<>> ELSE rulesDir
    /\ UNCHANGED <<search, finding, yaraExecuted, height, clipboard>>

EditRulesDone(ok) ==
    /\ editing
    /\ editing' = FALSE
    /\ IF ok
       THEN LoadRules
       ELSE KeepCursor /\ UNCHANGED <<list, shown, yaraGetRulesFiles>>
    /\ UNCHANGED <<search, finding, yaraExecuted, outside>>

(* RunYara, offered while no scan has been run.  It needs a selected rule  *)
(* and the scanner.                                                        *)
CheckedHeaders == {i \in DOMAIN lines : IsHeader(lines, i) /\ lines[i].isChecked}

StopsLoading == yaraGetRulesFiles' = TRUE

RunYara(scannerFound, report) ==
    /\ Ready
    /\ ~yaraExecuted
    /\ CheckedHeaders # {} /\ scannerFound
    /\ ResetCursor
    /\ lines' = report
    /\ visibleIndices' = VisibleOf(lines')
    /\ shown' = "results"
    /\ yaraExecuted' = TRUE
    /\ StopsLoading
    /\ UNCHANGED <<search, finding, editing, outside>>

(* The rule files are changed by other programs at any time.               *)
FolderChanges ==
    /\ rulesDir' \in Folders \cup {Missing}
    /\ UNCHANGED <<list, cursor, viewport, selection, search, finding, content,
                   height, clipboard>>

Resize ==
    /\ height' \in Heights
    /\ UNCHANGED <<list, cursor, viewport, selection, search, finding, content,
                   rulesDir, clipboard>>

-----------------------------------------------------------------------------
(* Keys.  Every key but Ctrl+C is ignored while no line is visible.        *)
KeyRest == UNCHANGED <<list, selection, search, finding, content, outside>>
Key == Ready /\ Rows > 0

(* Where a step to a neighbouring row leaves the top of the viewport       *)
(* before MoveTo looks at it.                                              *)
DownFrom(row) == IF row >= startViewLine + height THEN startViewLine + 1 ELSE startViewLine
UpFrom(row)   == IF row < startViewLine THEN row ELSE startViewLine

LesserOf(a, b) == IF a <= b THEN a ELSE b

KeyRight ==
    /\ Key
    /\ IF cursorCol < TextLen(cursorRow)
       THEN MoveTo(cursorRow, cursorCol + 1, startViewLine, Rows)
       ELSE IF cursorRow + 1 < Rows
            THEN MoveTo(cursorRow + 1, 0, DownFrom(cursorRow + 1), Rows)
            ELSE MoveTo(cursorRow, cursorCol, startViewLine, Rows)
    /\ KeyRest

KeyLeft ==
    /\ Key
    /\ IF cursorCol > 0
       THEN MoveTo(cursorRow, cursorCol - 1, startViewLine, Rows)
       ELSE IF cursorRow > 0
            THEN MoveTo(cursorRow - 1, TextLen(cursorRow - 1), UpFrom(cursorRow - 1), Rows)
            ELSE MoveTo(cursorRow, cursorCol, startViewLine, Rows)
    /\ KeyRest

KeyDown ==
    /\ Key
    /\ IF cursorRow + 1 < Rows
       THEN MoveTo(cursorRow + 1, LesserOf(cursorCol, TextLen(cursorRow + 1)),
                   DownFrom(cursorRow + 1), Rows)
       ELSE MoveTo(cursorRow, cursorCol, startViewLine, Rows)
    /\ KeyRest

KeyUp ==
    /\ Key
    /\ IF cursorRow > 0
       THEN MoveTo(cursorRow - 1, LesserOf(cursorCol, TextLen(cursorRow - 1)),
                   UpFrom(cursorRow - 1), Rows)
       ELSE MoveTo(cursorRow, cursorCol, startViewLine, Rows)
    /\ KeyRest

PageDownTargetLoose == LesserOf(cursorRow + height, Rows)
PageDownTarget ==
    IF cursorRow + height < Rows THEN cursorRow + height ELSE Rows - 1

KeyPageDown ==
    /\ Key
    /\ MoveTo(PageDownTarget, cursorCol,
              IF cursorRow + height < Rows THEN startViewLine + height
              ELSE IF Rows > height THEN Rows - height
              ELSE startViewLine, Rows)
    /\ KeyRest

PageUpTargetLoose == IF cursorRow > 0 THEN cursorRow - height ELSE 0
PageUpTarget == IF cursorRow > height THEN cursorRow - height ELSE 0

KeyPageUp ==
    /\ Key
    /\ MoveTo(PageUpTarget, cursorCol,
              IF cursorRow > height /\ startViewLine > height
              THEN startViewLine - height ELSE 0, Rows)
    /\ KeyRest

Toggled(ls, i) == [ls EXCEPT ![i].isChecked = ~@]

KeySpace ==
    /\ Key
    /\ IsHeader(lines, LineAt(cursorRow))
    /\ lines' = Toggled(lines, LineAt(cursorRow))
    /\ KeepCursor
    /\ UNCHANGED <<visibleIndices, search, finding, content, outside>>

ToggleFold(h) ==
    /\ lines' = Folded(lines, h)
    /\ visibleIndices' = VisibleOf(lines')

KeyEnter ==
    /\ Key
    /\ IsHeader(lines, LineAt(cursorRow))
    /\ ToggleFold(LineAt(cursorRow))
    /\ KeepCursor
    /\ UNCHANGED <<search, finding, content, outside>>

KeyEscape ==
    /\ Key
    /\ selectionActive' = FALSE
    /\ searchActive' = FALSE
    /\ searched' = FALSE
    /\ isButtonFindPressed' = FALSE
    /\ UNCHANGED <<list, cursor, viewport, selectionAnchorRow, selectionAnchorCol,
                   searchLine, searchCol, content, outside>>

(* SelectAllRules, DeselectAllRules: offered while no scan has been run.   *)
CheckAll(value) ==
    /\ Ready
    /\ ~yaraExecuted
    /\ lines' = [i \in DOMAIN lines |->
                    IF IsHeader(lines, i) THEN [lines[i] EXCEPT !.isChecked = value]
                    ELSE lines[i]]
    /\ KeepCursor
    /\ UNCHANGED <<visibleIndices, search, finding, content, outside>>

-----------------------------------------------------------------------------
(* Search.                                                                 *)
HasHit(ls, i) == ls[i].text.hits # {}
FirstHit(ls, i) == CHOOSE c \in ls[i].text.hits : \A d \in ls[i].text.hits : c <= d
RowOf(vis, i) == (CHOOSE v \in DOMAIN vis : vis[v] = i) - 1

(* A hidden line is revealed by expanding the header above it.             *)
Revealed(ls, i) ==
    LET above == {k \in 1 .. i - 1 : IsHeader(ls, k)}
        parent == CHOOSE k \in above : \A j \in above : j <= k
    IN  IF ~ls[i].isVisible /\ above # {} /\ ~ls[parent].isExpanded
        THEN Folded(ls, parent)
        ELSE ls

(* SelectMatch: highlight the text at column c of line i, put the cursor   *)
(* after it and drop the selection.                                        *)
SelectMatchUnshifted(i, c) ==
    /\ searchActive' = TRUE
    /\ searchLine' = i
    /\ searchCol' = c
    /\ selectionActive' = FALSE
    /\ MoveTo(RowOf(visibleIndices', i), c + QueryLen, startViewLine,
              Len(visibleIndices'))
    /\ UNCHANGED <<selectionAnchorRow, selectionAnchorCol>>
SelectMatch(i, c) ==
    LET col == c + Indent(lines, i)
    IN  /\ searchActive' = TRUE
        /\ searchLine' = i
        /\ searchCol' = col
        /\ selectionActive' = FALSE
        /\ MoveTo(RowOf(visibleIndices', i), col + QueryLen, startViewLine,
                  Len(visibleIndices'))
        /\ UNCHANGED <<selectionAnchorRow, selectionAnchorCol>>

GoToLine(i) ==
    /\ lines' = Revealed(lines, i)
    /\ visibleIndices' = IF lines' = lines THEN visibleIndices ELSE VisibleOf(lines')
    /\ SelectMatch(i, FirstHit(lines, i))

NothingFound == UNCHANGED <<list, cursor, viewport, selection, search>>

(* ShowFindDialog, closed with OK on some text.                            *)
FindText ==
    /\ Ready
    /\ searched' = TRUE
    /\ isButtonFindPressed' = TRUE
    /\ LET found == {i \in DOMAIN lines : HasHit(lines, i)}
       IN  \/ found = {} /\ NothingFound
           \/ \E i \in found : (\A j \in found : i <= j) /\ GoToLine(i)
    /\ UNCHANGED <<content, outside>>

(* FindNext: the rest of the line of the cursor, then the lines after it   *)
(* and round to that line again.                                           *)
RestOfLineAgain(i) ==
    LET from == cursorCol - Indent(lines, i) - QueryLen
    IN  {c \in lines[i].text.hits : c >= from}
RestOfLine(i) ==
    LET from == cursorCol - Indent(lines, i)
    IN  {c \in lines[i].text.hits : c >= from}

CyclicDistance(i, j) == IF j > i THEN j - i ELSE j - i + Len(lines)

FindNext ==
    /\ Ready
    /\ isButtonFindPressed /\ searched
    /\ Rows > 0
    /\ LET here == LineAt(cursorRow)
           found == {i \in DOMAIN lines : HasHit(lines, i)}
       IN  \/ \E c \in RestOfLine(here) :
                  /\ \A d \in RestOfLine(here) : c <= d
                  /\ UNCHANGED list
                  /\ SelectMatch(here, c)
           \/ /\ RestOfLine(here) = {}
              /\ \/ found = {} /\ NothingFound
                 \/ \E i \in found :
                        /\ \A j \in found :
                               CyclicDistance(here, i) <= CyclicDistance(here, j)
                        /\ GoToLine(i)
    /\ UNCHANGED <<finding, content, outside>>

-----------------------------------------------------------------------------
(* The mouse.  x is a column of the screen counted from the end of the     *)
(* margin, y a row of the control; a drag may leave the control.           *)
(* ComputeMouseCoords; the sum is unsigned, so that a row above the first  *)
(* line counts as one after the last.                                      *)
MouseRow(y) ==
    LET r == startViewLine + y IN IF r \in 0 .. Rows - 1 THEN r ELSE Rows - 1
DisplayLen(i) ==
    lines[i].text.len + (IF IsHeader(lines, i) THEN Prefix + Suffix
                         ELSE IF lines[i].indented THEN Prefix ELSE 0)
MouseCol(x, row) ==
    LET c == leftViewCol + x
    IN  LesserOf(IF c < 0 THEN 0 ELSE c, DisplayLen(LineAt(row)))

OnCheckbox(i, x) == IsHeader(lines, i) /\ leftViewCol + x \in 0 .. Prefix - 2
OnArrow(i, x) ==
    LET arrow == Prefix + lines[i].text.len
    IN  IsHeader(lines, i) /\ leftViewCol + x \in arrow .. arrow + Suffix - 1

PutCursor(row, col) ==
    cursorRow' = row /\ cursorCol' = col /\ UNCHANGED viewport

MousePressed(x, y) ==
    /\ Ready
    /\ y < height
    /\ startViewLine + y < Rows
    /\ LET row == MouseRow(y)
           col == MouseCol(x, row)
           i == LineAt(row)
       IN  /\ selectionAnchorRow' = row
           /\ selectionAnchorCol' = col
           /\ selectionActive' = FALSE
           /\ \/ /\ OnCheckbox(i, x)
                 /\ PutCursor(row, col)
                 /\ lines' = Toggled(lines, i)
                 /\ UNCHANGED visibleIndices
              \/ /\ ~OnCheckbox(i, x) /\ OnArrow(i, x)
                 /\ PutCursor(row, col)
                 /\ ToggleFold(i)
              \/ /\ ~OnCheckbox(i, x) /\ ~OnArrow(i, x)
                 /\ MoveTo(row, col, startViewLine, Rows)
                 /\ UNCHANGED list
    /\ UNCHANGED <<search, finding, content, outside>>

MouseDrag(x, y) ==
    /\ Ready
    /\ lines # <<>> /\ Rows > 0
    /\ LET row == MouseRow(y)
           col == MouseCol(x, row)
       IN  /\ selectionActive' =
                  (selectionActive \/ row # selectionAnchorRow \/ col # selectionAnchorCol)
           /\ MoveTo(row, col, startViewLine, Rows)
    /\ UNCHANGED <<list, selectionAnchorRow, selectionAnchorCol, search, finding,
                   content, outside>>

-----------------------------------------------------------------------------
(* CopySelectionToClipboard: the rows between cursor and anchor, taken as  *)
(* numbers of lines.                                                       *)
Before(r1, c1, r2, c2) == r1 < r2 \/ (r1 = r2 /\ c1 <= c2)

SelectionFrom ==
    IF Before(cursorRow, cursorCol, selectionAnchorRow, selectionAnchorCol)
    THEN <<cursorRow, cursorCol>> ELSE <<selectionAnchorRow, selectionAnchorCol>>
SelectionTo ==
    IF Before(cursorRow, cursorCol, selectionAnchorRow, selectionAnchorCol)
    THEN <<selectionAnchorRow, selectionAnchorCol>> ELSE <<cursorRow, cursorCol>>

Copied ==
    LET piece(r) ==
            LET len == lines[r + 1].text.len
                from == IF r = SelectionFrom[1] THEN SelectionFrom[2] ELSE 0
                to == IF r = SelectionTo[1] THEN SelectionTo[2] ELSE len
            IN  [line |-> r + 1, from |-> LesserOf(from, len), to |-> LesserOf(to, len)]
    IN  {p \in {piece(r) : r \in SelectionFrom[1] .. LesserOf(SelectionTo[1], Len(lines) - 1)} :
            p.from < p.to}

CopySelectionToClipboard ==
    /\ Ready
    /\ selectionActive /\ lines # <<>>
    /\ Copied # {}
    /\ clipboard' = Copied
    /\ UNCHANGED <<list, cursor, viewport, selection, search, finding, content,
                   rulesDir, height>>

-----------------------------------------------------------------------------
Init ==
    /\ lines = <<>>
    /\ visibleIndices = <<>>
    /\ cursorRow = 0 /\ cursorCol = 0
    /\ startViewLine = 0 /\ leftViewCol = 0
    /\ selectionActive = FALSE /\ selectionAnchorRow = 0 /\ selectionAnchorCol = 0
    /\ searchActive = FALSE /\ searchLine = 1 /\ searchCol = 0
    /\ searched = FALSE /\ isButtonFindPressed = FALSE
    /\ yaraExecuted = FALSE /\ yaraGetRulesFiles = FALSE
    /\ shown = "nothing"
    /\ editing = FALSE
    /\ rulesDir \in Folders \cup {Missing}
    /\ height \in Heights
    /\ clipboard = {}

Reloading ==
    \/ Paint
    \/ ViewRules
    \/ EditRules
    \/ \E ok \in BOOLEAN : EditRulesDone(ok)
    \/ FolderChanges

Running ==
    \/ \E value \in BOOLEAN : CheckAll(value)
    \/ KeySpace
    \/ \E scannerFound \in BOOLEAN, report \in Reports : RunYara(scannerFound, report)

Moving ==
    \/ KeyRight
    \/ KeyLeft
    \/ KeyDown
    \/ KeyUp
    \/ KeyPageDown
    \/ KeyPageUp
    \/ Resize

Searching ==
    \/ FindText
    \/ FindNext
    \/ KeyEscape

Pointing ==
    \/ \E x \in Columns, y \in 0 .. height - 1 : MousePressed(x, y)
    \/ \E x \in Columns, y \in -1 .. height : MouseDrag(x, y)
    \/ CopySelectionToClipboard

Next == Reloading \/ Running \/ Moving \/ KeyEnter \/ Searching \/ Pointing

Spec == Init /\ [][Next]_vars

(* The interface in two parts, what the other part only carries along      *)
(* being left out of the run: the keys and commands, and the mouse.        *)
KeysNext  == Reloading \/ Running \/ Moving \/ KeyEnter \/ Searching
MouseNext == Paint \/ KeyEnter \/ Pointing
MouseSpec == Init /\ [][MouseNext]_vars

(* Somebody searches once and goes on pressing Find Next.                  *)
FirstSearch == ~searched /\ FindText
FindingSpec ==
    /\ Init /\ [][Paint \/ KeyEnter \/ FirstSearch \/ FindNext]_vars
    /\ WF_vars(Paint) /\ WF_vars(FirstSearch) /\ WF_vars(FindNext)

-----------------------------------------------------------------------------
TypeOK ==
    /\ lines \in Seq(LineType)
    /\ visibleIndices \in Seq(Nat \ {0})
    /\ {cursorRow, cursorCol, startViewLine, leftViewCol, selectionAnchorRow,
         selectionAnchorCol, searchLine, searchCol} \subseteq Nat
    /\ {selectionActive, searchActive, searched, isButtonFindPressed, yaraExecuted,
         yaraGetRulesFiles, editing} \subseteq BOOLEAN
    /\ shown \in {"nothing", "rules", "results"}
    /\ rulesDir \in Seq(FileType) \cup {Missing}
    /\ height \in Heights

(* What is shown agrees with the folds, whoever folded or revealed a line: *)
(* a line of a rule file is visible exactly when the nearest header above  *)
(* it is expanded, so the arrow never lies, and the map of visible lines   *)
(* is that of the list after every reload, run, fold, search and click.  A *)
(* list emptied by a reload that finds no rules folder keeps its old map   *)
(* (Dangling).                                                             *)
ShownAsFolded ==
    /\ lines # <<>> => visibleIndices = VisibleOf(lines)
    /\ \A h, i \in DOMAIN lines :
          (/\ IsHeader(lines, h) /\ h < i
           /\ lines[i].type = "RuleContent"
           /\ \A k \in h + 1 .. i : ~IsHeader(lines, k))
          => (lines[i].isVisible <=> lines[h].isExpanded)

(* The cursor is on a visible line and the viewport starts at or above it: *)
(* no fold, reload or resize leaves the keys reading past the map, or the  *)
(* screen blank.                                                           *)
CursorOnLine == Rows > 0 => cursorRow < Rows /\ startViewLine <= cursorRow

(* A step that moves the cursor ends with the cursor in view; its column   *)
(* may be out of view only after a click that folds or checks, which       *)
(* returns before MoveTo.                                                  *)
RowInView == cursorRow \in startViewLine .. startViewLine + height - 1
ColInView == cursorCol \in leftViewCol .. leftViewCol + Width - 1
CursorOnScreen ==
    [][cursor' # cursor /\ Rows' > 0 => RowInView' /\ (ColInView' \/ lines' # lines)]_vars

(* A search that finds something shows it: the line is visible even if it  *)
(* was folded away, the columns highlighted are those where the text is    *)
(* drawn, and the cursor is on that row after them, where the next search  *)
(* goes on.                                                                *)
DrawnAt(line, c) ==
    c + (IF line.type = "FileHeader" \/ line.indented THEN Prefix ELSE 0)
Highlights(i, c) == searchActive /\ searchLine = i /\ searchCol = DrawnAt(lines[i], c)
FoundIsShown ==
    /\ searchLine \in DOMAIN lines /\ lines[searchLine].isVisible
    /\ LineAt(cursorRow) = searchLine
    /\ cursorCol = searchCol + QueryLen
    /\ \E c \in lines[searchLine].text.hits : Highlights(searchLine, c)
FindLandsOnMatch == [][search' # search /\ searchActive' => FoundIsShown']_vars

-----------------------------------------------------------------------------
(* What the program's own texts say and the code does not do.              *)

(* Copying takes the selected lines, those Paint highlights.               *)
CopyIsSelected ==
    [][clipboard' # clipboard =>
          \A p \in clipboard' : \E row \in SelectionFrom[1] .. SelectionTo[1] :
              row < Rows /\ LineAt(row) = p.line]_vars
=============================================================================
