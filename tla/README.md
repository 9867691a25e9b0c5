# GView in TLA+

GView is a viewer for reverse engineering: a C++ program that opens a file,
recognises its type, and shows it in one or more views (hex, text, tokens,
disassembly, tables, images), with tools around them (search, hashes, decoders,
droppers). This fork adds a view that runs YARA rules over the open file.
The interface is the AppCUI library: one thread, an event loop, callbacks into
controls. The only code that may run on several threads is the restricted mode
guard.

This directory holds TLA+ modules of the parts whose correctness is hard to
test, TLC configurations that check them on small instances, and proofs for
TLAPS. `PROJECT.json` lists the components, the runs, what each definition
models (source file and lines), the hazards, and the theorems.

## 1. Inventory

| part | state it keeps | operations | talks to | correct when | here |
|---|---|---|---|---|---|
| `Utils/DataCache.cpp` | one window of the file in one buffer | `Init`, `Get`, `CopyObject`, `CopyToBuffer`, `WriteTo` | the file object below, every view and plugin above | callers cannot tell it from reading the file directly | modelled, proved |
| `View/YaraViewer` | the lines, the map of the visible ones, cursor, viewport, selection, search, two flags | F6/F7/F8, select all, find, keys, mouse | rules folder, scanner, clipboard | map, folds, cursor and report agree after every step; find visits every match | modelled, proved |
| `RunYara` in the same file | the report, the rule being read | one scan | the scanner as a process, one output file | the report lists what the scanner printed, and nothing is called clean that was not scanned | modelled, proved |
| `Security/RestrictedMode.cpp` | flag (atomic), policy (under a mutex), keyboard hook | `Activate`, `Deactivate`, queries | every action a policy may forbid | an answer is that of a policy in force while it was asked | modelled, proved |
| `View/BufferViewer` | start of the window, cursor, selected ranges, text and last match | keys, mouse, panels, find | `DataCache`, `Selection`, `ZonesList` | the cursor stays in the window and in the file, ranges follow it, a match is where the text is (for Unicode it is not) | modelled, proved |
| `Utils/Selection.cpp` | a table of ranges | begin, update, clear, test | hex, text, grid, disassembly views | one range changes at a time and ends at the cursor | modelled with the hex view |
| `Utils/ZonesList.cpp` | zones, and a cache of those in the window | add, set cache, look up | hex and disassembly views | the look-up gives the innermost zone | modelled with the hex view |
| `App`, `Type` | plugins, open windows | identify a file's type, open it, switch views | plugins | a file that two plugins claim is asked about, any other is not | planned |
| `View/LexicalViewer` | tokens, blocks, a text editor | tokenise, fold, rename, delete, replace | language plugins | edits keep the text and its buffer in step, a rebuilt text is the old one with the new names; blocks nest | text and tokens modelled, text editor proved; folding, layout and token cursor planned |
| `View/DissasmViewer` | zones of lines, comments, decoded pages | move, add and remove a zone, collapse, rename, comment | capstone, type plugins | a line shown is the one of the listing, whatever is folded; a comment stays with its line | collapsible zones modelled, proved; the rest planned |
| `View/TextViewer`, `GridViewer`, `ContainerViewer`, `ImageViewer` | cursor and viewport | keys, mouse, find | `DataCache`, external controls | as the hex view | not modelled |
| `Decoding`, `Hashes` | the state of one computation | encode, decode, update, final | views and plugins | decode undoes encode; pieces give the hash of the whole | planned |
| `Entropy`, `Regex`, `Go`, `SQLite3`, `Dissasembly`, `DigitalSignature`, `CryptoGView` | - | wrappers of libraries, tables, floating point | views and plugins | - | not modelled |
| `Types/PCAP` | packets, connections, the layers a parser found | `AddPacket`, `FinishedAdding`, the HTTP parser | the stream view | each segment is in one connection of its ends; the layers are what the stream holds, as far as the parser gets | modelled, proved |
| other `Types/*` | what a parser found in a file | `Validate`, `CreateInstance`, `PopulateWindow` | `App`, views | a table of offsets | not modelled |
| `GenericPlugins/*` | the dialog of a tool | one command each | the open object | `Dropper` writes what it finds, `SyncCompare` moves views together | planned |
| `3rdPartyLibs` | - | vendored demangler, capstone, scanner | - | - | external |

How they interact. Every view and plugin reads the file through one `DataCache`,
whose answer is a pointer into its buffer: the next read overwrites it. The views
are controls of AppCUI: a key, a mouse event or a command calls a handler, which
runs to its end on the one thread of the interface, then the control is painted.
`Selection` and `ZonesList` are members of a view. The Yara view starts the
scanner as a process and waits for it. Restricted mode is the one part written to
be called from several threads.

What is hard here, and why testing hardly reaches it:

- *Stale state.* Caches rebuilt by hand (the window of the file, the map of
  visible lines, the zones of the painted rows, the last match) are looked at by
  every handler and must be right after any sequence of them.
- *Unsigned arithmetic* on offsets, rows and columns: a subtraction that wraps is
  not an error but a jump to the end of the file or to its start.
- *Partial failure*: a read that fails after half of the buffer is overwritten, a
  rule file of several that cannot be scanned, a hook that is not installed.
- *Threads* (restricted mode only): a flag that is read before the mutex is taken.
- *Loops that must end*: the chunk loops of the cache, Find Next, Find Previous, the
  descent through the zones of a listing, the edits of ReplaceAll.
- *Offsets that edits move*: labels, comments and zones behind a folded zone, tokens
  behind a renamed one.
- *Names that stand for pairs*: a connection is found under one of two strings.

The repository has tests for the disassembly view only. `hazards` in
`PROJECT.json` lists all of this line by line.

## 2. The modules

| module | models | built on |
|---|---|---|
| `DataCache` | `Utils/DataCache.cpp` | |
| `FileReader` | what `DataCache` promises: an abstract specification | |
| `CachedReader` | the refinement of `FileReader`; instance in `MCDataCache` | `DataCache`, `FileReader` |
| `DataCacheProofs` | theorems | `CachedReader` |
| `YaraViewer`, `MCYaraViewer`, `MCYaraHands` | the interface of the Yara view | |
| `YaraScan`, `MCYaraScan` | `RunYara` | |
| `YaraProofs` | theorems about both, which share the lemmas on sequences | `YaraViewer`, `YaraScan` |
| `RestrictedMode`, `MCRestrictedMode`, `RestrictedModeProofs` | the restricted mode, theorems | |
| `Selection`, `ZonesList`, `FindDialog` | operators: the table of ranges, the zones, the search | |
| `BufferViewer`, `MCBufferViewer` | the hex view, which composes the three | `Selection`, `ZonesList`, `FindDialog` |
| `BufferViewerProofs` | theorems | `BufferViewer` |
| `HttpParser` | operators: what the payload parser makes of the bytes of a connection | |
| `StreamManager`, `MCStreams` | the connections of a PCAP file, composed with the parser | `HttpParser`, `Conversations` |
| `Conversations` | what the stream view relies on: an abstract specification | |
| `StreamManagerProofs` | theorems | `StreamManager` |
| `DissasmZones`, `MCDissasmZones` | collapsible zones and comments of a disassembly | |
| `DissasmZonesFolding` | lemmas: a tree of zones that is right, folding, comments | `DissasmZones` |
| `DissasmZonesProofs` | theorems | `DissasmZonesFolding` |
| `TextEditor` | operators: every operation of the lexical view's text editor | |
| `LexicalText`, `MCLexicalText` | the text, its tokens, and the loops that edit it | `TextEditor`, `EditedText` |
| `EditedText` | what `TextEditor` promises: an abstract specification | |
| `LexicalTextProofs` | theorems | `LexicalText` |

An operator that no specification uses (`MatchOfEnd`, `ReplaceUngrown`) is a faulty
form of the operator next to it; `PROJECT.json` pairs each with the property that
rejects it.

### DataCache

A byte of the file is named by its offset, so the buffer holds offsets and
"the right bytes" is an equation. `view` is the answer of `Get`, a place in the
buffer and a length; what it shows is what the buffer holds when somebody looks.
`Get` is one step, with one disjunct for each way out of it (hit, refill in the
middle, at the tail, outside, failed seek, failed or half-done read). The loops
of `CopyToBuffer` and `WriteTo` take one step per chunk (`CopyChunk`,
`WriteChunk`), since each may refill the window or fail. `Consume` is the caller
using what it got before the next call. Words wrap at `Word32` and `Word64`.
`currentPos` of the class is written and never read, and is left out.

`FileReader` has no window and no buffer: a call is answered with bytes of the file
at the offset asked. `CachedReader` maps `phase` to its stages and what was delivered
to its answer. The mapping shows the result of a request that starts after the end
of the file as nothing, because the code does not answer such requests in one way
(section 3, what was seen while reading).

### YaraViewer

The variables are the members of the class, under their names. A text is its length
and the columns where the text searched for begins. The rules folder may change, come
and go between two reloads. `Paint` loads the rules when the flag says so. Running a
scan replaces the list by a report; what is in the report is the matter of `YaraScan`.
Assumed: the command bar shows what the flags say, so a hidden command is not given.
If a reload finds no folder the list is empty and the map is the old one; the handlers
of the model stop in that state until the list is loaded again, because what the
program reads through the old map is undefined.

### YaraScan

One action starts the scanner on the next rule file and says how it ended, one
reads one line of the output, one closes the file, one writes the summary. A line
is what it is and the words it holds; the code goes by the words. Each title,
error, warning or match is a block of the report; tags, hex context and disassembly
of a match are layout.

### RestrictedMode

One step per access to shared state: loading the flag, taking the mutex, each
assignment in the critical sections, giving the mutex back. `seen` is a history of the
policies in force since a thread asked. Reading a policy from its files, checking
its signature and the protection calls of single windows keep no state here.

### BufferViewer

`startView`, `currentPos`, the selected ranges, the find dialog's text and last match.
One action per key, mouse event, panel or command; the view is painted after each, so
the cached zones are always those of the current window. The sizes of the window
(columns, rows, what resizing and formats change) are a set, `Layouts`. Two subtractions
of the code can wrap and are modelled as they are: `StartAfter` (the cursor is
shown aligned when it was out of sight) and `EndOfBlock`. `Selection` keeps the table
as a function with `NoZone` for a cleared entry.

`FindDialog` abstracts an expression to the places where it matches, which may overlap,
to the number of characters of a match and the bytes of a character. The search goes
block by block; it leaves a block at its first match and goes on with the next block,
so Find Next takes the first match of the last block that has one (`FindDialog.cpp:462`).
A search for the last match takes, block by block, those that do not overlap one taken
before (`Taken`, lines 458-461). With the cursor on the second byte Find Previous computes
an end that means "the whole file" and takes the file's last match. When a new text has no
match in the block before the cursor Find Previous repeats the same block for ever
(`FindPreviousForever`): after it `searching` is set and nothing happens any more.
A match of two blocks is not seen.

The Unicode search (lines 471-498) is modelled with what it computes. Wide characters have
`WideBytes` bytes. It takes the bytes of a block for as many wide characters (line 485), so
it reads on into memory behind the block, which may hold anything: what it meets there is
any set of matches (`Behind`), and a search has a set of answers. The place it keeps
(`MatchOf`, line 489) adds a position in characters to an offset in bytes. A match of it is
therefore at the text only when it begins where the search does, it can lie off the file, and a
range that Find Previous selects from it too (`IsWideMatch`).

Left out of the dialog: expressions whose matches differ in length or may be empty; how the field
becomes an expression (the escaped Unicode text is computed and not used, line 550, so that
there special characters stay special); the search in selected ranges; a search cancelled
from its progress box. Left out of the view: highlighting of objects, the
copied bytes behind the selection, the callback that tells other windows of a move.

### StreamManager, HttpParser and Conversations

`file` is what has been read of the capture; one action adds the next packet
(`AddPacket`, with every early return of `Add_TCPHeader`), one ends the adding
(`FinishedAdding`). `streams` is the hash table of the code: it keeps a list of
connections under a name, which is an ordered pair of ends, and a segment looks for
the other direction's name before its own. The IPv6 branch reads the TCP header twenty
bytes too early; what it then reads is bytes of the addresses, a constant
(`AddressBytes`). The bytes of a segment are symbols: a request line, a response line, a
header, a `Content-Length` with its value, a line end, a byte of a body. `HttpParser` is the
parser as a function of the symbols read, with its flags as they are, the ones not reset
included. A *whole message* (`WholeMessage`) is what the parser is written for: a start line, lines
that fit its buffer with at most one `Content-Length` among them and not last, a blank
line, and a body of the size declared that does not begin with a line end. The bytes of a
connection are those of its segments put together, and the messages of `LayersAreExact` are
a cut of them at start lines (`Cuts`, `Messages`) that has nothing to do with the segments. An
exchange of whole messages is shown exactly up to the first with a body, behind which the
parser gives up; of an exchange with any other message in it only `BodyFollowsHead` is
asked. `Conversations` has no names: a segment joins the last conversation of
the *set* of its two ends, or opens another one.

### DissasmZones

`zones` is `internalTypes` with zones nested two levels deep, each with its bounds, its
labels, its comments and its count of instructions; `path`, `level`, `reached` and
`passed` are where the reader of lines stands (`structureIndex`, `lastReachedLine`, `asmLinesPassed`).
One action per command, and one for each line the view reads. `ranges` and `notes`
are a history: what the user has folded and commented, by line of the listing, from
which `Expected` says what a line should show. Line numbers wrap at `Wrap` as the
32-bit ones do. The operations are modelled whole, and several do not do what a user
would expect (section 3). `AddsWell`, `FoldsWell` and `RemovesWell` say in which
states an operation is right: after any other one the history is forgotten (`plain`)
and the model stops, so the properties speak of every sequence of right operations
and reads. Left out: renaming, the comments that painting adds, the negate button, the
cache of painted lines, the decoding of an instruction.

### TextEditor, LexicalText and EditedText

`TextEditor` has one operator per method, which yields the set of its outcomes: a method
that needs memory may be refused. A buffer holds `Junk` where nothing was written, so a
text that takes over a stale character breaks a type. `LexicalText` goes through the
stages of the view: a plugin edits (`PreprocessText`, `Execute`), the text is cut into
tokens, shown, renamed or deleted, rebuilt (`RebuildTextFromTokens`), and parsed
again. `ReplaceAll` and the rebuilding take one step per edit. `asked` and `answer`
hold the last call until the text is parsed. `EditedText` has no buffer: `Spliced`
is what a call makes of a text, `Outcome` which refusals it may give. A copy of the
text that a plugin edits and throws away is not kept.

## 3. What the runs check

| run | states | shows |
|---|---|---|
| `datacache` | 160725 | after any sequence of opens, reads and copies with failing I/O the window is coherent, answers and transfers are exact, the loops end, and the cache implements `FileReader` |
| `yara_hands` | 145922 | keys and commands, or clicks and drags: folds agree with what is shown, the cursor is on a line and in view after a move, a search lands on its match |
| `yara_finding` | 156 | whoever goes on with Find Next visits every occurrence again and again |
| `yara_copy` | violation | with a folded section above, the lines copied are not those highlighted |
| `yara_scan` | 41762 | the report lists the matches printed, with their strings, its summary agrees, each rule file is answered, "clean" is true |
| `yara_scan_status` | violation | the summary says CLEAN when nothing could be scanned |
| `restricted` | 173365 | three threads, two opposite policies: every answer is that of a policy in force while it was asked; two activations do not mix; storage and hook follow the mode |
| `restricted_pointer` | violation | the pointer of `GetCurrentPolicy` is read while `Deactivate` erases what it points to, against "Thread-safe global state" (`RestrictedMode.cpp:42`) |
| `buffer_view` | 75040 | window, cursor, ranges and zone keys under every move, scroll, click, drag, resize; search in both directions from every place, with texts changed, kept and cancelled |
| `streams` | 140842 | every file of up to four packets: each segment is in one connection, a connection ends for a reason, the parser's layers are those of the messages sent, in one segment or in two, as far as it gets, and the name table implements `Conversations` |
| `dissasm_zones` | 119311 | a read shows the line of the listing, expanding undoes collapsing, a comment on any line but 0 stays with its line |
| `lexical_text` | 375904 | the editor implements `EditedText`, both loops of edits leave what was asked of them and end; of ReplaceAll this is said for a replacement that is not empty and shares no character with the text searched |

The properties of one run share its state space; where two users of a view would only
multiply each other's states (keys and mouse of the Yara view, moving and searching in the hex
view) a variable `hand` of the MC module says which of them is at work.

Bounds, and why they are enough:

- `datacache`: file of up to 6 bytes, page 2, buffers of 2 and 4, `Word32` 6 and `Word64`
  12. A file longer than a buffer, as long as it and shorter; windows at the start, in
  the middle and at the end; requests of nothing, of part of a buffer, of more than a
  buffer; offsets that wrap. The two word sizes keep the order of the real ones
  (buffer < word32 <= word64, file + word32 <= word64).
- `yara_*`: two rule files, sections of none, one and two lines, texts with none, one
  and two matches and with none of any length, controls of one and two rows and two or
  three columns: fewer rows than lines, and lines wider than the view. Both hands fold,
  check and reload.
- `yara_scan`: two rule files with every output of up to two lines of seven kinds,
  three lines of headers and strings, and mixed longer ones. A match ends at the next
  header or at the end of the output, with errors and warnings in between, and the
  next file starts after it.
- `restricted`: three threads are enough for one to change the mode and another to bring in
  another policy while a third is between its look at the flag and the mutex. Threads
  are symmetric. The theorems cover any number.
- `buffer_view`: six bytes, windows of 2x1 and 2x2, a table of two ranges, a zone in a
  zone, runs of equal bytes: the file is longer than the window, the table can be full,
  and a cursor can be in the last row and in another. The search block is four: the
  file is longer than a block, two blocks can both have a match, and a match can lie
  across two. One text of one byte occurs at four places, one of two bytes overlaps
  itself (at 1, 2 and 3), and one of one wide character occurs once, not where a search
  from the start of the file begins.
- `streams`: two hosts and two ports, four packets of fifteen kinds: a connection can
  open, end by two FINs or a reset and open again; a message can be whole in one segment,
  cut in two (`Half` and `Piece`) with other segments between, have its length last, or be
  shorter than its length says; both directions can come first.
- `dissasm_zones`: four lines, two of them labels, up to four zones side by side and one
  level inside, one comment: a zone can have zones before, behind, around and inside
  it, with labels and comments on either side of a fold. `DissasmZonesProofs` proves its
  four properties for listings of any length; the run shows that the histories they
  speak of happen, and that the faulty forms break them.
- `lexical_text`: texts of up to four characters in blocks of two, memory for four: every
  operation meets an exact fit, a growth and a refusal. Two tokens can touch, leave a
  gap, and reach the end of the text; a replacement can be shorter, longer, and can
  hold what is searched; a text searched can overlap itself.

Fairness. `DataCache` assumes weak fairness of the loop steps only: a loop runs on
the calling thread. `YaraScan` assumes that the scan goes on, that is that each process
of the scanner ends; the code waits for it without a limit, so nothing weaker gives
`ScanEnds`. `FindingSpec` assumes a user who searches and then presses Find Next again
and again (and that the view is painted); that is what the property is about. `LexicalText`
assumes that its two loops go on: they run on the calling thread. No other run uses
fairness. Deadlock is checked except for `YaraScan`, which stops when the summary is
written, and `StreamManager`, which stops when the file has been read.

Seen while reading and not turned into a run, because no line of the repository
says otherwise, or only a remark too loose or too short to hold the code to:

- Cache and views. A request after the end of the file gets a view when the window ends
  with the file, where the comment says "request outside file" (`DataCache.cpp:88`).
  Edit Rules after a scan leaves the flag that hides Run (`YaraViewer/Instance.cpp:484`); a
  drag above the top edge of the Yara view goes to its last line (`:759`); the scanner is
  waited for without a limit (`:1152`); all rule files share one output file, which is
  read even if it is that of the file before (`:1157`); a matched string that holds
  `error:` is taken for an error of the scanner (`:1179`). The editor of a range shows
  `end - start`, one less than its length.
  Find Next is described as "Find the next sequence" (`BufferViewer.hpp:169`) and
  takes the first match of the last block that has one (`FindDialog.cpp:462`);
  `NextIsNearest` leaves it out by asking that the rest of the file be one block. Find
  Previous, "Find previous sequence", takes the last match of the file when the cursor is on the
  second byte (`:309`); `PreviousIsBefore` asks for two bytes before the cursor. A match
  of the Unicode search is kept at a place where the text is not, unless it is where the
  search began (`:489`), and may be one of the memory behind the block (`:485`);
  the three properties of matches leave Unicode out. An expression that matches the
  empty text makes a backward search of a block endless (`:461`).
  `ZoneKeyIsInnermost` leaves out a cursor in the last row of the window, where the cache of
  zones may lack the innermost one and the key goes to a wider one or nowhere.
  The end-of-block key wraps on a run at the start of the file
  (`BufferViewer/Instance.cpp:345`). The end of a policy's time is looked at when it is
  activated only (`RestrictedMode.cpp:457`). The choice between types counts matches, not
  plugins (`App/Instance.cpp:312`).
- PCAP. The comment that "both parties will have to use the FIN bit" (`Internal.hpp`)
  against any two FINs; a body is named after the last layer, which with two requests in a
  row is another one's; `Update` steps by the original length where zones and packets use
  the captured one (`PCAPFile.cpp:27`, `PCAP.cpp:68`); a `Content-Length` last in the head
  is ignored; a body may run past the payload (`HttpParser.cpp:61`); the last message
  without a body is never listed; options of IPv4 are not skipped (`StreamManager.cpp:61`).
  `LayersAreExact` says how far the parser gets and excludes a message whose length is last;
  `EndsForAReason` takes two FINs of one side as the code does.
- Disassembly. The size after a fold is that of the whole listing less this one zone,
  whatever else is folded, so that reading the last lines then spins or takes from an
  empty list (`DissasmX86.cpp:1401`). Removing a zone with a named zone before it clears
  that one's name, removing one of two zones removes both, labels and comments of a
  removed zone are lost or kept where they were. Adding a zone up to the end of the
  listing repeats its range; adding inside a zone takes the outer list's next; a fold
  before a zone with zones inside does not move these. A line read exactly one back is
  counted forward. The comment of line 0 is kept under the highest number and moves
  with the folds, so it is lost: `CommentsStay` leaves line 0 out. Folding a zone of one line folds it and reports failure. Only the
  outer comments are saved (`DissasmCache.cpp:211`).
- Text. `ReplaceAll` goes on by the length searched, wherever the match was: an occurrence
  next to one just shortened is missed, a replacement that holds what is searched is
  replaced again, until memory ends, and an occurrence that was never in the text, but
  arose where the text was joined, can go too (`TextEditor.cpp:237`: "ab" by "a" in "xxabb",
  or by nothing in "xxaabb"). `LoopsAreExact` allows the first in so many words; it speaks
  only of replacements that are not empty and share no character with the text searched,
  and so of none that does one of the others. A replacement up to the end that finds no
  memory has cut the text already (`TextEditor.cpp:182`; `CutsOff` of `EditedText` allows
  it). `COPY_ASCII` extends the sign of a character from 0x80 on; texts copied are taken
  to be ASCII.
  `Find` without case looks up characters of 16 bits in a table of 256 (`TextEditor.cpp:97`).
  A rebuilding that fails half way leaves the text as it is then and loses the other names
  (`LexicalViewer/Instance.cpp:785`); a token renamed to nothing keeps its text (`:806`).

## 4. What is proved

All theorems are checked by TLAPS for every value of the constants that the named
assumptions allow.

**`DataCacheProofs`**, from `SizesAssumption` (a page and a buffer of at least two bytes, words
that hold them, the smaller word a multiple of the page): `TypeCorrect`, `AlwaysCoherent`,
`AlwaysExact`. The types bound the fields of 32 bits by their modulus only; that no
subtraction that makes an answer wraps is part of `AlwaysExact`, for requests that begin
inside the file (of one past its end the code may wrap, see above). Neither types nor coherence is inductive alone: a refill computes its
length from the bounds, and a bound stays in the file only because the window does.
`WindowInv` is types, `Coherent`, and "an open file has a buffer". `AlwaysExact` adds `LoopOps`:
only the calls that loop are ever in a loop. The step lemma has one case per
way out of `Get` (`Fetch...`), which the loops reuse for their chunks.

`TransfersExact`. The loop invariant, `TransferInv` over `WindowInv`, is that
what was copied or written is a slice of the file from the offset asked and that what
is left is the rest. `Halves` is the arithmetic of a chunk (half a buffer is at least a
byte), `TurnExact` one turn of either loop.

`CacheReadsTheFile` is the initial states and every step of `DataCache`
mapped to `FileReader`, from the two invariants above. The fairness of `FileReader` stays with TLC.

**`YaraProofs`**, of the interface, from `FoldersAssumption`, `ReportsAssumption` and `SizesAssumption` (lines are
lines, no viewport is empty; the columns where clicks land are any integers): `Typed`,
`FoldsAgree`, `CursorStaysOnLine`, `CursorStaysOnScreen`, `SearchShowsMatch`. The invariant is types,
`ShownAsFolded`, `CursorOnLine` and `HiddenInSection`: above every hidden line there is a header.
Without the last a search could land on a line that no header reveals. The map is a
fold over the lines, so what it holds (every visible line, once, in order) is shown once,
by induction, and the handlers then one by one (`GoodStep`: the invariant, and that a move
ends in view and a search on its match). A fold above the cursor and a reload make the map
shorter, and no `MoveTo` follows: that the cursor is put on a line there is a case of its own.

**`YaraProofs`**, of the scan, from `RulesAssumption` (rule files have names) and `OutputsAssumption` (a line taken
for the header of a match names a rule, as the scanner prints it): `ScanTyped`, `ReportExact`, `RulesAnswered`.
While an output is read the report holds what its first lines say, but for the match
being read, which is still in `currentRule` and `matchedStrings`: `HasRead`, which
`ReadSoFar` keeps line by line. `Titled` says that each rule file has its title in order and, unless it is
being read, a block behind it; `Ended` that the summary agrees with what was reported.
The report and the lists of strings are joined from pieces (`JoinedIs` and the lemmas behind it).

**`RestrictedModeProofs`**, from `NoThreadAssumption` and `PoliciesAssumption`: `TypeCorrect`, `AnswersCurrent`,
`StorageFollows`, `NotReplaced`. The invariant adds `Stages` (what a thread at each place of a
critical section knows of flag, policy and hook; when the mutex is free all is quiet) and
`Watched` (the policy in force is in the history of every thread that is asking). The
argument: a thread that found the flag down got the answer of the erased policy, which was
in force at that moment; a thread that found it up answers under the mutex with
what is in force then.

**`BufferViewerProofs`**, from the assumptions of `Selection`, `FindDialog` and `BufferViewer`: `TypeCorrect`,
`CursorBelowStart`, `SelectionStaysInFile`, `MatchesAreReal`, `KeepsCursorInSight`, `RangeFollowsCursor`, `InnermostZone`,
`NearestFound`, `PreviousFound`. The invariant
is the conjunction of types, `ViewBelowCursor`, `SelectionInFile` and `MatchIsReal`: a target of a key is
in the file only if the window starts at or before the cursor, a range taken from a match
lies in the file only if the match is real. The proof goes through `MoveTo`
once, then key by key. The last five are action properties from that invariant. `RangeFollowsCursor`
needs what `SelectFromTo` does with each order of anchor, old and new cursor; `InnermostZone`
that the cache, filled for the window, finds what a search of all zones would; `NearestFound` and
`PreviousFound` that the only block searched is the rest of the file or the one before the
cursor. Texts may overlap themselves: that of the overlapping matches the search has taken
some, and which, comes from `Taken`, shown to exist by induction over the places of a
block. `MatchesAreReal`, `NearestFound` and `PreviousFound` speak of ASCII and binary
searches; that a Unicode search leaves cursor, window and ranges in order is in the
other six, whatever it answers.

**`StreamManagerProofs`**, for any hosts, ports, packets and files (`PacketsAssumption`,
`AddressAssumption`, `FiniteAssumption`, `BoundsAssumption` are types): `StreamsTyped`, `EachPacketOnce`,
`NamedAsFirstSeen`, `StreamsAreConversations`, `EndsAreReasons`, `AllTyped`, `LayersAreWhatWasSent`. The invariant is types,
`AllPlaced` and `FewEnough` (every packet so far is in one place or was refused),
`NameIsFirstSeen` and `EveryPacketOnce`: that a segment is found again needs that of the two
names of its ends only one is in use. The refinement goes through `Owner` (the name in
use of a pair of ends) and `TalksAre` (the conversations are the lists under these
names). `EndsAreReasons` adds `AllCounted`: the counter of FINs has their number while eight bits hold
it, and no segment but the last could have ended its connection. For what is shown,
`Shows` says that every stream on display was made by `Finish` from a connection of the
file. The rest is about the parser, a function of the bytes:

- `ParsedSane`: at every byte, whatever the bytes are, a layer with a body is the last, its body
  lies behind a blank line, and its file name comes from a request line before it. It
  needs that line ends are counted only while they are just behind (`EndlinesCounted`), and that
  behind a body nothing more is read (`Done`: the flag that is not reset makes the next byte
  break the parser off).
- `MessageRead`: what the parser has after the messages read so far (`After`) it has after one more.
  `HeadAt` is its state in a head, `InBody` in a body; when a message without a body ends, the
  parser still stands in its head (`InHead`), and the first line of the next closes it.
- `MessagesJoin` says that the messages of a cut, joined, are the bytes of the connection,
  wherever its segments end. `AllRead` goes message by message; `FinishExact` compares the
  outcome with the layers promised. Of messages that are not whole nothing is claimed.

**`LexicalTextProofs`**, from `BufferAssumption` and `TextsAssumption`: `TextFits`, `TextIsEdited`,
`LoopsLeaveWhatWasAsked`. A call is `Fine`
when it leaves an editor and an outcome that `EditedText` allows. `SpreadPlaces` says
where each character is after a `memmove` and a copy, `IsSpliced` that a text whose
characters are there is the spliced one, whatever its buffer; from these one lemma
per method (`InsertFine`, `ReplaceFine`, ...), of which only `Replace` at the end and the
overwriting methods need arguments of their own. Types are inductive as they stand,
with "a token is not empty" and "the rebuilding looks at tokens there are" among them. The
theorem is the safety of `ImplementsEditedText`; that jobs end stays with TLC.

`LoopsLeaveWhatWasAsked` proves `LoopsAreExact`, which speaks of the last step of a loop
and of the text before its first; `LoopInv` says how far the loop is in between:

- While tokens are shown they are `Ordered`: each lies behind the one before it, in the
  text they were cut from, and only the last may reach past its end.
- While the text is rebuilt it is `Left`: the text it came from, up to the end of the
  tokens still to do, and then a rest which, put behind the pieces of those tokens, is
  the rebuilt text. An edit of the last of them (`MiddleSpliced`) moves one piece into the
  rest. That is why the loop may use old offsets, and why it has to go backwards.
- While all is replaced the text is `GoneTo`: for the places chosen so far, the replaced
  text up to a place behind the last of them, and the untouched text from there. Where
  the next search begins is known only within bounds (`LooksOn`), since `pos` counts the
  length searched and the text moves by the length written; from these and from
  `FirstIs` (the search finds the least place) it follows that what is found is a place of
  the untouched text, and that whatever was passed over overlaps a chosen place or is too
  close behind it. The text written must not be empty and must share no character with
  the text searched, or a match could straddle the two: for such a replacement the
  code is wrong, and the theorem says nothing of it.

**`DissasmZonesFolding`, `DissasmZonesProofs`**, from `ListingAssumption` (the listing is not empty, labels lie in it): `TypeCorrect`,
`ExpandAlwaysUndoesCollapse`, `CommentsAlwaysStay`, `LineIsAlwaysExact`, for listings of any length, any labels
and comments and any number of zones, two levels deep. They hold as long as what is done
is right (`AddsWell`, `FoldsWell`, `RemovesWell`; zones are removed only while there is no
comment), and `CommentsAlwaysStay` for every line but line 0. None of the four is inductive, and not even the
types are without the rest: the code takes the size of the view and the ends of zones from each
other, so that they stay in range depends on all that folds agreeing. `Invariance` is the
inductive invariant: the types, and, while only what the code gets right was done (`plain`),
`ZonesOK`, which relates the tree of zones to the history of the user.

- `Origins(ranges)`, written `o`, is the function from lines of the view to lines of the listing
  that the user's folds amount to. Nothing in the code holds it; the tree has to be it.
- `Laid`: the zones of a list touch, from line 0 to the end of the listing, and each is `Sound`.
  A zone with nothing inside (`Leaf`) runs straight through the listing by `o`, or is folded to one line
  for its `Work` lines; one with zones inside (`Parent`) is filled by them and keeps no comments
  of its own. Its labels and comments are those of its lines, under keys that folding in or before
  it moved (`Labelled`, `Noted`), and its `asm` counts the instructions before it.
- `Spanned`: the named zones span exactly the ranges of the user, and are folded where these are.

Folding is the hard step. Its effect on `o` is `Slides`: up to the fold nothing changes, behind it
every line moves by the same amount. `FoldKeeps` shows that the recursion (two loops over lists
of zones, each with a running difference) makes of a laid list one laid by the new `o`:
the zones before the fold are as they were, those behind are moved, and the one around has grown
or shrunk. That expanding undoes collapsing (`FoldUndone`) follows since
in a laid tree the line of a folded zone finds it again and every change by `d` is undone by the same change by
`-d` (`MovedBack` and the lemmas beside it). An added zone is cut out
of the one that holds it (`Pieces`), a removed one leaves its lines to its neighbours (`Taken`), and that no
other zone's range is lost or changed is the larger part of both. For a read, `Comes` says that
the descent ends in the zone that holds the line, if its path started in the tree as it is, and `CountsOn`
that going on from the line read before comes to the number that counting from the start of the zone does.
`Wrap`, four times the listing, stands for 2^32 as in the runs: the view never grows past twice
the listing (a bound the invariant holds), so no line but the one in front of line 0 wraps.

How induction is done. The library's induction theorems cannot be used with the provers
there are, but its theorem that a well-founded order has least elements can. `UpTo`
is induction as a statement about a *set*: a set with 0 that has
`i` whenever it has `i - 1` has all of `0 .. n`. Each theorem module that needs it proves it again, so that
it can be checked alone. With it the recursive functions of the
models (`Parsed`, `SizeOf`, `Messages`, the joining of sequences) are shown to exist and to unfold, and
facts about them are proved for inputs of every length.

Model-checked only:

- liveness (`FindNextCycles`, `ScanEnds`, the fairness in `ImplementsFileReader` and `ImplementsEditedText`), which
  the prover cannot reason about.

## 5. Not modelled, and why

Drawing, colours, wording and saving of reports. Parsers of binary layouts (`Types/*`
for the most part): a table of offsets, which a model would repeat. Wrappers of
OpenSSL, SQLite, capstone, zlib and the regular expressions: what they answer is outside
the repository. Entropy: floating point. Dialogs that only read fields. The components
in `PROJECT.json` with status `not_modelled` say this one by one.

## 6. Plan

In order, the most used behaviour first:

1. `DataCache` and what it promises. *Done, proved.*
2. Yara view and scan, the part this fork adds. *Done, proved.*
3. Restricted mode, the one concurrent part. *Done, proved.*
4. Hex view with selection, zones and search. *Done, but for the parts named above; proved.*
5. Connections of a PCAP file and the HTTP parser. *Done, proved.*
6. Collapsible zones of the disassembly. *Done, proved*; then moving by offset
   (`DissasmGetCurrentAsmLineAndPrepareCodeZone`) and renaming.
7. Text editor and tokens of the lexical view. *Done, proved but for liveness*; then folding of blocks
   and the token cursor.
8. `TypeMatch`: type identification (`App/Instance.cpp`, `Type/*Matcher.cpp`): first match, best
   match, ask. Abstract specification: the set of plugins that claim the file. What the reading
   says it should look at: only the extension pass of the first match hands the extension to
   `Validate` (`App/Instance.cpp:265`), so a plugin that asks for it (`Types/CSV/src/csv.cpp:14`)
   is refused by the best match, the dialog and a forced type; best match counts matches and not
   plugins, so one plugin that matches both ways is asked about (`App/Instance.cpp:312`); and
   `Priority` is raised to 0xFFFF at least (`Type/Plugin.cpp:86`), so the order of the plugins
   that set 1 is whatever `std::sort` leaves.
9. `Decoders`, `Checksums`: Base64, quoted-printable, LZXPRESS, CRC and Adler as
   functions against reference definitions; a hash of pieces is the hash of the whole.
10. `Dropper` and `SyncCompare`: a cache view held across reads, and two hex views in sync, which
   compose with `DataCache` and `BufferViewer`.

Theorems: the safety of items 8 to 10, each with its module.
