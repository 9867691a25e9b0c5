---------------------------- MODULE DissasmZones ----------------------------
(***************************************************************************)
(* The collapsible zones of a disassembly (View/DissasmViewer/             *)
(* DissasmCodeZone.cpp and x86_x64/DissasmX86.cpp): lines selected by the  *)
(* user become a zone that is shown as one line when collapsed.            *)
(*                                                                         *)
(* The listing is a sequence of lines, some of them labels (annotations),  *)
(* the others instructions; what is shown for a line is a label or the     *)
(* number of an instruction, counted from the counters of its zone.        *)
(* Zones nest two levels deep.  Names of zones are abstracted to having    *)
(* one, texts of comments to members of Notes, and a decoded instruction   *)
(* to its number.  Renaming and the comments a painted line adds by itself *)
(* are left out.                                                           *)
(***************************************************************************)
EXTENDS Integers, SequencesExt

CONSTANTS
    End,      \* lines of the listing: indexZoneEnd of the whole
    Labels,    \* the lines that are labels
    Notes,     \* texts of comments
    MaxNotes,  \* bound: comments at a time
    MaxZones,  \* bound: zones side by side
    MaxPassed, \* bound: the count of the reader, which a read backward increments
    NoLine     \* lastReachedLine before the first read

ASSUME ListingAssumption == End \in Nat \ {0} /\ Labels \subseteq 0 .. End - 1
ASSUME BoundAssumption == {MaxNotes, MaxZones, MaxPassed} \subseteq Nat

VARIABLES
    zones,     \* dissasmType.internalTypes
    comments,  \* dissasmType.commentsData: by line - 1
    path,      \* levels: where the last line read is, as indices from the top
    level,     \* structureIndex: the last line read, 0 after a reset
    reached,   \* lastReachedLine
    passed,    \* asmLinesPassed of the zone at path
    size,      \* extendedSize: the last line the view will ask for
    stuck,     \* a read ran off the tree: it spins or crashes
    ranges,    \* history: the parts of the listing the user has made zones of
    notes,     \* history: the comments the user has made, by listing line
    plain      \* history: nothing was done yet that the code gets wrong

tree == <<zones, comments>>
reader == <<path, level, reached, passed>>
history == <<ranges, notes, plain>>
vars == <<tree, reader, size, stuck, history>>

\* A line number is a uint32: the comment of line 0 is kept under the highest.
Wrap == 4 * End
Plus(a, d) == (a + d) % Wrap
Key(line) == Plus(line, -1)

Shift(f, d) ==
    [k \in {Plus(j, d) : j \in DOMAIN f} |-> f[CHOOSE j \in DOMAIN f : Plus(j, d) = k]]

Between(f, low, high) == RestrictDomain(f, LAMBDA k : low <= k /\ k < high)

Over(f, g) == [k \in DOMAIN f \cup DOMAIN g |-> IF k \in DOMAIN f THEN f[k] ELSE g[k]]

Put(f, key, value) == [k \in DOMAIN f \cup {key} |-> IF k = key THEN value ELSE f[k]]

------------------------------------------------------------------------------
(* Zones: DissasmCodeInternalType. *)

Zone(low, high, named, asm, labels, remarks) ==
    [low |-> low, high |-> high, workLow |-> low, workHigh |-> high, named |-> named,
     asm |-> asm, labels |-> labels, comments |-> remarks, collapsed |-> FALSE, inner |-> <<>>]

Root == [Zone(0, End, FALSE, 0, [l \in Labels |-> l], comments) EXCEPT !.inner = zones]

Within(z, line) == z.low <= line /\ line < z.high

\* The first of zs that holds the line, 0 for none.
At(zs, line) == SelectInSeq(zs, LAMBDA z : Within(z, line))

GetSize(z) == IF z.collapsed THEN z.workHigh - z.workLow ELSE Plus(z.high, -z.low)

AsmAfterLines(z) == Plus(z.asm, GetSize(z))

\* UpdateDataLineFromPrevious.
AsmAfter(z) == Plus(z.asm, GetSize(z) - Cardinality(DOMAIN z.labels))

------------------------------------------------------------------------------
(* AddCollapsibleZone. *)

Fits(zs, s, e) ==
    At(zs, s) # 0 => LET z == zs[At(zs, s)]
                     IN  e <= z.high /\ ~(z.named /\ z.low = s /\ z.high = e)

CanAddNewZone(s, e) ==
    /\ e <= End
    /\ Fits(zones, s, e)
    /\ At(zones, s) # 0 => Fits(zones[At(zones, s)].inner, s, e)

\* The zone to split, 0 for the whole listing.
Splits(s, e) == SelectInSeq(zones, LAMBDA z : z.low <= s /\ e <= z.high)

\* AddNewZone: the zone from s up to e, what is left of the zone it splits before and
\* after it, and what these hold of its labels and comments.  A named zone keeps its
\* range and gets the pieces inside; the last piece then still ends where the zone
\* after it in the outer list says.
AddNewZone(s, e) ==
    LET i      == Splits(s, e)
        parent == IF i = 0 THEN Root ELSE zones[i]
        inside == i # 0 /\ parent.named
        k      == IF i = 0 THEN Len(zones) ELSE i - 1
        a      == IF s = 0 THEN 0 ELSE s - 1
        asm    == IF inside THEN parent.asm
                  ELSE IF k > 0 THEN AsmAfter(zones[k]) ELSE 0
        before == Zone(parent.low, s, FALSE, asm,
                       Between(parent.labels, 0, s), Between(parent.comments, 0, a))
        new    == Zone(s, e, TRUE, AsmAfter(before),
                       Between(parent.labels, s, e), Between(parent.comments, a, e - 1))
        made   == IF s = parent.low
                  THEN << [new EXCEPT !.asm = asm, !.labels = Over(before.labels, @),
                                      !.comments = Over(before.comments, @)] >>
                  ELSE << before, new >>
        next   == IF inside THEN Len(made) + 2 ELSE k + 2
        after  == Zone(IF e = End THEN s ELSE e,
                       IF e # End /\ next <= Len(zones) THEN zones[next].low ELSE End,
                       FALSE, AsmAfter(made[Len(made)]),
                       Between(parent.labels, e, Wrap), Between(parent.comments, e - 1, Wrap))
    IN  IF i # 0 /\ ~parent.named /\ parent.low = s /\ parent.high = e
        THEN [zones EXCEPT ![i].named = TRUE]
        ELSE IF inside
        THEN [zones EXCEPT ![i].inner = made \o <<after>> \o @]
        ELSE SubSeq(zones, 1, k) \o made \o <<after>> \o SubSeq(zones, k + 2, Len(zones))

------------------------------------------------------------------------------
(* CollapseOrExtendZone. *)

MovedBackHalf(z, d) == [z EXCEPT !.low = Plus(@, d), !.high = Plus(@, d),
                                 !.labels = IF d < 0 THEN Shift(@, d) ELSE @, !.comments = Shift(@, d)]

MovedWithoutComments(z, d) == [z EXCEPT !.low = Plus(@, d), !.high = Plus(@, d),
                                        !.labels = Shift(@, d)]

Moved(z, d) == [z EXCEPT !.low = Plus(@, d), !.high = Plus(@, d),
                         !.labels = Shift(@, d), !.comments = Shift(@, d)]

Toggled(z, d) == [z EXCEPT !.collapsed = ~@, !.high = Plus(@, d)]

\* One turn of the loop over the zones of a list.  "below" is what the loop over the
\* zones inside z gives; a change below makes z longer or shorter with it.
Visit(line, collapse, acc, z, below) ==
    LET d == (IF collapse THEN -1 ELSE 1) * (z.workHigh - z.workLow - 1)
        goOn(by, failed, y) == [by |-> by, failed |-> failed, list |-> Append(acc.list, y)]
    IN  IF acc.failed THEN goOn(acc.by, TRUE, z)
        ELSE IF ~Within(z, line)
        THEN goOn(acc.by, FALSE, IF acc.by # 0 /\ line < z.low THEN Moved(z, acc.by) ELSE z)
        ELSE IF ~below.failed /\ below.by # 0
        THEN goOn(below.by, FALSE, [z EXCEPT !.inner = below.list, !.high = Plus(@, below.by)])
        ELSE IF z.inner # <<>> \/ ~z.named \/ z.collapsed = collapse
        THEN goOn(below.by, TRUE, [z EXCEPT !.inner = below.list])
        ELSE goOn(d, FALSE, Toggled(z, d))

Start(by) == [by |-> by, failed |-> FALSE, list |-> <<>>]

\* GetRecursiveZoneByLine over the two levels.
InInner(line, collapse, by, zs) ==
    LET acc[n \in 0 .. Len(zs)] ==
            IF n = 0 THEN Start(by)
            ELSE Visit(line, collapse, acc[n - 1], zs[n], Start(acc[n - 1].by))
    IN  acc[Len(zs)]

GetRecursiveZoneByLine(line, collapse, zs) ==
    LET acc[n \in 0 .. Len(zs)] ==
            IF n = 0 THEN Start(0)
            ELSE Visit(line, collapse, acc[n - 1], zs[n],
                       InInner(line, collapse, acc[n - 1].by, zs[n].inner))
    IN  acc[Len(zs)]

Changed(r) == ~r.failed /\ r.by # 0

------------------------------------------------------------------------------
(* RemoveCollapsibleZone. *)

\* GetRemoveZoneCollapsibleDetails: the outermost open zone around the line, as a path.
Removable(line) ==
    LET Sought(zs) == IF zs = <<>> \/ line > zs[Len(zs)].high THEN 0 ELSE At(zs, line)
        Open(z)    == z.named /\ ~z.collapsed
        i == Sought(zones)
        j == Sought(zones[i].inner)
    IN  IF i = 0 THEN <<>>
        ELSE IF Open(zones[i]) THEN <<i>>
        ELSE IF j # 0 /\ Open(zones[i].inner[j]) THEN <<i, j>>
        ELSE <<>>

Bare(zs, i) == i \in DOMAIN zs /\ ~zs[i].named

\* A list without its zone i.  Two zones, or one with bare neighbours on both sides, go
\* altogether, unless one of them is collapsed.  Otherwise the zone takes what is bare
\* behind it, or the zone before it does: that one also loses its name, not the zone.
Clears(zs, i) == Len(zs) = 2 \/ (Len(zs) = 3 /\ i = 2 /\ Bare(zs, 1) /\ Bare(zs, 3))
Refuses(zs, i) ==
    /\ Len(zs) = 2 \/ (Len(zs) = 3 /\ i = 2)
    /\ \E j \in DOMAIN zs : zs[j].collapsed
Without(zs, i) ==
    LET t     == IF i > 1 THEN i - 1 ELSE i
        taken == IF Bare(zs, i + 1)
                 THEN [zs EXCEPT ![t].high = zs[i + 1].high, ![t].workHigh = zs[i + 1].workHigh,
                                 ![t].labels = Over(@, zs[i + 1].labels)]
                 ELSE zs
        unnamed == [taken EXCEPT ![t].named = FALSE]
        last  == IF Bare(zs, i - 1) THEN i - 1 ELSE i
        next  == IF Bare(zs, i + 1) THEN i + 2 ELSE i + 1
    IN  IF Clears(zs, i) THEN <<>>
        ELSE SubSeq(unnamed, 1, last) \o SubSeq(unnamed, next, Len(zs))

------------------------------------------------------------------------------
(* Reading a line: ReachZoneLine and GetCurrentAsmLine. *)

ZoneAt(p) ==
    CASE Len(p) = 0 -> Root
      [] Len(p) = 1 -> zones[p[1]]
      [] OTHER      -> zones[p[1]].inner[p[2]]

\* The part of the path whose zones hold the line.
Kept(line) ==
    IF Within(ZoneAt(path), line) THEN path
    ELSE IF Len(path) = 2 /\ Within(zones[path[1]], line) THEN <<path[1]>>
    ELSE <<>>

\* One level down; 0 where no zone holds the line, and the code tries again forever.
Down(p, line) == IF ZoneAt(p).inner = <<>> THEN p ELSE Append(p, At(ZoneAt(p).inner, line))

Descent(line) ==
    LET once == Down(Kept(line), line)
    IN  IF Len(once) > 0 /\ once[Len(once)] = 0 THEN once ELSE Down(once, line)

RunsOff(line) == line >= End \/ 0 \in Range(Descent(line))

\* The instructions of a zone up to and with a line.
Instructions(z, line) == Cardinality({l \in z.low .. line : l \notin DOMAIN z.labels})

\* The count is made anew in a zone just entered and after a jump.
Recounts(line) ==
    \/ Kept(line) # path \/ ZoneAt(path).inner # <<>>
    \/ line \notin level - 1 .. level + 1

Reach(line) ==
    LET p == Descent(line)
        z == ZoneAt(p)
    IN  /\ path' = p
        /\ passed' = IF Recounts(line) THEN Instructions(z, line)
                     ELSE IF line \in DOMAIN z.labels THEN passed ELSE passed + 1
        /\ level' = line
        /\ reached' = line

GetCurrentAsmLine(line) ==
    /\ stuck' = (line # reached /\ RunsOff(line))
    /\ IF line = reached \/ RunsOff(line) THEN UNCHANGED reader ELSE Reach(line)
    /\ UNCHANGED <<tree, size, history>>

\* What is shown for the line just read.
Shown ==
    LET z == ZoneAt(path)
    IN  IF z.collapsed THEN [kind |-> "collapsed", at |-> -1]
        ELSE IF reached \in DOMAIN z.labels THEN [kind |-> "label", at |-> z.labels[reached]]
        ELSE [kind |-> "instruction", at |-> z.asm + passed - 1]

------------------------------------------------------------------------------
(* What the user has in mind: parts of the listing, some folded away. *)

\* The listing lines in sight, and the listing line at a line of the view, End if it
\* is past the end.
Hidden(l) == \E r \in ranges : r.folded /\ r.from < l /\ l < r.to
Origin(line) ==
    LET sight == {l \in 0 .. End - 1 : ~Hidden(l)}
        there == {l \in sight : Cardinality({m \in sight : m < l}) = line}
    IN  IF there = {} THEN End ELSE CHOOSE l \in there : TRUE

RangesAt(line) == {r \in ranges : r.from <= Origin(line) /\ Origin(line) < r.to}
Smallest(rs) == CHOOSE r \in rs : \A q \in rs : q.from <= r.from /\ r.to <= q.to
Largest(rs)  == CHOOSE r \in rs : \A q \in rs : r.from <= q.from /\ q.to <= r.to

Expected(line) ==
    LET l == Origin(line)
    IN  IF \E r \in RangesAt(line) : r.folded THEN [kind |-> "collapsed", at |-> -1]
        ELSE IF l \in Labels THEN [kind |-> "label", at |-> l]
        ELSE [kind |-> "instruction", at |-> Cardinality({m \in 0 .. l - 1 : m \notin Labels})]

\* Once something the code gets wrong was done, there is nothing to compare with and the
\* model goes no further.
Forget == ranges' = {} /\ notes' = <<>> /\ plain' = FALSE
Remember(fits, r, n) == IF plain /\ fits THEN ranges' = r /\ notes' = n /\ plain' = TRUE ELSE Forget

------------------------------------------------------------------------------
(* The operations. *)

Init ==
    /\ zones = <<>> /\ comments = <<>>
    /\ path = <<>> /\ level = 0 /\ reached = NoLine /\ passed = 0
    /\ size = End - 1
    /\ stuck = FALSE
    /\ ranges = {} /\ notes = <<>> /\ plain = TRUE

ResetReaderKeepingPath == level' = 0 /\ reached' = NoLine /\ passed' = 0 /\ UNCHANGED path

\* ResetTypesReferenceList.
ResetReader == path' = <<>> /\ level' = 0 /\ reached' = NoLine /\ passed' = 0

Lines == 0 .. size

\* The additions that are right: not up to the end of the listing, behind no zone with a
\* zone folded inside, and inside a zone only the first one, where the zone that the code
\* takes for the next is the next.
AddsWell(s, e) ==
    LET i == Splits(s, e)
        next == IF s = zones[i].low THEN 3 ELSE 4
    IN  /\ e # End /\ Origin(e - 1) < End
        /\ \A z \in Range(zones) : \A y \in Range(z.inner) : ~y.collapsed
        /\ i # 0 => zones[i].inner = <<>>
        /\ i # 0 /\ zones[i].named => DOMAIN zones[i].comments = {}
        /\ i # 0 /\ zones[i].named => next <= Len(zones) /\ zones[next].low = zones[i].high

AddCollapsibleZone(s, e) ==
    /\ CanAddNewZone(s, e)
    /\ zones' = AddNewZone(s, e)
    /\ ResetReader
    /\ Remember(AddsWell(s, e), ranges \cup {[from |-> Origin(s), to |-> Origin(e), folded |-> FALSE]}, notes)
    /\ UNCHANGED <<comments, size, stuck>>

\* The folds that are right: with no zone inside a zone behind it, which would not move.
FoldsWell(line) == \A z \in Range(zones) : line < z.low => z.inner = <<>>

\* The new size starts from the size of the whole listing, whatever else is collapsed.
CollapseOrExtendZone(line, collapse) ==
    LET r == GetRecursiveZoneByLine(line, collapse, zones)
        q == Smallest(RangesAt(line))
    IN  /\ zones' = r.list
        /\ IF Changed(r)
           THEN size' = End - 1 + r.by /\ passed' = 0
           ELSE UNCHANGED <<size, passed>>
        /\ IF r.list = zones THEN UNCHANGED history
           ELSE Remember(FoldsWell(line), (ranges \ {q}) \cup {[q EXCEPT !.folded = collapse]}, notes)
        /\ UNCHANGED <<comments, path, level, reached, stuck>>

\* The removals that are right: with no comment made, no zone inside and every zone where
\* it was made, a first zone or one with bare neighbours and no label.
RemovesWell(zs, i) ==
    /\ DOMAIN notes \cup DOMAIN comments = {}
    /\ \A z \in Range(zs) : z.inner = <<>> /\ z.low = z.workLow /\ z.high = z.workHigh
    /\ Clears(zs, i) => \A j \in DOMAIN zs \ {i} : Bare(zs, j)
    /\ Clears(zs, i) \/ i = 1 \/ (Bare(zs, i - 1) /\ Bare(zs, i + 1) /\ DOMAIN zs[i].labels = {})

RemoveCollapsibleZone(line) ==
    LET p  == Removable(line)
        zs == IF Len(p) = 1 THEN zones ELSE zones[p[1]].inner
        i  == p[Len(p)]
    IN  /\ p # <<>>
        /\ ~Refuses(zs, i)
        /\ zones' = IF Len(p) = 1 THEN Without(zs, i) ELSE [zones EXCEPT ![p[1]].inner = Without(zs, i)]
        /\ ResetReader
        /\ Remember(RemovesWell(zs, i), ranges \ {Largest(RangesAt(line))}, notes)
        /\ UNCHANGED <<comments, size, stuck>>

\* Where a comment of the line goes: the innermost zone around it.
Innermost(line) ==
    LET i == At(zones, line)
        j == At(zones[i].inner, line)
    IN  IF zones = <<>> THEN <<>> ELSE IF j = 0 THEN <<i>> ELSE <<i, j>>

\* Where it is looked for: there, and then in the zone around that.
Places(line) ==
    LET p == Innermost(line)
    IN  {q \in {p} \cup {<<i>> : i \in Range(SubSeq(p, 1, Len(p) - 1))} : Key(line) \in DOMAIN ZoneAt(q).comments}
CommentAt(line) ==
    IF (zones # <<>> /\ At(zones, line) = 0) \/ Places(line) = {} THEN {}
    ELSE {ZoneAt(CHOOSE q \in Places(line) : \A r \in Places(line) : Len(r) <= Len(q)).comments[Key(line)]}

Recomment(p, f) ==
    CASE Len(p) = 0 -> comments' = f /\ UNCHANGED zones
      [] Len(p) = 1 -> zones' = [zones EXCEPT ![p[1]].comments = f] /\ UNCHANGED comments
      [] OTHER      -> zones' = [zones EXCEPT ![p[1]].inner[p[2]].comments = f] /\ UNCHANGED comments

AddOrUpdateComment(line, note) ==
    LET p == Innermost(line)
    IN  /\ zones # <<>> => At(zones, line) # 0
        /\ Cardinality(DOMAIN notes \cup {Origin(line)}) <= MaxNotes
        /\ Recomment(p, Put(ZoneAt(p).comments, Key(line), note))
        /\ Remember(Origin(line) < End, ranges, Put(notes, Origin(line), note))
        /\ UNCHANGED <<reader, size, stuck>>

RemoveComment(line) ==
    /\ CommentAt(line) # {}
    /\ LET p == CHOOSE q \in Places(line) : \A r \in Places(line) : Len(r) <= Len(q)
       IN  Recomment(p, RestrictDomain(ZoneAt(p).comments, LAMBDA k : k # Key(line)))
    /\ Remember(TRUE, ranges, RestrictDomain(notes, LAMBDA l : l # Origin(line)))
    /\ UNCHANGED <<reader, size, stuck>>

Next ==
    \/ \E line \in Lines :
          /\ plain /\ ~stuck
          /\ \/ GetCurrentAsmLine(line) /\ passed' <= MaxPassed
             \/ \E e \in line + 1 .. size + 1 : AddCollapsibleZone(line, e) /\ Len(zones') <= MaxZones
             \/ \E collapse \in BOOLEAN : CollapseOrExtendZone(line, collapse)
             \/ RemoveCollapsibleZone(line)
             \/ \E note \in Notes : AddOrUpdateComment(line, note)
             \/ RemoveComment(line)
    \/ (stuck \/ ~plain) /\ UNCHANGED vars

Spec == Init /\ [][Next]_vars

------------------------------------------------------------------------------
(***************************************************************************)
(* Properties.                                                             *)
(***************************************************************************)

ZoneOK(z) ==
    /\ {z.low, z.high, z.workLow, z.workHigh} \subseteq 0 .. Wrap
    /\ z.named \in BOOLEAN /\ z.collapsed \in BOOLEAN
    /\ DOMAIN z.labels \subseteq 0 .. Wrap - 1 /\ Range(z.labels) \subseteq Labels
    /\ DOMAIN z.comments \subseteq 0 .. Wrap - 1 /\ Range(z.comments) \subseteq Notes

\* Every variable keeps to its type; zones nest two levels deep and the path to the
\* last line read leads to a zone.
TypeOK ==
    /\ \A z \in Range(zones) : ZoneOK(z) /\ \A y \in Range(z.inner) : ZoneOK(y) /\ y.inner = <<>>
    /\ Len(path) > 0 => path[1] \in DOMAIN zones
    /\ Len(path) > 1 => path[2] \in DOMAIN zones[path[1]].inner
    /\ Len(path) < 3
    /\ level \in Nat /\ reached \in Nat \cup {NoLine} /\ passed \in Nat /\ size \in Nat
    /\ stuck \in BOOLEAN /\ plain \in BOOLEAN

\* The count of the reader is the one of the line it stands on.
Counted == reached = level /\ passed = Instructions(ZoneAt(path), level)

\* Reading shows the listing.  Whatever zones lie side by side, added, removed, collapsed
\* and expanded in any order, a read that jumps, comes into a zone or goes on from the
\* line before ends and shows what the user has at that place of the listing: the label,
\* the instruction by its number, or the zone folded there.
LineIsExact ==
    [][\A line \in Lines :
          /\ plain /\ line # reached /\ UNCHANGED tree
          /\ GetCurrentAsmLine(line)
          /\ Origin(line) < End
          /\ RunsOff(line) \/ Recounts(line) \/ (Counted /\ line = level + 1)
          => ~stuck' /\ Shown' = Expected(line)]_vars

\* Expanding a zone just collapsed, at its line, gives back every zone, label and comment
\* as it was.
ExpandUndoesCollapse ==
    plain => \A line \in Lines :
        LET r == GetRecursiveZoneByLine(line, TRUE, zones)
            z == ZoneAt(Innermost(line))
        IN  Changed(r) => GetRecursiveZoneByLine(z.low, FALSE, r.list).list = zones

\* A comment stays with its line of the listing, through every zone added, collapsed and
\* expanded around it or before it, as far as these are right.  Line 0 is left out: its key
\* wraps to the highest number, and folds move it with the keys of later lines.
CommentsStay ==
    plain => \A line \in Lines :
        LET l == Origin(line)
        IN  l \in 1 .. End - 1 => CommentAt(line) = {notes[m] : m \in DOMAIN notes \cap {l}}
==============================================================================
