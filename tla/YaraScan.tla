------------------------------- MODULE YaraScan -------------------------------
(***************************************************************************)
(* RunYara (GViewCore/src/View/YaraViewer/Instance.cpp): one process per   *)
(* selected rule file, whose output goes to a file that is then read line  *)
(* by line into the report.                                                *)
(*                                                                         *)
(* A line of output is what it is (kind) and what its text holds (says):   *)
(* the code goes by the text alone.  The report is a sequence of blocks;   *)
(* the lines each block is drawn with are left out.                        *)
(***************************************************************************)
EXTENDS Integers, Sequences, SequencesExt, FiniteSetsExt

CONSTANTS
    Rules,      \* the selected rule files, in order
    Outputs     \* what the scanner may print: sequences of lines
                \* [kind, name : the rule matched or the string, says]

OutputLine == [kind : {"empty", "error", "warning", "header", "string"}, name : STRING,
         says : SUBSET {"error:", "warning:", "path and brackets"}]

VARIABLES
    pending,            \* rule files not yet scanned
    in,                 \* lines of the output not yet read
    currentRule,        \* rule of the match being read, or NoRule
    matchedStrings,
    foundAnyInFile, hasErrors,
    report,             \* blocks of yaraLines
    globalMatchCount,
    phase,              \* "scanning", "reading" or "done"
    scans               \* history: what each scan was, [rule, ok, output]

scanVars == <<pending, in, currentRule, matchedStrings, foundAnyInFile, hasErrors,
              report, globalMatchCount, phase, scans>>

NoRule == "no rule"
IsText(line) == line.kind # "empty"
Block(type, rule, strings) == [type |-> type, rule |-> rule, strings |-> strings]
Note(type) == Block(type, NoRule, <<>>)

(* The first test a line passes decides what it is taken for.              *)
TakenFor(line) ==
    IF "error:" \in line.says THEN "error"
    ELSE IF "warning:" \in line.says THEN "warning"
    ELSE IF "path and brackets" \in line.says THEN "header"
    ELSE "string"

ASSUME RulesAssumption == Rules \in Seq(STRING)
(* A header begins with the name of a rule.                                *)
ASSUME OutputsAssumption ==
    /\ Outputs \subseteq Seq(OutputLine)
    /\ \A output \in Outputs : \A i \in DOMAIN output :
          TakenFor(output[i]) = "header" => output[i].name # NoRule

-----------------------------------------------------------------------------
ScanInit ==
    /\ pending = Rules
    /\ in = <<>>
    /\ currentRule = NoRule
    /\ matchedStrings = <<>>
    /\ foundAnyInFile = FALSE
    /\ hasErrors = FALSE
    /\ report = <<>>
    /\ globalMatchCount = 0
    /\ phase = "scanning"
    /\ scans = <<>>

NextRule(ok, output) ==
    /\ phase = "scanning"
    /\ pending # <<>>
    /\ pending' = Tail(pending)
    /\ scans' = Append(scans, [rule |-> Head(pending), ok |-> ok, output |-> output])
    /\ UNCHANGED globalMatchCount

Title == Block("scanning", Head(pending), <<>>)

ScanFailsAndStops(why) ==
    /\ phase = "scanning"
    /\ pending # <<>>
    /\ pending' = <<>>
    /\ scans' = Append(scans, [rule |-> Head(pending), ok |-> FALSE, output |-> <<>>])
    /\ report' = report \o <<Title, Note(why)>>
    /\ UNCHANGED <<in, currentRule, matchedStrings, foundAnyInFile, hasErrors, phase,
                   globalMatchCount>>
(* ShellExecuteEx fails, or the output cannot be opened.                   *)
ScanFails(why) ==
    /\ NextRule(FALSE, <<>>)
    /\ report' = report \o <<Title, Note(why)>>
    /\ UNCHANGED <<in, currentRule, matchedStrings, foundAnyInFile, hasErrors, phase>>

Scan(output) ==
    /\ NextRule(TRUE, output)
    /\ report' = Append(report, Title)
    /\ in' = output
    /\ currentRule' = NoRule
    /\ matchedStrings' = <<>>
    /\ foundAnyInFile' = FALSE
    /\ hasErrors' = FALSE
    /\ phase' = "reading"

ReadLine ==
    /\ phase = "reading"
    /\ in # <<>>
    /\ in' = Tail(in)
    /\ UNCHANGED <<pending, phase, scans>>

(* An empty line is skipped before it counts for anything.                 *)
ReadEmpty ==
    /\ ReadLine
    /\ ~IsText(Head(in))
    /\ UNCHANGED <<currentRule, matchedStrings, foundAnyInFile, hasErrors, report,
                   globalMatchCount>>

ReadText(taken) ==
    /\ ReadLine
    /\ IsText(Head(in))
    /\ TakenFor(Head(in)) = taken
    /\ foundAnyInFile' = TRUE

ReadError ==
    /\ ReadText("error")
    /\ hasErrors' = TRUE
    /\ report' = Append(report, Note("error"))
    /\ UNCHANGED <<currentRule, matchedStrings, globalMatchCount>>

ReadWarning ==
    /\ ReadText("warning")
    /\ report' = Append(report, Note("warning"))
    /\ UNCHANGED <<currentRule, matchedStrings, hasErrors, globalMatchCount>>

(* AddMatchToUI for the match read so far, if there is one.                *)
Dump ==
    IF currentRule = NoRule
    THEN UNCHANGED <<report, globalMatchCount>>
    ELSE /\ report' = Append(report, Block("match", currentRule, matchedStrings))
         /\ globalMatchCount' = globalMatchCount + 1

StringsStay == UNCHANGED matchedStrings
ForgetStrings == matchedStrings' = <<>>

ReadHeader ==
    /\ ReadText("header")
    /\ Dump
    /\ ForgetStrings
    /\ currentRule' = Head(in).name
    /\ UNCHANGED hasErrors

ReadString ==
    /\ ReadText("string")
    /\ matchedStrings' = Append(matchedStrings, Head(in).name)
    /\ UNCHANGED <<currentRule, hasErrors, report, globalMatchCount>>

CleanAnyway == TRUE
CleanFile == ~foundAnyInFile \/ ~hasErrors

EndOfFile ==
    /\ phase = "reading"
    /\ in = <<>>
    /\ phase' = "scanning"
    /\ IF currentRule = NoRule /\ CleanFile
       THEN report' = Append(report, Note("clean")) /\ UNCHANGED globalMatchCount
       ELSE Dump
    /\ UNCHANGED <<pending, in, currentRule, matchedStrings, foundAnyInFile,
                   hasErrors, scans>>

(* The summary goes to the top of the report.                              *)
Summary ==
    /\ phase = "scanning"
    /\ pending = <<>>
    /\ phase' = "done"
    /\ report' = <<Note(IF globalMatchCount > 0 THEN "infected" ELSE "status clean")>>
                     \o report
    /\ UNCHANGED <<pending, in, currentRule, matchedStrings, foundAnyInFile,
                   hasErrors, globalMatchCount, scans>>

ScanNext ==
    \/ \E why \in {"execution failed", "cannot open output"} : ScanFails(why)
    \/ \E output \in Outputs : Scan(output)
    \/ ReadEmpty
    \/ ReadError
    \/ ReadWarning
    \/ ReadHeader
    \/ ReadString
    \/ EndOfFile
    \/ Summary

(* The code waits for the scanner without a limit, so that Scan is fair    *)
(* only if the scanner ends; the reading loop is plain sequential code.    *)
ScanSpec == ScanInit /\ [][ScanNext]_scanVars /\ WF_scanVars(ScanNext)

-----------------------------------------------------------------------------
BlockTypes == {"scanning", "execution failed", "cannot open output", "error", "warning",
               "match", "clean", "infected", "status clean"}
BlockType == [type : BlockTypes, rule : STRING \cup {NoRule}, strings : Seq(STRING)]
ScanType == [rule : STRING, ok : BOOLEAN, output : Seq(OutputLine)]
ScanTypeOK ==
    /\ scans \in Seq(ScanType)
    /\ Len(scans) <= Len(Rules)
    /\ pending = SubSeq(Rules, Len(scans) + 1, Len(Rules))
    /\ in \in Seq(OutputLine)
    /\ currentRule \in STRING \cup {NoRule}
    /\ matchedStrings \in Seq(STRING)
    /\ foundAnyInFile \in BOOLEAN
    /\ hasErrors \in BOOLEAN
    /\ report \in Seq(BlockType)
    /\ globalMatchCount \in Nat
    /\ phase \in {"scanning", "reading", "done"}

(* What an output says, read as a whole: each header is a match, with the  *)
(* strings behind it up to the next header.                                *)
Are(lines, kind) == {i \in DOMAIN lines : IsText(lines[i]) /\ TakenFor(lines[i]) = kind}
Behind(lines, h) ==
    {k \in Are(lines, "string") : h < k /\ \A j \in h + 1 .. k : j \notin Are(lines, "header")}
StringsOf(lines, h) ==
    FlattenSeq([k \in DOMAIN lines |-> IF k \in Behind(lines, h) THEN <<lines[k].name>> ELSE <<>>])
MatchesIn(lines) ==
    FlattenSeq([h \in DOMAIN lines |-> IF h \in Are(lines, "header")
                                       THEN <<Block("match", lines[h].name, StringsOf(lines, h))>>
                                       ELSE <<>>])
Matches == FlattenSeq([s \in DOMAIN scans |-> MatchesIn(scans[s].output)])

IsMatch(b) == b.type = "match"
Reported ==
    FlattenSeq([b \in DOMAIN report |-> IF IsMatch(report[b]) THEN <<report[b]>> ELSE <<>>])
Done == phase = "done"

(* The matches of the report are those of the outputs, in order, each with *)
(* its own strings: none lost at the end of a file, none merged with the   *)
(* next, no string carried over from one match or rule file to another.    *)
(* The summary counts them, and says infected when there is one.           *)
ReportIsExact ==
    Done =>
        /\ Reported = Matches
        /\ globalMatchCount = Len(Matches)
        /\ report[1].type = "infected" <=> Matches # <<>>

Titles == {b \in DOMAIN report : report[b].type = "scanning"}
ScanOf(b) == Cardinality({c \in 1 .. b : c \in Titles})

(* No rule file is passed over in silence: each has its title, in order,   *)
(* and each title is followed by a block that is not a title, the last one *)
(* too.  And a rule file is called clean only if its scan ran, without an  *)
(* error and without a match.                                              *)
EveryRuleAnswered ==
    Done =>
        /\ ScanOf(Len(report)) = Len(Rules)
        /\ \A b \in Titles :
              /\ report[b].rule = Rules[ScanOf(b)]
              /\ b < Len(report) /\ b + 1 \notin Titles
        /\ \A b \in DOMAIN report : report[b].type = "clean" =>
              LET scan == scans[ScanOf(b)]
              IN  scan.ok /\ Are(scan.output, "error") = {} /\ Are(scan.output, "header") = {}

(* Every selected rule file is scanned and the report completed.           *)
ScanEnds == <>(Done /\ Len(scans) = Len(Rules))

-----------------------------------------------------------------------------
(* What the program's own texts say and the code does not do.              *)

(* The status is clean only if every rule file could be scanned.           *)
StatusIsClean == Done /\ report[1].type = "status clean" => \A s \in DOMAIN scans : scans[s].ok
===============================================================================
