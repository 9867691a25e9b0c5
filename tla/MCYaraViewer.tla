----------------------------- MODULE MCYaraViewer -----------------------------
(* Small rules folders and reports for YaraViewer.                         *)
EXTENDS YaraViewer, FiniteSets

Text(len, hits) == [len |-> len, hits |-> hits]
File(name, body) == [name |-> name, body |-> body]

(* The search: two files, texts that hold the text searched for, twice,    *)
(* once or not at all; the first section may be empty.                     *)
Texts == {Text(3, {0, 2}), Text(1, {})}
MCFoldersToSearch ==
    { << File(Text(2, {1}), body), File(Text(1, {}), <<text, Text(1, {0})>>) >> :
          body \in {<<>>, <<Text(1, {})>>, <<Text(3, {0, 2})>>}, text \in Texts }

(* The keys: no rule file, or an empty one and one of two lines.           *)
MCFolders ==
    { <<>>, << File(Text(1, {0}), <<>>), File(Text(0, {}), <<Text(2, {1}), Text(0, {})>>) >> }

(* The mouse: one file, one line.                                          *)
MCFolderToPoint == { << File(Text(1, {0}), <<Text(2, {1})>>) >> }

MCReports == { << Line("Normal", Text(2, {})), Line("Normal", Text(1, {0})) >> }
MCColumns == -1 .. Width - 1

(* Find Next visits every occurrence again and again, through sections     *)
(* that are folded away and whatever is folded meanwhile.                  *)
FindNextCycles ==
    \A i \in 1 .. 8, c \in 0 .. 2 :
        []<>(i \in DOMAIN lines => (c \in lines[i].text.hits => Highlights(i, c)))
===============================================================================
