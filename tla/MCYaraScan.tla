------------------------------ MODULE MCYaraScan ------------------------------
(* Two rule files; outputs of two lines of any kind, of three lines of     *)
(* matches and strings, and longer ones where the kinds alternate or the   *)
(* text of a matched string holds "error:".                                *)
EXTENDS YaraScan

Printed(kind, name, says) == [kind |-> kind, name |-> name, says |-> says]

MCRules == <<"first.yara", "second.yara">>
Empty  == Printed("empty", "", {})
Failed == Printed("error", "", {"error:"})
Warned == Printed("warning", "", {"warning:"})
Match(rule) == Printed("header", rule, {"path and brackets"})
Str(s) == Printed("string", s, {})

MCLines == {Empty, Failed, Warned, Match("r1"), Match("r2"), Str("a"), Str("b")}
MCOutputs ==
    UNION {[1 .. n -> MCLines] : n \in 0 .. 2}
        \cup [1 .. 3 -> {Match("r1"), Match("r2"), Str("a")}]
        \cup { <<Match("r1"), Str("a"), Match("r2"), Str("b")>>,
               <<Warned, Str("a"), Match("r1"), Failed, Str("b"), Empty, Str("a")>>,
               <<Match("r1"), Str("a"), Printed("string", "b", {"error:"})>> }
===============================================================================
