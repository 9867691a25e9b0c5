------------------------------ MODULE FileReader ------------------------------
(***************************************************************************)
(* What DataCache promises its callers: a file one reads from, with no     *)
(* window, no buffer and no memory of earlier reads.  A call is answered   *)
(* with bytes of the file at the offset asked, or with fewer or none when  *)
(* the file ends or cannot be read.                                        *)
(***************************************************************************)
EXTENDS Integers, Sequences

CONSTANTS Word32, Word64, MaxFileSize

VARIABLES
    size,       \* the size of the file, 0 before it is opened
    asked,      \* the call being served: [op, offset, size, fail]
    answer,     \* the bytes it was answered with, by file offset
    stage       \* "ready", "serving" or "answered"

vars == <<size, asked, answer, stage>>

Nothing == [op |-> "none", offset |-> 0, size |-> 0, fail |-> FALSE]
Calls == [op : {"get", "object", "copy", "write"},
          offset : 0 .. Word64 - 1, size : 0 .. Word32 - 1, fail : BOOLEAN]

Slice(o, k) == [i \in 1 .. k |-> o + i - 1]
Smaller(a, b) == IF a <= b THEN a ELSE b

(* The answers a call may get.  A caller that insists (fail) gets all it   *)
(* asked or nothing; WriteTo may also stop after some of it.  Nothing is   *)
(* promised about the bytes after the end of the file.                     *)
Answers(c) ==
    LET there == IF c.offset >= size THEN 0 ELSE Smaller(c.size, size - c.offset)
        prefixes == {Slice(c.offset, k) : k \in 0 .. there}
    IN  IF c.fail /\ c.op # "write"
        THEN {<<>>} \cup {p \in prefixes : Len(p) = c.size}
        ELSE prefixes

Init ==
    /\ size = 0
    /\ asked = Nothing
    /\ answer = <<>>
    /\ stage = "ready"

Open ==
    /\ stage = "ready"
    /\ size = 0
    /\ size' \in 0 .. MaxFileSize
    /\ UNCHANGED <<asked, answer, stage>>

Serve ==
    /\ stage = "ready"
    /\ asked' \in Calls
    /\ \/ stage' = "serving" /\ UNCHANGED answer
       \/ stage' = "answered" /\ answer' \in Answers(asked')
    /\ UNCHANGED size

Answer ==
    /\ stage = "serving"
    /\ stage' = "answered"
    /\ answer' \in Answers(asked)
    /\ UNCHANGED <<size, asked>>

Done ==
    /\ stage = "answered"
    /\ stage' = "ready"
    /\ asked' = Nothing
    /\ answer' = <<>>
    /\ UNCHANGED size

Next == Open \/ Serve \/ Answer \/ Done

(* A call that is being served is answered.                                *)
Spec == Init /\ [][Next]_vars /\ WF_vars(Answer)
=============================================================================
