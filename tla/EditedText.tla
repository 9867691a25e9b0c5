------------------------------ MODULE EditedText ------------------------------
(***************************************************************************)
(* What TextEditor promises the plugins and the dialogs that edit through  *)
(* it: a text without a buffer.  A call puts a text in the place of some   *)
(* characters, or is refused, and then nothing has changed.                *)
(***************************************************************************)
EXTENDS Naturals, Sequences

CONSTANTS Chars

VARIABLES
    content,    \* the text
    asked,      \* the last call: [op, at, count, by]
    answer,     \* whether it was done
    working     \* a job of many calls goes on: ReplaceAll, or a rebuild

vars == <<content, asked, answer, working>>

Nothing == [op |-> "none", at |-> 0, count |-> 0, by |-> <<>>]

(* by in the place of the count characters of t behind the first at ones.  *)
Spliced(t, c) ==
    LET end  == IF c.at + c.count <= Len(t) THEN c.at + c.count ELSE Len(t)
        more == Len(c.by)
    IN  [i \in 1 .. c.at + more + (Len(t) - end) |->
            IF i <= c.at THEN t[i]
            ELSE IF i <= c.at + more THEN c.by[i - c.at]
            ELSE t[end + (i - (c.at + more))]]

Outside(t, c) ==
    \/ c.at > Len(t)
    \/ c.at = Len(t) /\ c.op \in {"DeleteChar", "Assign"}

(* Memory is needed for a text that becomes longer somewhere.              *)
Longer(t, c) == c.at + Len(c.by) > Len(t) \/ Len(c.by) > c.count

(* The one refusal that costs something: Replace up to the end.            *)
CutsOff(t, c) ==
    /\ c.op = "Replace"
    /\ c.at <= Len(t) /\ c.at + c.count >= Len(t) /\ c.at + Len(c.by) > Len(t)

(* What call c may make of a text t: the text new, and whether it says it  *)
(* has been done.                                                          *)
Outcome(t, c, new, done) ==
    \/ done = TRUE /\ ~Outside(t, c) /\ new = Spliced(t, c)
    \/ done = TRUE /\ c.op = "Insert" /\ c.by = <<>> /\ new = t
    \/ /\ done = FALSE /\ new = t
       /\ Outside(t, c) \/ Longer(t, c) \/ c.op \in {"Reserve", "ReplaceAll"}
    \/ done = FALSE /\ CutsOff(t, c) /\ new = SubSeq(t, 1, c.at)

Init ==
    /\ content \in Seq(Chars)
    /\ asked = Nothing
    /\ answer = TRUE
    /\ working = FALSE

(* A call, alone or of a job; a call that is refused may end the job.      *)
Edit ==
    /\ Outcome(content, asked', content', answer')
    /\ working' => working
    /\ answer' => UNCHANGED working

Begin == ~working /\ working' /\ UNCHANGED <<content, asked, answer>>
Finish == working /\ ~working' /\ answer' = TRUE /\ UNCHANGED <<content, asked>>

(* The text is shown, and what was asked is past.                          *)
Show ==
    /\ ~working
    /\ asked' = Nothing /\ answer' = TRUE
    /\ UNCHANGED <<content, working>>

Next == Edit \/ Begin \/ Finish \/ Show

(* A job ends.                                                             *)
Spec == Init /\ [][Next]_vars /\ []<>~working
===============================================================================
