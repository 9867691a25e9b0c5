-------------------------- MODULE MCBufferViewer ---------------------------
(***************************************************************************)
(* An instance of the hex view: a file of six bytes that starts with a     *)
(* run and ends with one, windows of one and two rows, a search block      *)
(* shorter than the file, a zone inside another, a table of two zones, and *)
(* three texts: one that occurs in every block but the middle one, one     *)
(* that overlaps itself and one of wide characters.                        *)
(*                                                                         *)
(* One run over a user who moves and selects and one who searches, without *)
(* the product of their states.                                            *)
(***************************************************************************)
EXTENDS BufferViewer

VARIABLE hand

MCLayouts  == {[cols |-> 2, rows |-> 1], [cols |-> 2, rows |-> 2]}
MCContent  == [p \in 0 .. 5 |-> IF p < 2 THEN 0 ELSE IF p < 3 THEN 1 ELSE 2]
MCZones    == {[low |-> 0, high |-> 3], [low |-> 1, high |-> 2]}
MCSteps    == {-2, 1}
MCPatterns ==
    {[unit |-> 1, len |-> 1, at |-> {0, 1, 3, 4}],
     [unit |-> 1, len |-> 2, at |-> {1, 2, 3}],
     [unit |-> 2, len |-> 1, at |-> {4}]}

HandsInit == Init /\ hand \in {"select", "search"} /\ (hand = "search" => Layout.rows = 2)

Searching ==
    \/ Find
    \/ \E p \in 0 .. Size : Jump(p, FALSE)
    \/ \E key \in DOMAIN ScrollTargets : Scroll(key)

HandsNext ==
    /\ \/ hand = "select" /\ ~searching /\ (Move \/ ScrollOrResize \/ Mark)
       \/ hand = "search" /\ ~searching /\ Searching
       \/ searching /\ UNCHANGED vars
    /\ UNCHANGED hand

HandsSpec == HandsInit /\ [][HandsNext]_<<vars, hand>>
==============================================================================
