------------------------------ MODULE MCYaraHands ------------------------------
(* The Yara view worked by the keyboard and its commands, or by the mouse: *)
(* one run over both, without the product of their states.                 *)
EXTENDS MCYaraViewer

VARIABLE hand

HandsInit == Init /\ hand \in {"keys", "mouse"}

HandsNext ==
    /\ \/ hand = "keys" /\ KeysNext
       \/ hand = "mouse" /\ MouseNext
    /\ UNCHANGED hand

HandsSpec == HandsInit /\ [][HandsNext]_<<vars, hand>>
===============================================================================
