---------------------------- MODULE Conversations -----------------------------
(***************************************************************************)
(* What the stream view promises of a capture: the packets of two ends     *)
(* fall, in capture order and whichever way they go, into conversations    *)
(* that follow one another.  One that is closed gets no more packets; what *)
(* is shown in the end is every conversation, once.                        *)
(***************************************************************************)
EXTENDS Naturals, Sequences

CONSTANT Ends

Pairs == {{a, b} : a \in Ends, b \in Ends}

VARIABLES
    count,      \* packets captured so far, numbered from 1
    talks,      \* the conversations of each pair, the oldest first
    shown       \* the packets of each conversation that is shown

vars == <<count, talks, shown>>

Init ==
    /\ count = 0
    /\ talks = [p \in Pairs |-> <<>>]
    /\ shown = {}

(* The next packet is of no conversation: another protocol, a short header. *)
Ignore ==
    /\ count' = count + 1
    /\ UNCHANGED <<talks, shown>>

Open(pair) == talks[pair] # <<>> /\ ~talks[pair][Len(talks[pair])].closed

Begin(pair, closes) ==
    /\ ~Open(pair)
    /\ count' = count + 1
    /\ talks' = [talks EXCEPT ![pair] =
                    Append(@, [packets |-> <<count'>>, closed |-> closes])]
    /\ UNCHANGED shown

Continue(pair, closes) ==
    /\ Open(pair)
    /\ count' = count + 1
    /\ talks' = [talks EXCEPT ![pair][Len(talks[pair])] =
                    [packets |-> Append(@.packets, count'), closed |-> closes]]
    /\ UNCHANGED shown

Show ==
    /\ shown' = UNION {{talks[p][k].packets : k \in DOMAIN talks[p]} : p \in Pairs}
    /\ talks' = [p \in Pairs |-> <<>>]
    /\ UNCHANGED count

Next ==
    \/ Ignore
    \/ \E pair \in Pairs, closes \in BOOLEAN : Begin(pair, closes) \/ Continue(pair, closes)
    \/ Show

Spec == Init /\ [][Next]_vars
===============================================================================
