----------------------------- MODULE Selection -----------------------------
(***************************************************************************)
(* The selected ranges of a view (GViewCore/src/Utils/Selection.cpp): a    *)
(* fixed table of zones, of which only the first is used in the single     *)
(* selection mode.  A selection is a record [single, zones].               *)
(*                                                                         *)
(* A zone that Clear has emptied keeps its old end and anchor in the code. *)
(* Nothing reads them before they are written again, so an empty zone is   *)
(* NoZone whatever it held.                                                *)
(***************************************************************************)
EXTENDS Naturals, FiniteSets

CONSTANTS MaxZones,     \* zones of the table (4 in the code)
          NoZone        \* an empty zone: its start is INVALID_OFFSET

ASSUME MaxZonesAssumption == MaxZones \in Nat \ {0}

ZoneIndex == 1..MaxZones

Zone == [start : Nat, end : Nat, anchor : Nat]

ASSUME NoZoneAssumption == NoZone \notin Zone

\* The table with no zone selected.
NoZones == [i \in ZoneIndex |-> NoZone]

Selections == [single : BOOLEAN, zones : [ZoneIndex -> Zone \cup {NoZone}]]

\* The zones the current mode looks at.
Usable(sel) == IF sel.single THEN {1} ELSE ZoneIndex

Holds(z, p) == z # NoZone /\ z.start <= p /\ p <= z.end

\* The usable zones that contain an offset, and the usable ones that are free.
Holding(sel, p) == {i \in Usable(sel) : Holds(sel.zones[i], p)}
Free(sel) == {i \in Usable(sel) : sel.zones[i] = NoZone}

Least(S) == CHOOSE i \in S : \A j \in S : i <= j

\* With a bug: the two ends are not put in order.
SpanForward(a, p) == [start |-> a, end |-> p, anchor |-> a]

\* A zone that was started at a and has reached p (UpdateSelection).
Span(a, p) == [start  |-> IF p < a THEN p ELSE a,
               end    |-> IF p < a THEN a ELSE p,
               anchor |-> a]

Clear(sel) == [sel EXCEPT !.zones = NoZones]

ClearZone(sel, i) == [sel EXCEPT !.zones[i] = NoZone]

\* A change of mode empties the table, the mode that is already on does not.
EnableMultiSelection(sel, enable) ==
    IF sel.single /\ enable
    THEN [single |-> FALSE,
          zones  |-> [i \in ZoneIndex |-> IF i = 1 THEN sel.zones[1] ELSE NoZone]]
    ELSE IF ~sel.single /\ ~enable
         THEN [single |-> TRUE, zones |-> NoZones]
         ELSE sel

\* The zone a selection that starts at p goes on in: the first one that holds p,
\* else the first free one, else none.  The single mode gives up its old zone.
BeginsIn(sel, p) == IF Holding(sel, p) # {} THEN {Least(Holding(sel, p))}
                    ELSE IF sel.single THEN {1}
                    ELSE IF Free(sel) # {} THEN {Least(Free(sel))}
                    ELSE {}

\* BeginSelection(p), then UpdateSelection(., q) on the zone it returned.  A zone
\* that already holds p keeps its anchor: BeginSelection moves its end to p,
\* which UpdateSelection then writes over.
SelectFromTo(sel, p, q) ==
    [sel EXCEPT !.zones =
        [i \in ZoneIndex |->
            IF i \notin BeginsIn(sel, p) THEN sel.zones[i]
            ELSE IF Holds(sel.zones[i], p) THEN Span(sel.zones[i].anchor, q)
            ELSE Span(p, q)]]

\* Both ends given at once: the anchor is the first of them.
SetSelection(sel, i, start, end) ==
    IF i \notin Usable(sel) THEN sel
    ELSE [sel EXCEPT !.zones[i] = Span(start, end)]

\* The ranges GetSelection returns: none beyond the first in the single mode.
Selected(sel) == {i \in Usable(sel) : sel.zones[i] # NoZone}

------------------------------------------------------------------------------
(***************************************************************************)
(* What the table promises.                                                *)
(***************************************************************************)

\* A zone runs forward and one of its ends is the place it was started at.
ProperZone(z) == z.start <= z.end /\ z.anchor \in {z.start, z.end}

EndsAt(z, p) == z # NoZone /\ p \in {z.start, z.end}

ProperZones(sel) == \A i \in ZoneIndex : sel.zones[i] # NoZone => ProperZone(sel.zones[i])
==============================================================================
