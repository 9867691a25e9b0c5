----------------------------- MODULE ZonesList -----------------------------
(***************************************************************************)
(* The zones of a file (GViewCore/src/Utils/ZonesList.cpp): what its       *)
(* plugin has marked, and the cached zones that touch the window last      *)
(* painted, which are the only ones a lookup sees.                         *)
(***************************************************************************)
EXTENDS Naturals

\* The zones SetCache keeps for the interval [low, high].
Cached(zones, low, high) ==
    {z \in zones : \/ low <= z.low /\ z.low <= high
                   \/ z.low <= low /\ low <= z.high}

\* With a bug: earlier starts first.
PrecedesEarlier(a, b) == a.low < b.low \/ (a.low = b.low /\ a.high < b.high)

\* The order of the cache: later starts first, shorter zones first among equals.
Precedes(a, b) == a.low > b.low \/ (a.low = b.low /\ a.high < b.high)

Around(zones, p) == {z \in zones : z.low <= p /\ p <= z.high}

\* OffsetToZone: the first cached zone that contains the offset, as a set of at
\* most one zone.
OffsetToZone(cache, p) ==
    {z \in Around(cache, p) : \A y \in Around(cache, p) : y = z \/ Precedes(z, y)}
==============================================================================
