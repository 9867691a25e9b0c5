-------------------------- MODULE StreamManagerProofs --------------------------
(* What holds of the streams for any hosts, ports, packets and file.       *)
EXTENDS StreamManager, FiniteSetTheorems, SequenceTheorems, WellFoundedInduction, TLAPS

-----------------------------------------------------------------------------
(* Numbers.                                                                *)

(* A set of numbers that is not empty has a least one.                     *)
LEMMA LeastExists ==
    ASSUME NEW S, S \subseteq Nat, S # {}
    PROVE  \E x \in S : \A y \in S : x <= y
<1>1. PICK x \in S : \A y \in S : ~ (<<y, x>> \in OpToRel(<, Nat))
    BY NatLessThanWellFounded, WFMin
<1>2. \A y \in S : x <= y
    <2> TAKE y \in S
    <2>1. y \in Nat /\ x \in Nat /\ <<y, x>> \in Nat \X Nat
        OBVIOUS
    <2>2. <<y, x>> \notin {ss \in Nat \X Nat : ss[1] < ss[2]}
        BY <1>1 DEF OpToRel
    <2>3. ~(y < x)
        BY <2>1, <2>2
    <2> QED BY <2>1, <2>3
<1> QED BY <1>2

(* Induction up to n, for a set: it holds 0 and goes on from each number.  *)
LEMMA UpTo ==
    ASSUME NEW n \in Nat, NEW B, 0 \in B,
           \A i \in 1 .. n : i - 1 \in B => i \in B
    PROVE  0 .. n \subseteq B
<1> DEFINE Bad == {i \in 0 .. n : i \notin B}
<1>1. SUFFICES ASSUME Bad # {}
               PROVE  FALSE
    OBVIOUS
<1>2. PICK m \in Bad : \A k \in Bad : m <= k
    <2>1. Bad \subseteq Nat
        OBVIOUS
    <2> HIDE DEF Bad
    <2> QED BY <1>1, <2>1, LeastExists
<1>3. m \in 1 .. n
    OBVIOUS
<1>4. m - 1 \in 0 .. n /\ m - 1 \notin Bad
    BY <1>2, <1>3
<1> QED BY <1>3, <1>4

-----------------------------------------------------------------------------
(* Sequences joined from pieces: FlattenSeq.                               *)

Joins(s, f, n) == f = [i \in 1 .. n |-> IF i = 1 THEN s[i] ELSE f[i - 1] \o s[i]]

LEMMA JoinExists ==
    ASSUME NEW s, NEW n \in Nat
    PROVE  \E f : Joins(s, f, n)
<1> DEFINE B == {i \in Nat : \E f : Joins(s, f, i)}
<1>1. 0 \in B
    <2> DEFINE f == [i \in 1 .. 0 |-> <<>>]
    <2>1. Joins(s, f, 0)
        BY DEF Joins
    <2> QED BY <2>1
<1>2. ASSUME NEW i \in 1 .. n, i - 1 \in B
      PROVE  i \in B
    <2>1. PICK f : Joins(s, f, i - 1)
        BY <1>2
    <2> DEFINE g == [j \in 1 .. i |->
                        IF j = i THEN IF i = 1 THEN s[i] ELSE f[i - 1] \o s[i] ELSE f[j]]
    <2>2. \A j \in 1 .. i - 1 : g[j] = f[j]
        OBVIOUS
    <2>3. \A j \in 1 .. i - 1 : f[j] = IF j = 1 THEN s[j] ELSE f[j - 1] \o s[j]
        BY <2>1 DEF Joins
    <2>4. \A j \in 1 .. i : g[j] = IF j = 1 THEN s[j] ELSE g[j - 1] \o s[j]
        <3> TAKE j \in 1 .. i
        <3>1. CASE j = i
            <4>1. j # 1 => g[j - 1] = f[j - 1]
                BY <3>1, <2>2
            <4> QED BY <3>1, <4>1
        <3>2. CASE j # i
            <4>1. j \in 1 .. i - 1 /\ (j # 1 => j - 1 \in 1 .. i - 1)
                BY <3>2
            <4>2. g[j] = f[j] /\ (j # 1 => g[j - 1] = f[j - 1])
                BY <4>1, <2>2
            <4> HIDE DEF g
            <4> QED BY <4>1, <4>2, <2>3
        <3> QED BY <3>1, <3>2
    <2>5. g = [j \in 1 .. i |-> g[j]]
        OBVIOUS
    <2>6. Joins(s, g, i)
        <3> HIDE DEF g
        <3> QED BY <2>4, <2>5 DEF Joins
    <2> QED BY <2>6
<1>3. 0 .. n \subseteq B
    <2> HIDE DEF B
    <2> QED BY <1>1, <1>2, UpTo
<1> QED BY <1>3

(* g joins the pieces f up to each place.                                  *)
Joining(g, f, n) == \A i \in 1 .. n : g[i] = IF i = 1 THEN f[i] ELSE g[i - 1] \o f[i]

LEMMA FlattenIs ==
    ASSUME NEW s, NEW n \in Nat \ {0}, Len(s) = n
    PROVE  \E g : FlattenSeq(s) = g[n] /\ Joining(g, s, n)
<1> DEFINE g == CHOOSE g : Joins(s, g, n)
<1>1. FlattenSeq(s) = g[n]
    BY DEF FlattenSeq, Joins
<1>2. Joins(s, g, n)
    BY JoinExists
<1> HIDE DEF g
<1>3. Joining(g, s, n)
    BY <1>2 DEF Joins, Joining
<1> QED BY <1>1, <1>3

(* What the first n places of f give, joined.                              *)
Joined(f, n) == FlattenSeq([k \in 1 .. n |-> f[k]])
Pieces(f, n, X) == \A k \in 1 .. n : f[k] \in Seq(X)

LEMMA JoinedZero ==
    ASSUME NEW f
    PROVE  Joined(f, 0) = <<>>
BY DEF Joined, FlattenSeq

LEMMA JoinedIs ==
    ASSUME NEW f, NEW n \in Nat \ {0}
    PROVE  \E g : Joined(f, n) = g[n] /\ Joining(g, f, n)
<1> DEFINE s == [k \in 1 .. n |-> f[k]]
<1>1. Len(s) = n
    OBVIOUS
<1>2. \A i \in 1 .. n : s[i] = f[i]
    OBVIOUS
<1> HIDE DEF s
<1>3. PICK g : FlattenSeq(s) = g[n] /\ Joining(g, s, n)
    BY <1>1, FlattenIs
<1>4. Joining(g, f, n)
    BY <1>2, <1>3 DEF Joining
<1> QED BY <1>3, <1>4 DEF Joined, s

(* Two ways to join the same pieces agree at every place.                  *)
LEMMA OneJoin ==
    ASSUME NEW f, NEW n \in Nat, NEW m \in Nat, m <= n, NEW g, NEW h,
           Joining(g, f, n), Joining(h, f, m)
    PROVE  \A i \in 1 .. m : g[i] = h[i]
<1> DEFINE B == {0} \cup {i \in 1 .. m : g[i] = h[i]}
<1>1. 0 \in B
    OBVIOUS
<1>2. ASSUME NEW i \in 1 .. m, i - 1 \in B
      PROVE  i \in B
    <2>1. i \in 1 .. n
        OBVIOUS
    <2>2. i # 1 => g[i - 1] = h[i - 1]
        BY <1>2
    <2>3. g[i] = h[i]
        BY <2>1, <2>2 DEF Joining
    <2> QED BY <2>3
<1>3. 0 .. m \subseteq B
    <2> HIDE DEF B
    <2> QED BY <1>1, <1>2, UpTo
<1> QED BY <1>3

LEMMA EmptyFirst ==
    ASSUME NEW X, NEW s \in Seq(X)
    PROVE  s \o <<>> = s /\ <<>> \o s = s
BY ConcatEmptySeq

(* One piece more.                                                         *)
LEMMA JoinedNext ==
    ASSUME NEW X, NEW f, NEW n \in Nat, Pieces(f, n + 1, X)
    PROVE  Joined(f, n + 1) = Joined(f, n) \o f[n + 1]
<1>0. n + 1 \in Nat \ {0} /\ n <= n + 1
    OBVIOUS
<1>1. PICK g : Joined(f, n + 1) = g[n + 1] /\ Joining(g, f, n + 1)
    BY <1>0, JoinedIs
<1>2. CASE n = 0
    <2>1. g[1] = f[1] /\ f[1] \in Seq(X)
        BY <1>1, <1>2 DEF Joining, Pieces
    <2>2. <<>> \o f[1] = f[1]
        BY <2>1, EmptyFirst
    <2>3. Joined(f, n) = <<>> /\ n + 1 = 1
        BY <1>2, JoinedZero
    <2> QED BY <1>1, <2>1, <2>2, <2>3
<1>3. CASE n # 0
    <2>1. PICK h : Joined(f, n) = h[n] /\ Joining(h, f, n)
        BY <1>3, JoinedIs
    <2>2. g[n] = h[n]
        <3>1. \A i \in 1 .. n : g[i] = h[i]
            BY <1>0, <1>1, <2>1, OneJoin
        <3> QED BY <1>3, <3>1
    <2>3. g[n + 1] = g[n] \o f[n + 1]
        <3>1. n + 1 \in 1 .. n + 1 /\ n + 1 # 1 /\ (n + 1) - 1 = n
            BY <1>3
        <3>2. g[n + 1] = IF n + 1 = 1 THEN f[n + 1] ELSE g[(n + 1) - 1] \o f[n + 1]
            BY <1>1, <3>1 DEF Joining
        <3> QED BY <3>1, <3>2
    <2> QED BY <1>1, <2>1, <2>2, <2>3
<1> QED BY <1>2, <1>3

LEMMA JoinedTurn ==
    ASSUME NEW X, NEW f, NEW n \in Nat, Pieces(f, n, X), NEW i \in 1 .. n
    PROVE  Joined(f, i) = Joined(f, i - 1) \o f[i] /\ f[i] \in Seq(X)
<1>1. i - 1 \in Nat /\ (i - 1) + 1 = i
    OBVIOUS
<1>2. Pieces(f, (i - 1) + 1, X)
    BY DEF Pieces
<1> QED BY <1>1, <1>2, JoinedNext DEF Pieces

LEMMA JoinedType ==
    ASSUME NEW X, NEW f, NEW n \in Nat, Pieces(f, n, X)
    PROVE  Joined(f, n) \in Seq(X)
<1> DEFINE B == {i \in 0 .. n : Joined(f, i) \in Seq(X)}
<1>1. 0 \in B
    <2>1. <<>> \in Seq(X)
        OBVIOUS
    <2>2. Joined(f, 0) \in Seq(X)
        BY <2>1, JoinedZero, Zenon
    <2>3. 0 \in 0 .. n
        OBVIOUS
    <2> QED BY <2>2, <2>3, Zenon
<1>2. ASSUME NEW i \in 1 .. n, i - 1 \in B
      PROVE  i \in B
    <2>1. Joined(f, i) = Joined(f, i - 1) \o f[i] /\ f[i] \in Seq(X)
        BY JoinedTurn
    <2>2. Joined(f, i - 1) \in Seq(X)
        BY <1>2
    <2>3. Joined(f, i) \in Seq(X)
        BY <2>1, <2>2, ConcatProperties
    <2> QED BY <2>3
<1>3. 0 .. n \subseteq B
    <2> HIDE DEF B
    <2> QED BY <1>1, <1>2, UpTo
<1> QED BY <1>3


(* The inductive invariant: a packet in a connection is a segment of the   *)
(* file between the ends of the connection's name.                         *)
Placed(n, c) ==
    /\ c.packets # <<>>
    /\ Ascending(c.packets)
    /\ \A j \in DOMAIN c.packets :
          /\ c.packets[j] \in DOMAIN packetHeaders
          /\ IsSegment(packetHeaders[c.packets[j]])
          /\ n \in {Name(packetHeaders[c.packets[j]]), Reversed(Name(packetHeaders[c.packets[j]]))}
AllPlaced == \A n \in Names : \A k \in DOMAIN streams[n] : Placed(n, streams[n][k])
FewEnough == \A n \in Names : Len(streams[n]) <= Len(packetHeaders)

IInv ==
    /\ StreamsTypeOK
    /\ AllPlaced
    /\ FewEnough
    /\ NameIsFirstSeen
    /\ EveryPacketOnce
    /\ finished => streams = [n \in Names |-> <<>>]

(* What is read of a header is a header.                                   *)
LEMMA HeaderReadType ==
    ASSUME NEW p \in Packets
    PROVE  /\ HeaderRead(p).sPort \in Ports
           /\ HeaderRead(p).dPort \in Ports
           /\ Len(HeaderRead(p).payload) \in Nat
           /\ p.src \in Hosts
           /\ p.dst \in Hosts
<1>1. p \in Packet
    BY PacketsAssumption
<1>2. p.src \in Hosts /\ p.dst \in Hosts /\ p.tcp \in TcpHeader
    BY <1>1 DEF Packet
<1>3. CASE p.ip = "v6"
    BY <1>2, <1>3, AddressAssumption DEF HeaderRead
<1>4. CASE p.ip # "v6"
    BY <1>2, <1>4 DEF HeaderRead, TcpHeader
<1> QED
    BY <1>3, <1>4

LEMMA NameType ==
    ASSUME NEW p \in Packets
    PROVE  Name(p) \in Names /\ Reversed(Name(p)) \in Names
BY HeaderReadType DEF Name, Names, Ends, Reversed

LEMMA HolderType ==
    ASSUME NEW p \in Packets
    PROVE  Holder(p) \in Names /\ Holder(p) \in {Name(p), Reversed(Name(p))}
BY NameType DEF Holder

LEMMA ReversedTwice ==
    ASSUME NEW n \in Names
    PROVE  Reversed(Reversed(n)) = n /\ Reversed(n) \in Names
BY DEF Names, Reversed

(* A connection that has received a packet.                                *)
LEMMA ReceiveType ==
    ASSUME NEW c \in Connection, NEW p \in Packets, NEW number \in Nat
    PROVE  /\ Receive(c, number, HeaderRead(p)) \in Connection
           /\ Receive(c, number, HeaderRead(p)).packets = Append(c.packets, number)
<1>1. Len(HeaderRead(p).payload) \in Nat
    BY HeaderReadType
<1>2. /\ c.packets \in Seq(Nat)
      /\ c.finFlagsFound \in 0..FinWrap - 1
      /\ c.total \in Nat
      /\ c.isFinished \in BOOLEAN
    BY DEF Connection
<1> DEFINE fins == IF "FIN" \in HeaderRead(p).flags
                   THEN (c.finFlagsFound + 1) % FinWrap ELSE c.finFlagsFound
<1>3. (c.finFlagsFound + 1) % FinWrap \in 0..FinWrap - 1
    BY <1>2, BoundsAssumption
<1>4. fins \in 0..FinWrap - 1
    BY <1>2, <1>3
<1>5. Ended(c, fins, HeaderRead(p).flags) \in BOOLEAN
    BY <1>2 DEF Ended
<1>6. Append(c.packets, number) \in Seq(Nat) /\ c.total + Len(HeaderRead(p).payload) \in Nat
    BY <1>1, <1>2
<1>7. Receive(c, number, HeaderRead(p)) =
        [packets |-> Append(c.packets, number), finFlagsFound |-> fins,
         isFinished |-> Ended(c, fins, HeaderRead(p).flags),
         total |-> c.total + Len(HeaderRead(p).payload)]
    BY DEF Receive
<1> HIDE DEF fins
<1> QED
    BY <1>4, <1>5, <1>6, <1>7 DEF Connection

LEMMA NewConnectionType == NewConnection \in Connection
BY BoundsAssumption DEF NewConnection, Connection

(* Where a segment goes: to the last connection of its holder, which was   *)
(* open, or to a new one behind those that are over.                       *)
Landing(h, number, l) ==
    /\ l = Len(streams[h]) => ~streams[h][l].isFinished
    /\ l = Len(streams[h]) =>
          streams'[h][l].packets = Append(streams[h][l].packets, number)
    /\ l = Len(streams[h]) + 1 => (l > 1 => streams[h][l - 1].isFinished)
    /\ l = Len(streams[h]) + 1 => streams'[h][l].packets = <<number>>

LEMMA AddLands ==
    ASSUME StreamsTypeOK, NEW p \in Packets, AddPacket(p), IsSegment(p)
    PROVE  /\ streams' \in [Names -> Seq(Connection)]
           /\ \A m \in Names : m # Holder(p) => streams'[m] = streams[m]
           /\ \E l \in Nat \ {0} :
                 /\ l \in {Len(streams[Holder(p)]), Len(streams[Holder(p)]) + 1}
                 /\ Len(streams'[Holder(p)]) = l
                 /\ \A k \in 1..l - 1 : streams'[Holder(p)][k] = streams[Holder(p)][k]
                 /\ Landing(Holder(p), Len(packetHeaders) + 1, l)
<1> DEFINE h == Holder(p)
           old == streams[h]
           open == WithOpen(old)
           l == Len(open)
           number == Len(packetHeaders) + 1
           landed == Receive(open[l], number, HeaderRead(p))
<1>1. h \in Names
    BY HolderType
<1>2. old \in Seq(Connection) /\ Len(packetHeaders) \in Nat /\ number \in Nat
    BY <1>1 DEF StreamsTypeOK
<1>3. streams' = [streams EXCEPT ![h] = [open EXCEPT ![l] = landed]]
    BY DEF AddPacket, Add_TCPHeader
<1>4. /\ open \in Seq(Connection)
      /\ l = Len(open)
      /\ l \in Nat \ {0}
      /\ l \in {Len(old), Len(old) + 1}
      /\ \A k \in 1..l - 1 : open[k] = old[k]
      /\ l = Len(old) => open = old /\ ~old[l].isFinished
      /\ l = Len(old) + 1 => open[l] = NewConnection /\ (l > 1 => old[l - 1].isFinished)
    <2>1. CASE old = <<>> \/ Last(old).isFinished
        <3>1. open = Append(old, NewConnection)
            BY <2>1 DEF WithOpen
        <3>2. l > 1 => old[l - 1].isFinished
            BY <1>2, <2>1, <3>1, NewConnectionType DEF Last
        <3> QED
            BY <1>2, <3>1, <3>2, NewConnectionType
    <2>2. CASE ~(old = <<>> \/ Last(old).isFinished)
        <3>1. open = old
            BY <2>2 DEF WithOpen
        <3>2. Len(old) # 0
            BY <1>2, <2>2
        <3> QED
            BY <1>2, <2>2, <3>1, <3>2 DEF Last
    <2> QED
        BY <2>1, <2>2
<1>5. open[l] \in Connection
    BY <1>4
<1>6. landed \in Connection /\ landed.packets = Append(open[l].packets, number)
    BY <1>2, <1>5, ReceiveType
<1> HIDE DEF open, l, landed, h
<1>8. [open EXCEPT ![l] = landed] \in Seq(Connection)
    BY <1>4, <1>6
<1>9. streams'[h] = [open EXCEPT ![l] = landed]
    BY <1>1, <1>3 DEF StreamsTypeOK
<1>10. Len(streams'[h]) = l /\ streams'[h][l] = landed
    BY <1>4, <1>9
<1>11. \A k \in 1..l - 1 : streams'[h][k] = old[k]
    BY <1>4, <1>9
<1>12. Landing(h, number, l)
    <2>1. l = Len(old) => landed.packets = Append(old[l].packets, number)
        BY <1>4, <1>6
    <2>2. NewConnection.packets = <<>> /\ Append(<<>>, number) = <<number>>
        BY <1>2 DEF NewConnection
    <2>3. l = Len(old) + 1 => landed.packets = <<number>>
        BY <1>4, <1>6, <2>2
    <2> QED
        BY <1>4, <1>10, <2>1, <2>3 DEF Landing
<1>13. streams' \in [Names -> Seq(Connection)]
    BY <1>1, <1>3, <1>8 DEF StreamsTypeOK
<1>14. \A m \in Names : m # h => streams'[m] = streams[m]
    BY <1>3 DEF StreamsTypeOK
<1> QED
    BY <1>4, <1>10, <1>11, <1>12, <1>13, <1>14 DEF h

(* Types, and the number of connections of a name.                         *)
LEMMA TypeStep ==
    ASSUME StreamsTypeOK, FewEnough, [Next]_vars
    PROVE  StreamsTypeOK' /\ FewEnough'
<1>1. CASE UNCHANGED vars
    BY <1>1 DEF StreamsTypeOK, FewEnough, vars
<1>2. ASSUME NEW p \in Packets, AddPacket(p)
      PROVE  StreamsTypeOK' /\ FewEnough'
    <2>1. /\ packetHeaders' \in Seq(Packets)
          /\ Len(packetHeaders') = Len(packetHeaders) + 1
          /\ Len(packetHeaders') <= MaxPackets
          /\ finished' \in BOOLEAN
        BY <1>2, BoundsAssumption DEF AddPacket, StreamsTypeOK
    <2>2. CASE IsSegment(p)
        <3>1. streams' \in [Names -> Seq(Connection)]
            BY <1>2, <2>2, AddLands
        <3>2. ASSUME NEW m \in Names PROVE Len(streams'[m]) <= Len(packetHeaders')
            <4>1. Len(streams[m]) <= Len(packetHeaders) /\ Len(streams[m]) \in Nat
                BY DEF FewEnough, StreamsTypeOK
            <4>2. Len(packetHeaders) \in Nat
                BY DEF StreamsTypeOK
            <4>3. CASE m # Holder(p)
                BY <1>2, <2>1, <2>2, <4>1, <4>2, <4>3, AddLands
            <4>4. CASE m = Holder(p)
                BY <1>2, <2>1, <2>2, <4>1, <4>2, <4>4, AddLands
            <4> QED
                BY <4>3, <4>4
        <3> QED
            BY <2>1, <3>1, <3>2 DEF StreamsTypeOK, FewEnough
    <2>3. CASE ~IsSegment(p)
        <3>1. streams' = streams
            BY <1>2, <2>3 DEF AddPacket
        <3>2. Len(packetHeaders) \in Nat /\ \A m \in Names : Len(streams[m]) \in Nat
            BY DEF StreamsTypeOK
        <3> QED
            BY <2>1, <3>1, <3>2 DEF StreamsTypeOK, FewEnough
    <2> QED
        BY <2>2, <2>3
<1>3. CASE FinishedAdding
    BY <1>3 DEF FinishedAdding, StreamsTypeOK, FewEnough
<1> QED
    BY <1>1, <1>2, <1>3 DEF Next

(* The file only grows.                                                    *)
LEMMA FileGrows ==
    ASSUME StreamsTypeOK, NEW p \in Packets, AddPacket(p)
    PROVE  /\ Len(packetHeaders) \in Nat
           /\ DOMAIN packetHeaders = 1..Len(packetHeaders)
           /\ DOMAIN packetHeaders' = 1..Len(packetHeaders) + 1
           /\ \A i \in DOMAIN packetHeaders : packetHeaders'[i] = packetHeaders[i]
           /\ packetHeaders'[Len(packetHeaders) + 1] = p
BY DEF StreamsTypeOK, AddPacket

LEMMA PlacedKept ==
    ASSUME StreamsTypeOK, NEW p \in Packets, AddPacket(p),
           NEW n \in Names, NEW c \in Connection, Placed(n, c)
    PROVE  Placed(n, c)'
<1>1. ASSUME NEW j \in DOMAIN c.packets
      PROVE  /\ c.packets[j] \in DOMAIN packetHeaders'
             /\ packetHeaders'[c.packets[j]] = packetHeaders[c.packets[j]]
    <2>1. c.packets[j] \in DOMAIN packetHeaders
        BY <1>1 DEF Placed
    <2> QED
        BY <2>1, FileGrows
<1> QED
    BY <1>1 DEF Placed

LEMMA OnePlaced ==
    ASSUME StreamsTypeOK, NEW p \in Packets, AddPacket(p), IsSegment(p),
           NEW h \in Names, h \in {Name(p), Reversed(Name(p))},
           NEW c \in Connection, c.packets = <<Len(packetHeaders) + 1>>
    PROVE  Placed(h, c)'
<1> DEFINE number == Len(packetHeaders) + 1
<1>1. /\ DOMAIN c.packets = {1}
      /\ c.packets[1] = number
      /\ c.packets # <<>>
    OBVIOUS
<1>2. number \in DOMAIN packetHeaders' /\ packetHeaders'[number] = p
    BY FileGrows
<1>3. Ascending(c.packets)
    BY <1>1 DEF Ascending
<1> HIDE DEF number
<1>4. \A j \in DOMAIN c.packets : c.packets[j] = number
    BY <1>1
<1> QED
    BY <1>1, <1>2, <1>3, <1>4 DEF Placed

LEMMA OneMorePlaced ==
    ASSUME StreamsTypeOK, NEW p \in Packets, AddPacket(p), IsSegment(p),
           NEW h \in Names, h \in {Name(p), Reversed(Name(p))},
           NEW b \in Connection, Placed(h, b),
           NEW c \in Connection, c.packets = Append(b.packets, Len(packetHeaders) + 1)
    PROVE  Placed(h, c)'
<1> DEFINE number == Len(packetHeaders) + 1
           m == Len(b.packets)
<1>1. b.packets \in Seq(Nat) /\ m \in Nat
    BY DEF Connection
<1>2. /\ DOMAIN c.packets = 1..m + 1
      /\ \A j \in 1..m : c.packets[j] = b.packets[j] /\ j \in DOMAIN b.packets
      /\ c.packets[m + 1] = number
      /\ c.packets # <<>>
    BY <1>1
<1>3. number \in DOMAIN packetHeaders' /\ packetHeaders'[number] = p /\ number \in Nat
    BY FileGrows
<1>4. \A j \in 1..m : b.packets[j] \in DOMAIN packetHeaders /\ b.packets[j] < number
    BY <1>2, FileGrows DEF Placed
<1> HIDE DEF number, m
<1>5. Ascending(c.packets)
    BY <1>1, <1>2, <1>4 DEF Ascending, Placed
<1>6. Placed(h, b)'
    BY PlacedKept
<1>7. ASSUME NEW j \in DOMAIN c.packets
      PROVE  /\ c.packets[j] \in DOMAIN packetHeaders'
             /\ IsSegment(packetHeaders'[c.packets[j]])
             /\ h \in {Name(packetHeaders'[c.packets[j]]), Reversed(Name(packetHeaders'[c.packets[j]]))}
    <2>1. CASE j = m + 1
        BY <2>1, <1>2, <1>3
    <2>2. CASE j \in 1..m
        BY <2>2, <1>2, <1>6 DEF Placed
    <2> QED
        BY <1>1, <1>2, <1>7, <2>1, <2>2
<1> QED
    BY <1>2, <1>5, <1>7 DEF Placed

LEMMA PlacedStep ==
    ASSUME StreamsTypeOK, FewEnough, AllPlaced, NEW p \in Packets, AddPacket(p)
    PROVE  AllPlaced'
<1> SUFFICES ASSUME NEW n \in Names, NEW k \in DOMAIN streams'[n]
             PROVE  Placed(n, streams[n][k])'
    BY DEF AllPlaced
<1>1. ASSUME streams'[n][k] = streams[n][k], k \in DOMAIN streams[n]
      PROVE  Placed(n, streams[n][k])'
    <2> PICK c \in Connection : c = streams[n][k]
        BY <1>1 DEF StreamsTypeOK
    <2>1. Placed(n, c)
        BY <1>1 DEF AllPlaced
    <2>2. Placed(n, c)'
        BY <2>1, PlacedKept
    <2> QED
        BY <1>1, <2>2 DEF Placed
<1>2. CASE ~IsSegment(p)
    BY <1>1, <1>2 DEF AddPacket
<1>3. CASE IsSegment(p) /\ n # Holder(p)
    BY <1>1, <1>3, AddLands
<1>4. CASE IsSegment(p) /\ n = Holder(p)
    <2>1. PICK l \in Nat \ {0} :
            /\ l \in {Len(streams[n]), Len(streams[n]) + 1}
            /\ Len(streams'[n]) = l
            /\ \A i \in 1..l - 1 : streams'[n][i] = streams[n][i]
            /\ Landing(n, Len(packetHeaders) + 1, l)
        BY <1>4, AddLands
    <2>2. streams'[n] \in Seq(Connection) /\ streams[n] \in Seq(Connection)
        BY <1>4, AddLands DEF StreamsTypeOK
    <2>3. CASE k # l
        BY <1>1, <2>1, <2>2, <2>3
    <2>4. CASE k = l
        <3> PICK c \in Connection : c = streams'[n][l]
            BY <2>1, <2>2, <2>4
        <3>1. n \in {Name(p), Reversed(Name(p))}
            BY <1>4, HolderType
        <3>2. CASE l = Len(streams[n]) + 1
            <4>1. c.packets = <<Len(packetHeaders) + 1>>
                BY <2>1, <3>2 DEF Landing
            <4>2. Placed(n, c)'
                BY <1>4, <3>1, <4>1, OnePlaced
            <4> QED
                BY <2>4, <4>2 DEF Placed
        <3>3. CASE l = Len(streams[n])
            <4> PICK b \in Connection : b = streams[n][l]
                BY <2>1, <2>2, <3>3
            <4>1. Placed(n, b)
                BY <2>1, <2>2, <3>3 DEF AllPlaced
            <4>2. c.packets = Append(b.packets, Len(packetHeaders) + 1)
                BY <2>1, <3>3 DEF Landing
            <4>3. Placed(n, c)'
                BY <1>4, <3>1, <4>1, <4>2, OneMorePlaced
            <4> QED
                BY <2>4, <4>3 DEF Placed
        <3> QED
            BY <2>1, <3>2, <3>3
    <2> QED
        BY <2>3, <2>4
<1> QED
    BY <1>2, <1>3, <1>4

LEMMA NotEmpty ==
    ASSUME NEW s \in Seq(Connection), s # <<>>
    PROVE  Len(s) \in Nat \ {0} /\ 1 \in DOMAIN s
<1>1. Len(s) \in Nat /\ DOMAIN s = 1..Len(s)
    OBVIOUS
<1>2. Len(s) # 0
    OBVIOUS
<1> QED
    BY <1>1, <1>2

(* The holder of a segment is the only one of the two names in use.        *)
LEMMA HolderAlone ==
    ASSUME NameIsFirstSeen, NEW p \in Packets
    PROVE  /\ streams[Reversed(Holder(p))] = <<>> \/ Holder(p) = Reversed(Holder(p))
           /\ streams[Holder(p)] = <<>> => Holder(p) = Name(p)
<1>1. Holder(p) \in Names /\ Name(p) \in Names
    BY HolderType, NameType
<1>2. CASE streams[Reversed(Name(p))] # <<>>
    <2>1. Holder(p) = Reversed(Name(p))
        BY <1>2 DEF Holder
    <2> QED
        BY <1>1, <1>2, <2>1 DEF NameIsFirstSeen
<1>3. CASE streams[Reversed(Name(p))] = <<>>
    <2>1. Holder(p) = Name(p)
        BY <1>3 DEF Holder
    <2> QED
        BY <1>3, <2>1
<1> QED
    BY <1>2, <1>3

LEMMA FirstSeenStep ==
    ASSUME StreamsTypeOK, FewEnough, AllPlaced, NameIsFirstSeen, NEW p \in Packets, AddPacket(p)
    PROVE  NameIsFirstSeen'
<1>1. ASSUME NEW n \in Names, streams[n] # <<>>
      PROVE  /\ Len(streams[n]) \in Nat \ {0}
             /\ streams[n][1].packets \in Seq(Nat)
             /\ streams[n][1].packets # <<>>
             /\ streams[n][1].packets[1] \in DOMAIN packetHeaders
             /\ n = Name(packetHeaders[streams[n][1].packets[1]])
    <2>1. streams[n] \in Seq(Connection)
        BY DEF StreamsTypeOK
    <2> PICK s \in Seq(Connection) : s = streams[n] /\ s # <<>>
        BY <1>1, <2>1
    <2>2. Len(streams[n]) \in Nat \ {0} /\ 1 \in DOMAIN streams[n]
        BY NotEmpty
    <2>a. s[1] \in Connection
        BY <2>2
    <2>3. streams[n][1].packets \in Seq(Nat)
        BY <2>a DEF Connection
    <2>4. Placed(n, streams[n][1])
        BY <2>2 DEF AllPlaced
    <2>5. streams[n][1].packets # <<>> /\ 1 \in DOMAIN streams[n][1].packets
        BY <2>3, <2>4 DEF Placed
    <2> QED
        BY <1>1, <2>2, <2>3, <2>4, <2>5 DEF Placed, NameIsFirstSeen
<1>2. ASSUME NEW n \in Names, streams[n] # <<>>, streams'[n] # <<>>,
             streams'[n][1].packets # <<>>,
             streams'[n][1].packets[1] = streams[n][1].packets[1]
      PROVE  n = Name(packetHeaders'[streams'[n][1].packets[1]])
    BY <1>1, <1>2, FileGrows
<1>3. CASE ~IsSegment(p)
    <2>1. streams' = streams
        BY <1>3 DEF AddPacket
    <2> QED
        BY <1>1, <1>2, <2>1 DEF NameIsFirstSeen
<1>4. CASE IsSegment(p)
    <2> PICK h \in Names : h = Holder(p)
        BY HolderType
    <2>1. PICK l \in Nat \ {0} :
            /\ l \in {Len(streams[h]), Len(streams[h]) + 1}
            /\ Len(streams'[h]) = l
            /\ \A i \in 1..l - 1 : streams'[h][i] = streams[h][i]
            /\ Landing(h, Len(packetHeaders) + 1, l)
        BY <1>4, AddLands
    <2>2. \A m \in Names : m # h => streams'[m] = streams[m]
        BY <1>4, AddLands
    <2>3. streams[Reversed(h)] = <<>> \/ h = Reversed(h)
        BY HolderAlone
    <2>4. Reversed(h) \in Names /\ Reversed(Reversed(h)) = h
        BY ReversedTwice
    <2>5. streams'[h] \in Seq(Connection) /\ streams[h] \in Seq(Connection)
        BY <1>4, AddLands DEF StreamsTypeOK
    <2>6. h = Name(packetHeaders'[streams'[h][1].packets[1]])
        <3>1. CASE streams[h] = <<>>
            <4>1. l = 1 /\ Len(streams[h]) = 0
                BY <2>1, <3>1
            <4>2. streams'[h][1].packets = <<Len(packetHeaders) + 1>>
                BY <2>1, <4>1 DEF Landing
            <4>3. h = Name(p)
                BY <3>1, HolderAlone
            <4> QED
                BY <4>2, <4>3, FileGrows
        <3>2. CASE streams[h] # <<>>
            <4>1. Len(streams[h]) \in Nat \ {0}
                BY <1>1, <3>2
            <4>2. CASE l = 1
                <5>1. Len(streams[h]) = 1
                    BY <2>1, <4>1, <4>2
                <5>2. streams'[h][1].packets = Append(streams[h][1].packets, Len(packetHeaders) + 1)
                    BY <2>1, <4>2, <5>1 DEF Landing
                <5>3. /\ streams[h][1].packets \in Seq(Nat)
                      /\ streams[h][1].packets # <<>>
                      /\ Len(packetHeaders) + 1 \in Nat
                    BY <1>1, <3>2, FileGrows
                <5>4. streams'[h][1].packets # <<>> /\ streams'[h][1].packets[1] = streams[h][1].packets[1]
                    BY <5>2, <5>3
                <5>5. streams'[h] # <<>>
                    BY <2>1, <4>2
                <5> QED
                    BY <1>2, <3>2, <5>4, <5>5
            <4>3. CASE l # 1
                <5>1. streams'[h][1] = streams[h][1]
                    BY <2>1, <4>3
                <5>2. streams'[h] # <<>>
                    BY <2>1
                <5> QED
                    BY <1>1, <1>2, <3>2, <5>1, <5>2
            <4> QED
                BY <4>2, <4>3
        <3> QED
            BY <3>1, <3>2
    <2>7. ASSUME NEW n \in Names, streams'[n] # <<>>
          PROVE  /\ streams'[Reversed(n)] = <<>> \/ n = Reversed(n)
                 /\ n = Name(packetHeaders'[streams'[n][1].packets[1]])
        <3>1. CASE n = h
            BY <2>2, <2>3, <2>4, <2>6, <3>1
        <3>2. CASE n # h
            <4>1. streams'[n] = streams[n] /\ streams[n] # <<>>
                BY <2>2, <2>7, <3>2
            <4>2. streams[Reversed(n)] = <<>> \/ n = Reversed(n)
                BY <4>1 DEF NameIsFirstSeen
            <4>3. Reversed(n) \in Names /\ Reversed(Reversed(n)) = n
                BY ReversedTwice
            <4>4. Reversed(n) # h
                BY <2>3, <3>2, <4>1, <4>3
            <4>5. streams'[Reversed(n)] = <<>> \/ n = Reversed(n)
                BY <2>2, <4>2, <4>3, <4>4
            <4>6. n = Name(packetHeaders'[streams'[n][1].packets[1]])
                BY <1>1, <1>2, <4>1
            <4> QED
                BY <4>5, <4>6
        <3> QED
            BY <3>1, <3>2
    <2> QED
        BY <2>7 DEF NameIsFirstSeen
<1> QED
    BY <1>3, <1>4

(* Who holds a packet.                                                     *)
Has(packets, number) == \E j \in DOMAIN packets : packets[j] = number

LEMMA Holding ==
    ASSUME NEW number
    PROVE  HeldBy(number) = {at \in Names \X (1..MaxPackets) :
               at[2] \in DOMAIN streams[at[1]] /\ Has(streams[at[1]][at[2]].packets, number)}
BY DEF HeldBy, Connections, Has

LEMMA HasOneMore ==
    ASSUME NEW packets \in Seq(Nat), NEW last \in Nat, NEW number \in Nat
    PROVE  Has(Append(packets, last), number) <=> Has(packets, number) \/ number = last
<1> PICK m \in Nat : m = Len(packets)
    OBVIOUS
<1>a. Append(packets, last) \in Seq(Nat)
    OBVIOUS
<1> PICK longer \in Seq(Nat) : longer = Append(packets, last)
    BY <1>a
<1>1. /\ DOMAIN longer = 1..m + 1
      /\ DOMAIN packets = 1..m
      /\ \A j \in 1..m : longer[j] = packets[j]
      /\ longer[m + 1] = last
    OBVIOUS
<1>2. Has(longer, number) <=> Has(packets, number) \/ number = last
    BY <1>1 DEF Has
<1> QED
    BY <1>2

(* The new packet is in the last connection of the holder and nowhere else, *)
(* and no other packet has moved.                                          *)
LEMMA HeldStep ==
    ASSUME StreamsTypeOK, FewEnough, AllPlaced, NEW p \in Packets, AddPacket(p), IsSegment(p),
           NEW number \in 1..Len(packetHeaders) + 1
    PROVE  IF number = Len(packetHeaders) + 1
           THEN \E l \in 1..MaxPackets : HeldBy(number)' = {<<Holder(p), l>>}
           ELSE HeldBy(number)' = HeldBy(number)
<1> PICK new \in Nat : new = Len(packetHeaders) + 1
    BY FileGrows
<1> PICK h \in Names : h = Holder(p)
    BY HolderType
<1>1. PICK l \in Nat \ {0} :
        /\ l \in {Len(streams[h]), Len(streams[h]) + 1}
        /\ Len(streams'[h]) = l
        /\ \A i \in 1..l - 1 : streams'[h][i] = streams[h][i]
        /\ Landing(h, Len(packetHeaders) + 1, l)
    BY AddLands
<1>2. /\ streams'[h] \in Seq(Connection)
      /\ streams[h] \in Seq(Connection)
      /\ \A m \in Names : m # h => streams'[m] = streams[m]
    BY AddLands DEF StreamsTypeOK
<1>3. number \in Nat
    BY FileGrows
<1>4. l \in 1..MaxPackets
    <2>1. Len(streams'[h]) <= Len(packetHeaders') /\ Len(packetHeaders') <= MaxPackets
        BY TypeStep DEF Next, FewEnough, StreamsTypeOK
    <2>2. Len(packetHeaders') \in Nat /\ MaxPackets \in Nat
        BY TypeStep, BoundsAssumption DEF Next, StreamsTypeOK
    <2> QED
        BY <1>1, <2>1, <2>2
<1>5. ASSUME NEW m \in Names, NEW k \in DOMAIN streams[m]
      PROVE  ~Has(streams[m][k].packets, new)
    <2>1. Placed(m, streams[m][k])
        BY <1>5 DEF AllPlaced
    <2> QED
        BY <2>1, FileGrows DEF Placed, Has
<1>6. Has(streams'[h][l].packets, number) <=>
        \/ number = new
        \/ l \in DOMAIN streams[h] /\ Has(streams[h][l].packets, number)
    <2> PICK c \in Connection : c = streams'[h][l]
        BY <1>1, <1>2
    <2>1. CASE l = Len(streams[h]) + 1
        <3>1. c.packets = <<new>>
            BY <1>1, <2>1 DEF Landing
        <3>2. Has(c.packets, number) <=> number = new
            BY <3>1 DEF Has
        <3>3. l \notin DOMAIN streams[h]
            BY <1>1, <1>2, <2>1
        <3> QED
            BY <3>2, <3>3
    <2>2. CASE l = Len(streams[h])
        <3> PICK b \in Connection : b = streams[h][l]
            BY <1>1, <1>2, <2>2
        <3>1. c.packets = Append(b.packets, new)
            BY <1>1, <2>2 DEF Landing
        <3>a. b.packets \in Seq(Nat)
            BY DEF Connection
        <3>2. Has(c.packets, number) <=> Has(b.packets, number) \/ number = new
            BY <1>3, <3>1, <3>a, HasOneMore
        <3>3. l \in DOMAIN streams[h]
            BY <1>1, <1>2, <2>2
        <3> QED
            BY <3>2, <3>3
    <2> QED
        BY <1>1, <2>1, <2>2
<1> DEFINE HeldNow(at) == at[2] \in DOMAIN streams'[at[1]] /\ Has(streams'[at[1]][at[2]].packets, number)
           HeldThen(at) == at[2] \in DOMAIN streams[at[1]] /\ Has(streams[at[1]][at[2]].packets, number)
<1>7. ASSUME NEW at \in Names \X (1..MaxPackets)
      PROVE  HeldNow(at) <=> HeldThen(at) \/ (at = <<h, l>> /\ number = new)
    <2> PICK m \in Names, k \in 1..MaxPackets : at = <<m, k>>
        OBVIOUS
    <2>1. CASE m # h
        BY <1>2, <2>1
    <2>2. CASE m = h /\ k = l
        <3>1. l \in DOMAIN streams'[h]
            BY <1>1, <1>2
        <3> QED
            BY <1>6, <2>2, <3>1
    <2>3. CASE m = h /\ k # l
        <3>1. k \in DOMAIN streams'[h] <=> k \in 1..l - 1
            BY <1>1, <1>2, <2>3
        <3>2. k \in DOMAIN streams[h] <=> k \in 1..l - 1
            BY <1>1, <1>2, <2>3
        <3> QED
            BY <1>1, <2>3, <3>1, <3>2
    <2> QED
        BY <2>1, <2>2, <2>3
<1>8. HeldBy(number)' = {at \in Names \X (1..MaxPackets) : HeldNow(at)}
    BY DEF HeldBy, Connections, Has
<1>9. HeldBy(number) = {at \in Names \X (1..MaxPackets) : HeldThen(at)}
    BY Holding
<1>10. CASE number = new
    <2>1. \A at \in Names \X (1..MaxPackets) : ~HeldThen(at)
        BY <1>5, <1>10
    <2>2. <<h, l>> \in Names \X (1..MaxPackets)
        BY <1>4
    <2> HIDE DEF HeldNow, HeldThen
    <2>3. HeldBy(number)' = {<<h, l>>}
        BY <1>7, <1>8, <1>10, <2>1, <2>2
    <2> QED
        BY <1>4, <1>10, <2>3
<1>11. CASE number # new
    <2> HIDE DEF HeldNow, HeldThen
    <2> QED
        BY <1>7, <1>8, <1>9, <1>11
<1> QED
    BY <1>10, <1>11

LEMMA OnceStep ==
    ASSUME StreamsTypeOK, FewEnough, AllPlaced, EveryPacketOnce, ~finished,
           NEW p \in Packets, AddPacket(p)
    PROVE  EveryPacketOnce'
<1>1. AllPlaced'
    BY PlacedStep
<1>2. \A n \in Names : \A k \in DOMAIN streams'[n] : Ascending(streams'[n][k].packets)
    BY <1>1 DEF AllPlaced, Placed
<1>3. ASSUME NEW number \in DOMAIN packetHeaders'
      PROVE  IF IsSegment(packetHeaders'[number])
             THEN \E n \in {Name(packetHeaders'[number]), Reversed(Name(packetHeaders'[number]))},
                     k \in 1..MaxPackets : HeldBy(number)' = {<<n, k>>}
             ELSE HeldBy(number)' = {}
    <2>1. number \in 1..Len(packetHeaders) + 1 /\ Len(packetHeaders) \in Nat
        BY FileGrows
    <2>2. CASE number = Len(packetHeaders) + 1
        <3>1. packetHeaders'[number] = p
            BY <2>2, FileGrows
        <3>2. CASE IsSegment(p)
            <4>1. \E l \in 1..MaxPackets : HeldBy(number)' = {<<Holder(p), l>>}
                BY <2>1, <2>2, <3>2, HeldStep
            <4> QED
                BY <3>1, <3>2, <4>1, HolderType
        <3>3. CASE ~IsSegment(p)
            <4>1. ASSUME NEW m \in Names, NEW k \in DOMAIN streams[m]
                  PROVE  ~Has(streams[m][k].packets, number)
                <5>1. Placed(m, streams[m][k])
                    BY <4>1 DEF AllPlaced
                <5> QED
                    BY <2>2, <5>1, FileGrows DEF Placed, Has
            <4>2. HeldBy(number) = {}
                BY <4>1, Holding
            <4>3. streams' = streams
                BY <3>3 DEF AddPacket
            <4>4. HeldBy(number)' = HeldBy(number)
                BY <4>3 DEF HeldBy, Connections
            <4> QED
                BY <3>1, <3>3, <4>2, <4>4
        <3> QED
            BY <3>2, <3>3
    <2>3. CASE number # Len(packetHeaders) + 1
        <3>1. number \in DOMAIN packetHeaders /\ packetHeaders'[number] = packetHeaders[number]
            BY <2>1, <2>3, FileGrows
        <3>2. HeldBy(number)' = HeldBy(number)
            <4>1. CASE IsSegment(p)
                BY <2>1, <2>3, <4>1, HeldStep
            <4>2. CASE ~IsSegment(p)
                <5>1. streams' = streams
                    BY <4>2 DEF AddPacket
                <5> QED
                    BY <5>1 DEF HeldBy, Connections
            <4> QED
                BY <4>1, <4>2
        <3>3. IF IsSegment(packetHeaders[number])
              THEN \E n \in {Name(packetHeaders[number]), Reversed(Name(packetHeaders[number]))},
                      k \in 1..MaxPackets : HeldBy(number) = {<<n, k>>}
              ELSE HeldBy(number) = {}
            BY <3>1 DEF EveryPacketOnce
        <3> QED
            BY <3>1, <3>2, <3>3
    <2> QED
        BY <2>2, <2>3
<1> QED
    BY <1>2, <1>3 DEF EveryPacketOnce

LEMMA InitIInv == Init => IInv
<1> SUFFICES ASSUME Init PROVE IInv
    OBVIOUS
<1>1. StreamsTypeOK
    <2>1. <<>> \in Seq(Connection) /\ packetHeaders \in Seq(Packets) /\ Len(packetHeaders) <= MaxPackets
        BY BoundsAssumption DEF Init
    <2> QED
        BY <2>1 DEF Init, StreamsTypeOK
<1>2. \A n \in Names : streams[n] = <<>> /\ DOMAIN streams[n] = {} /\ Len(streams[n]) = 0
    BY DEF Init
<1>3. DOMAIN packetHeaders = {} /\ Len(packetHeaders) = 0 /\ finished = FALSE
    BY DEF Init
<1>4. AllPlaced /\ FewEnough /\ NameIsFirstSeen
    BY <1>2, <1>3 DEF AllPlaced, FewEnough, NameIsFirstSeen
<1>5. EveryPacketOnce
    BY <1>2, <1>3 DEF EveryPacketOnce
<1> QED
    BY <1>1, <1>3, <1>4, <1>5 DEF IInv

LEMMA StepIInv == IInv /\ [Next]_vars => IInv'
<1> SUFFICES ASSUME IInv, [Next]_vars PROVE IInv'
    OBVIOUS
<1>1. StreamsTypeOK' /\ FewEnough'
    BY TypeStep DEF IInv
<1>2. ASSUME NEW p \in Packets, AddPacket(p)
      PROVE  IInv'
    <2>1. AllPlaced'
        BY <1>2, PlacedStep DEF IInv
    <2>2. NameIsFirstSeen'
        BY <1>2, FirstSeenStep DEF IInv
    <2>3. ~finished /\ ~finished'
        BY <1>2 DEF AddPacket
    <2>4. EveryPacketOnce'
        BY <1>2, <2>3, OnceStep DEF IInv
    <2> QED
        BY <1>1, <2>1, <2>2, <2>3, <2>4 DEF IInv
<1>3. CASE FinishedAdding
    <2>1. streams' = [n \in Names |-> <<>>] /\ finished'
        BY <1>3 DEF FinishedAdding
    <2>2. \A n \in Names : streams'[n] = <<>> /\ DOMAIN streams'[n] = {}
        BY <2>1
    <2>3. AllPlaced' /\ NameIsFirstSeen'
        BY <2>2 DEF AllPlaced, NameIsFirstSeen
    <2>4. EveryPacketOnce'
        BY <2>1, <2>2 DEF EveryPacketOnce
    <2> QED
        BY <1>1, <2>1, <2>3, <2>4 DEF IInv
<1>4. CASE UNCHANGED vars
    <2>a. AllPlaced'
        BY <1>4 DEF IInv, AllPlaced, Placed, vars
    <2>b. streams' = streams /\ packetHeaders' = packetHeaders /\ NameIsFirstSeen
        BY <1>4 DEF IInv, vars
    <2>1. AllPlaced' /\ NameIsFirstSeen'
        BY <2>a, <2>b DEF NameIsFirstSeen
    <2>c. \A number : HeldBy(number)' = HeldBy(number)
        BY <2>b DEF HeldBy, Connections
    <2>d. EveryPacketOnce /\ finished' = finished
        BY <1>4 DEF IInv, vars
    <2>2. EveryPacketOnce'
        BY <2>b, <2>c, <2>d DEF EveryPacketOnce
    <2> QED
        BY <1>1, <1>4, <2>1, <2>2 DEF IInv, vars
<1> QED
    BY <1>2, <1>3, <1>4 DEF Next

LEMMA Invariance == Spec => []IInv
BY InitIInv, StepIInv, PTL DEF Spec

(* The state kept while packets are added has its types, whatever the file. *)
THEOREM StreamsTyped == Spec => []StreamsTypeOK
<1>1. IInv => StreamsTypeOK
    BY DEF IInv
<1> QED
    BY <1>1, Invariance, PTL

(* Each TCP segment is in one connection of its own ends, in the order of  *)
(* the file, for any number of hosts, ports and packets.                   *)
THEOREM EachPacketOnce == Spec => []EveryPacketOnce
<1>1. IInv => EveryPacketOnce
    BY DEF IInv
<1> QED
    BY <1>1, Invariance, PTL

(* Of the two names of two ends one is in use, that of the first segment.  *)
THEOREM NamedAsFirstSeen == Spec => []NameIsFirstSeen
<1>1. IInv => NameIsFirstSeen
    BY DEF IInv
<1> QED
    BY <1>1, Invariance, PTL

-----------------------------------------------------------------------------
(* The refinement of Conversations.                                        *)
OneName(all) ==
    \A n \in Names : all[n] # <<>> => all[Reversed(n)] = <<>> \/ n = Reversed(n)

LEMMA OneNameNow == NameIsFirstSeen => OneName(streams)
BY DEF NameIsFirstSeen, OneName

LEMMA OwnerIs ==
    ASSUME NEW all, OneName(all), NEW n \in Names, all[Reversed(n)] = <<>> \/ n = Reversed(n)
    PROVE  all[Owner(all, {n[1], n[2]})] = all[n]
<1> DEFINE Owns(m) == {m[1], m[2]} = {n[1], n[2]} /\ (all[m] = <<>> => all[Reversed(m)] = <<>>)
<1>1. Owns(n)
    OBVIOUS
<1>2. Owner(all, {n[1], n[2]}) = CHOOSE m \in Names : Owns(m)
    BY DEF Owner
<1> HIDE DEF Owns
<1>3. PICK o \in Names : o = Owner(all, {n[1], n[2]}) /\ Owns(o)
    BY <1>1, <1>2
<1>4. o = n \/ o = Reversed(n)
    <2>1. {o[1], o[2]} = {n[1], n[2]}
        BY <1>3 DEF Owns
    <2>2. o = <<o[1], o[2]>> /\ n = <<n[1], n[2]>>
        BY DEF Names
    <2>3. (o[1] = n[1] /\ o[2] = n[2]) \/ (o[1] = n[2] /\ o[2] = n[1])
        BY <2>1
    <2> QED
        BY <2>2, <2>3 DEF Reversed
<1>5. CASE o = Reversed(n) /\ n # Reversed(n)
    <2>1. all[o] = <<>>
        BY <1>5
    <2>2. all[Reversed(o)] = <<>>
        BY <1>3, <2>1 DEF Owns
    <2> QED
        BY <1>3, <1>5, <2>1, <2>2, ReversedTwice
<1> QED
    BY <1>3, <1>4, <1>5

LEMMA OwnerOf ==
    ASSUME NEW all, OneName(all), NEW pair \in Abstract!Pairs
    PROVE  \E n \in Names : pair = {n[1], n[2]} /\ (all[Reversed(n)] = <<>> \/ n = Reversed(n))
<1>1. PICK a \in Ends, b \in Ends : pair = {a, b}
    BY DEF Abstract!Pairs
<1>2. PICK m \in Names : m = <<a, b>>
    BY DEF Names
<1>3. pair = {m[1], m[2]} /\ pair = {Reversed(m)[1], Reversed(m)[2]}
    BY <1>1, <1>2 DEF Reversed
<1>4. Reversed(m) \in Names /\ Reversed(Reversed(m)) = m
    BY ReversedTwice
<1>5. CASE all[Reversed(m)] = <<>>
    BY <1>3, <1>5
<1>6. CASE all[Reversed(m)] # <<>>
    <2>1. all[m] = <<>> \/ Reversed(m) = m
        BY <1>4, <1>6 DEF OneName
    <2> QED
        BY <1>3, <1>4, <2>1
<1> QED
    BY <1>5, <1>6

LEMMA PairOf ==
    ASSUME NEW n \in Names
    PROVE  {n[1], n[2]} \in Abstract!Pairs
BY DEF Names, Abstract!Pairs

(* The abstract conversations are the connections of the name in use.      *)
LEMMA TalksAre ==
    ASSUME OneName(streams), NEW n \in Names, streams[Reversed(n)] = <<>> \/ n = Reversed(n)
    PROVE  Talks[{n[1], n[2]}] = Talk(streams[n])
<1> PICK pair \in Abstract!Pairs : pair = {n[1], n[2]}
    BY PairOf
<1>1. Talks[pair] = Talk(streams[Owner(streams, pair)])
    BY DEF Talks, Abstract!Pairs
<1> QED
    BY <1>1, OwnerIs

LEMMA TalksAreNext ==
    ASSUME OneName(streams'), NEW n \in Names, streams'[Reversed(n)] = <<>> \/ n = Reversed(n)
    PROVE  Talks'[{n[1], n[2]}] = Talk(streams'[n])
BY OwnerIs, PairOf DEF Talks, Abstract!Pairs

LEMMA OtherTalks ==
    ASSUME OneName(streams), OneName(streams'), NEW h \in Names,
           \A m \in Names : m # h => streams'[m] = streams[m],
           NEW pair \in Abstract!Pairs, pair # {h[1], h[2]}
    PROVE  Talks'[pair] = Talks[pair]
<1>1. PICK n \in Names : pair = {n[1], n[2]} /\ (streams[Reversed(n)] = <<>> \/ n = Reversed(n))
    BY OwnerOf
<1>2. n # h /\ Reversed(n) # h /\ Reversed(n) \in Names
    BY <1>1 DEF Reversed, Names
<1>3. streams'[n] = streams[n] /\ streams'[Reversed(n)] = streams[Reversed(n)]
    BY <1>2
<1> QED
    BY <1>1, <1>3, TalksAre, TalksAreNext
Conv == [packets : Seq(Nat), closed : BOOLEAN]

LEMMA TalkType ==
    ASSUME NEW s \in Seq(Connection)
    PROVE  /\ Talk(s) \in Seq(Conv)
           /\ Len(Talk(s)) = Len(s)
           /\ \A k \in DOMAIN s :
                 Talk(s)[k] = [packets |-> s[k].packets, closed |-> s[k].isFinished]
<1>1. DOMAIN s = 1..Len(s) /\ Len(s) \in Nat
    OBVIOUS
<1>a. \A k \in DOMAIN s : s[k] \in Connection
    BY <1>1
<1>2. \A k \in DOMAIN s : [packets |-> s[k].packets, closed |-> s[k].isFinished] \in Conv
    BY <1>a DEF Conv, Connection
<1>3. Talk(s) \in [1..Len(s) -> Conv]
    BY <1>1, <1>2 DEF Talk
<1>4. Talk(s) \in Seq(Conv)
    BY <1>1, <1>3, SeqDef
<1>5. Len(Talk(s)) = Len(s)
    BY <1>1, <1>3, <1>4
<1> QED
    BY <1>4, <1>5 DEF Talk

(* A connection more.                                                      *)
LEMMA TalkBegun ==
    ASSUME NEW s \in Seq(Connection), NEW t \in Seq(Connection), NEW conv \in Conv,
           Len(t) = Len(s) + 1,
           \A k \in 1..Len(s) : t[k] = s[k],
           conv = [packets |-> t[Len(t)].packets, closed |-> t[Len(t)].isFinished]
    PROVE  Talk(t) = Append(Talk(s), conv)
<1>1. /\ Talk(s) \in Seq(Conv)
      /\ Len(Talk(s)) = Len(s)
      /\ Talk(t) \in Seq(Conv)
      /\ Len(Talk(t)) = Len(s) + 1
      /\ Len(s) \in Nat
    BY TalkType
<1>2. /\ Append(Talk(s), conv) \in Seq(Conv)
      /\ Len(Append(Talk(s), conv)) = Len(s) + 1
      /\ \A k \in 1..Len(s) : Append(Talk(s), conv)[k] = Talk(s)[k]
      /\ Append(Talk(s), conv)[Len(s) + 1] = conv
    BY <1>1, AppendProperties
<1>3. ASSUME NEW k \in 1..Len(s) + 1
      PROVE  Talk(t)[k] = Append(Talk(s), conv)[k]
    <2>a. DOMAIN t = 1..Len(s) + 1 /\ DOMAIN s = 1..Len(s)
        OBVIOUS
    <2>1. CASE k = Len(s) + 1
        <3>1. Talk(t)[k] = conv
            BY <1>1, <2>1, <2>a, TalkType
        <3> QED
            BY <1>2, <2>1, <3>1
    <2>2. CASE k \in 1..Len(s)
        <3>1. t[k] = s[k] /\ k \in DOMAIN s /\ k \in DOMAIN t
            BY <1>1, <2>2, <2>a
        <3>2. Talk(t)[k] = Talk(s)[k]
            BY <3>1, TalkType
        <3> QED
            BY <1>2, <2>2, <3>2
    <2> QED
        BY <1>1, <2>1, <2>2
<1> QED
    BY <1>1, <1>2, <1>3, SeqEqual

(* A packet of the file is a packet of the abstract conversations.         *)
LEMMA AddRefines ==
    ASSUME IInv, IInv', NEW p \in Packets, AddPacket(p)
    PROVE  Abstract!Next
<1>1. Len(packetHeaders') = Len(packetHeaders) + 1 /\ finalStreams' = finalStreams
    BY DEF IInv, StreamsTypeOK, AddPacket
<1>2. CASE ~IsSegment(p)
    <2>1. streams' = streams
        BY <1>2 DEF AddPacket
    <2>2. Talks' = Talks
        BY <2>1 DEF Talks
    <2>3. Abstract!Ignore
        BY <1>1, <2>2 DEF Abstract!Ignore
    <2> QED
        BY <2>3 DEF Abstract!Next
<1>3. CASE IsSegment(p)
    <2> PICK h \in Names : h = Holder(p)
        BY HolderType
    <2> PICK new \in Nat : new = Len(packetHeaders) + 1
        BY FileGrows DEF IInv
    <2>1. PICK l \in Nat \ {0} :
            /\ l \in {Len(streams[h]), Len(streams[h]) + 1}
            /\ Len(streams'[h]) = l
            /\ \A i \in 1..l - 1 : streams'[h][i] = streams[h][i]
            /\ Landing(h, Len(packetHeaders) + 1, l)
        BY <1>3, AddLands DEF IInv
    <2>2. \A m \in Names : m # h => streams'[m] = streams[m]
        BY <1>3, AddLands DEF IInv
    <2>3. OneName(streams) /\ OneName(streams')
        BY DEF OneName, NameIsFirstSeen, IInv
    <2>4. /\ streams[Reversed(h)] = <<>> \/ h = Reversed(h)
          /\ streams'[Reversed(h)] = <<>> \/ h = Reversed(h)
        BY <2>2, HolderAlone, ReversedTwice DEF IInv
    <2> PICK s \in Seq(Connection) : s = streams[h]
        BY DEF IInv, StreamsTypeOK
    <2> PICK t \in Seq(Connection) : t = streams'[h]
        BY DEF IInv, StreamsTypeOK
    <2> PICK pair \in Abstract!Pairs : pair = {h[1], h[2]}
        BY PairOf
    <2>5. Talks[pair] = Talk(s) /\ Talks'[pair] = Talk(t)
        BY <2>3, <2>4, TalksAre, TalksAreNext
    <2>6. /\ Talks = [q \in Abstract!Pairs |-> Talks[q]]
          /\ Talks' = [q \in Abstract!Pairs |-> Talks'[q]]
        BY DEF Talks, Abstract!Pairs
    <2>7. \A q \in Abstract!Pairs : q # pair => Talks'[q] = Talks[q]
        BY <2>2, <2>3, OtherTalks
    <2>8. t[l] \in Connection /\ l = Len(t) /\ Len(s) \in Nat /\ l \in 1..Len(t)
        BY <2>1
    <2> PICK closes \in BOOLEAN : closes = t[l].isFinished
        BY <2>8 DEF Connection
    <2> PICK conv \in Conv : conv = [packets |-> t[l].packets, closed |-> closes]
        BY <2>8 DEF Conv, Connection
    <2>9. CASE l = Len(s) + 1
        <3>1. t[l].packets = <<new>>
            BY <2>1, <2>9 DEF Landing
        <3>a. Len(t) = Len(s) + 1 /\ \A k \in 1..Len(s) : t[k] = s[k]
            BY <2>1, <2>8, <2>9
        <3>b. conv = [packets |-> t[Len(t)].packets, closed |-> t[Len(t)].isFinished]
            BY <2>8
        <3>2. Talk(t) = Append(Talk(s), conv)
            BY <3>a, <3>b, TalkBegun
        <3>3. Talks' = [Talks EXCEPT ![pair] = Append(Talks[pair], conv)]
            BY <2>5, <2>6, <2>7, <3>2
        <3>4. ~Abstract!Open(pair)
            <4>1. CASE l = 1
                <5>1. Len(Talk(s)) = 0
                    BY <2>8, <2>9, <4>1, TalkType
                <5>2. Talk(s) = <<>>
                    BY <5>1, TalkType, EmptySeq
                <5> QED
                    BY <2>5, <5>2 DEF Abstract!Open
            <4>2. CASE l # 1
                <5>a. l > 1 /\ l - 1 = Len(s) /\ Len(s) \in DOMAIN s
                    BY <2>8, <2>9, <4>2
                <5>b. l > 1 => streams[h][l - 1].isFinished
                    BY <2>1, <2>9 DEF Landing
                <5>1. s[Len(s)].isFinished
                    BY <5>a, <5>b
                <5>c. Talk(s)[Len(s)] = [packets |-> s[Len(s)].packets, closed |-> s[Len(s)].isFinished]
                    BY <5>a, TalkType
                <5>2. Talk(s)[Len(Talk(s))].closed
                    BY <5>1, <5>c, TalkType
                <5> QED
                    BY <2>5, <5>2 DEF Abstract!Open
            <4> QED
                BY <4>1, <4>2
        <3>5. Abstract!Begin(pair, closes)
            BY <1>1, <3>1, <3>3, <3>4 DEF Abstract!Begin
        <3> QED
            BY <3>5 DEF Abstract!Next
    <2>10. CASE l = Len(s)
        <3>1. t[l].packets = Append(s[l].packets, new) /\ ~s[l].isFinished
            BY <2>1, <2>10 DEF Landing
        <3>a. Len(t) = Len(s) /\ Len(s) # 0 /\ \A k \in 1..Len(s) - 1 : t[k] = s[k]
            BY <2>1, <2>8, <2>10
        <3>b. conv = [packets |-> t[Len(t)].packets, closed |-> t[Len(t)].isFinished]
            BY <2>8
        <3>2. Talk(t) = [Talk(s) EXCEPT ![Len(s)] = conv]
            <4>1. Talk(s) \in Seq(Conv) /\ Len(Talk(s)) = Len(s)
                BY TalkType
            <4>2. [Talk(s) EXCEPT ![Len(s)] = conv] \in Seq(Conv)
                BY <2>8, <3>a, <4>1
            <4> PICK u \in Seq(Conv) : u = [Talk(s) EXCEPT ![Len(s)] = conv]
                BY <4>2
            <4>3. /\ Len(u) = Len(s)
                  /\ u[Len(s)] = conv
                  /\ \A k \in 1..Len(s) - 1 : u[k] = Talk(s)[k]
                BY <2>8, <3>a, <4>1
            <4> PICK v \in Seq(Conv) : v = Talk(t)
                BY TalkType
            <4>4. Len(v) = Len(u) /\ Len(v) = Len(s)
                BY <3>a, <4>3, TalkType
            <4>5. ASSUME NEW k \in 1..Len(v)
                  PROVE  v[k] = u[k]
                <5>1. DOMAIN t = 1..Len(s) /\ DOMAIN s = 1..Len(s)
                    BY <3>a
                <5>2. CASE k = Len(s)
                    <6>1. Talk(t)[k] = conv
                        BY <3>a, <3>b, <4>4, <5>1, <5>2, TalkType
                    <6> QED
                        BY <4>3, <5>2, <6>1
                <5>3. CASE k # Len(s)
                    <6>1. k \in 1..Len(s) /\ k \in 1..Len(s) - 1
                        BY <2>8, <4>4, <4>5, <5>3
                    <6>2. t[k] = s[k]
                        BY <3>a, <6>1
                    <6>a. k \in DOMAIN s /\ k \in DOMAIN t
                        BY <5>1, <6>1
                    <6>b. Talk(s)[k] = [packets |-> s[k].packets, closed |-> s[k].isFinished]
                        BY <6>a, TalkType
                    <6>c. Talk(t)[k] = [packets |-> t[k].packets, closed |-> t[k].isFinished]
                        BY <6>a, TalkType
                    <6>3. Talk(t)[k] = Talk(s)[k]
                        BY <6>2, <6>b, <6>c
                    <6> QED
                        BY <4>3, <6>1, <6>3
                <5> QED
                    BY <5>2, <5>3
            <4>a. Len(v) = Len(u) /\ \A i \in 1..Len(v) : v[i] = u[i]
                BY <4>4, <4>5
            <4>6. v = u
                BY <4>a, SeqEqual
            <4> QED
                BY <4>6
        <3>3. /\ Len(Talk(s)) = Len(s)
              /\ Talk(s)[Len(s)].packets = s[l].packets
              /\ Talk(s)[Len(s)].closed = s[l].isFinished
              /\ Talk(s) # <<>>
            <4>1. Len(s) \in DOMAIN s
                BY <2>8, <2>10
            <4>2. Talk(s)[Len(s)] = [packets |-> s[l].packets, closed |-> s[l].isFinished]
                BY <2>10, <4>1, TalkType
            <4>3. Len(Talk(s)) # 0
                BY <2>1, <2>10, TalkType
            <4> QED
                BY <4>2, <4>3, TalkType
        <3>4. Talks' = [Talks EXCEPT ![pair] = [Talks[pair] EXCEPT ![Len(Talks[pair])] = conv]]
            BY <2>5, <2>6, <2>7, <3>2, <3>3
        <3>5. conv = [packets |-> Append(Talks[pair][Len(Talks[pair])].packets, new),
                      closed |-> closes]
            BY <2>5, <3>1, <3>3
        <3>6. Abstract!Open(pair)
            BY <2>5, <3>1, <3>3 DEF Abstract!Open
        <3>7. Abstract!Continue(pair, closes)
            BY <1>1, <3>4, <3>5, <3>6 DEF Abstract!Continue
        <3> QED
            BY <3>7 DEF Abstract!Next
    <2> QED
        BY <2>1, <2>9, <2>10
<1> QED
    BY <1>2, <1>3

(* An order of a finite set leaves nothing out.                            *)
LEMMA OrderIsAll ==
    ASSUME NEW S, IsFiniteSet(S), NEW order \in SetToSeqs(S)
    PROVE  /\ \A i \in DOMAIN order : order[i] \in S
           /\ \A x \in S : \E i \in DOMAIN order : order[i] = x
<1> PICK D : D = 1..Cardinality(S)
    OBVIOUS
<1>1. Cardinality(S) \in Nat /\ IsFiniteSet(D) /\ Cardinality(D) = Cardinality(S)
    BY FS_CardinalityType, FS_Interval
<1>2. order \in [D -> S] /\ \A i, j \in D : i # j => order[i] # order[j]
    BY DEF SetToSeqs
<1>3. order \in Injection(D, S)
    BY <1>2 DEF Injection, IsInjective
<1>4. order \in Surjection(D, S)
    BY <1>1, <1>3, FS_Injection
<1> QED
    BY <1>2, <1>4 DEF Surjection

LEMMA ConnectionsFinite == IsFiniteSet(Connections)
<1>1. IsFiniteSet(Ends)
    BY FiniteAssumption, FS_Product DEF Ends
<1>2. IsFiniteSet(Names)
    BY <1>1, FS_Product DEF Names
<1>3. IsFiniteSet(1..MaxPackets)
    BY BoundsAssumption, FS_Interval
<1>4. IsFiniteSet(Names \X (1..MaxPackets))
    BY <1>2, <1>3, FS_Product
<1>5. Connections \in SUBSET (Names \X (1..MaxPackets))
    BY DEF Connections
<1> QED
    BY <1>4, <1>5, FS_Subset

PacketsAt(at) == streams[at[1]][at[2]].packets

(* What FinishedAdding shows is every conversation.                        *)
LEMMA FinishRefines ==
    ASSUME IInv, IInv', FinishedAdding
    PROVE  Abstract!Show
<1> PICK order \in SetToSeqs(Connections) :
        finalStreams' = [i \in DOMAIN order |->
            Finish(order[i][1], streams[order[i][1]][order[i][2]])]
    BY DEF FinishedAdding
<1>1. /\ \A i \in DOMAIN order : order[i] \in Connections
      /\ \A at \in Connections : \E i \in DOMAIN order : order[i] = at
    BY ConnectionsFinite, OrderIsAll
<1>2. /\ DOMAIN finalStreams' = DOMAIN order
      /\ \A i \in DOMAIN order : finalStreams'[i].packets = PacketsAt(order[i])
    BY DEF Finish, PacketsAt
<1>3. {finalStreams'[i].packets : i \in DOMAIN finalStreams'} = {PacketsAt(at) : at \in Connections}
    BY <1>1, <1>2
<1>4. OneName(streams) /\ OneName(streams')
    BY DEF OneName, NameIsFirstSeen, IInv
<1>5. ASSUME NEW at \in Connections
      PROVE  \E pair \in Abstract!Pairs : \E k \in DOMAIN Talks[pair] :
                Talks[pair][k].packets = PacketsAt(at)
    <2> PICK n \in Names, k \in 1..MaxPackets : at = <<n, k>> /\ k \in DOMAIN streams[n]
        BY DEF Connections
    <2> PICK s \in Seq(Connection) : s = streams[n]
        BY DEF IInv, StreamsTypeOK
    <2>1. streams[Reversed(n)] = <<>> \/ n = Reversed(n)
        BY <1>4 DEF OneName
    <2>2. Talks[{n[1], n[2]}] = Talk(s)
        BY <1>4, <2>1, TalksAre
    <2>3. k \in DOMAIN Talk(s) /\ Talk(s)[k].packets = s[k].packets
        BY DEF Talk
    <2> QED
        BY <2>2, <2>3, PairOf DEF PacketsAt
<1>6. ASSUME NEW pair \in Abstract!Pairs, NEW k \in DOMAIN Talks[pair]
      PROVE  \E at \in Connections : Talks[pair][k].packets = PacketsAt(at)
    <2> PICK n \in Names : pair = {n[1], n[2]} /\ (streams[Reversed(n)] = <<>> \/ n = Reversed(n))
        BY <1>4, OwnerOf
    <2> PICK s \in Seq(Connection) : s = streams[n]
        BY DEF IInv, StreamsTypeOK
    <2>1. Talks[pair] = Talk(s)
        BY <1>4, TalksAre
    <2>2. k \in DOMAIN s /\ Talk(s)[k].packets = s[k].packets
        BY <1>6, <2>1 DEF Talk
    <2>3. /\ DOMAIN s = 1..Len(s)
          /\ Len(s) \in Nat
          /\ Len(s) <= Len(packetHeaders)
          /\ Len(packetHeaders) \in Nat
          /\ Len(packetHeaders) <= MaxPackets
          /\ MaxPackets \in Nat
        BY BoundsAssumption DEF IInv, FewEnough, StreamsTypeOK
    <2>4. k \in 1..MaxPackets
        BY <2>2, <2>3
    <2>5. <<n, k>> \in Connections
        BY <2>2, <2>4 DEF Connections
    <2> QED
        BY <2>1, <2>2, <2>5 DEF PacketsAt
<1>7. {PacketsAt(at) : at \in Connections}
        = UNION {{Talks[pair][k].packets : k \in DOMAIN Talks[pair]} : pair \in Abstract!Pairs}
    BY <1>5, <1>6
<1>8. ASSUME NEW pair \in Abstract!Pairs
      PROVE  Talks'[pair] = <<>>
    <2> PICK n \in Names : pair = {n[1], n[2]} /\ (streams'[Reversed(n)] = <<>> \/ n = Reversed(n))
        BY <1>4, OwnerOf
    <2>1. streams'[n] = <<>>
        BY DEF FinishedAdding
    <2>2. Talks'[pair] = Talk(<<>>)
        BY <1>4, <2>1, TalksAreNext
    <2>a. <<>> \in Seq(Connection)
        OBVIOUS
    <2> PICK s \in Seq(Connection) : s = <<>>
        BY <2>a
    <2>3. Talk(s) = <<>>
        BY TalkType, EmptySeq
    <2> QED
        BY <2>2, <2>3
<1>9. Talks' = [pair \in Abstract!Pairs |-> <<>>]
    <2>1. Talks' = [pair \in Abstract!Pairs |-> Talks'[pair]]
        BY DEF Talks, Abstract!Pairs
    <2> QED
        BY <1>8, <2>1
<1>10. Len(packetHeaders)' = Len(packetHeaders)
    BY DEF FinishedAdding
<1> QED
    BY <1>3, <1>7, <1>9, <1>10 DEF Abstract!Show

LEMMA InitRefines == Init => Abstract!Init
<1> SUFFICES ASSUME Init PROVE Abstract!Init
    OBVIOUS
<1>1. Len(packetHeaders) = 0 /\ {finalStreams[i].packets : i \in DOMAIN finalStreams} = {}
    BY DEF Init
<1>2. OneName(streams) /\ \A n \in Names : streams[n] = <<>>
    BY DEF Init, OneName
<1>3. ASSUME NEW pair \in Abstract!Pairs
      PROVE  Talks[pair] = <<>>
    <2> PICK n \in Names : pair = {n[1], n[2]} /\ (streams[Reversed(n)] = <<>> \/ n = Reversed(n))
        BY <1>2, OwnerOf
    <2>1. Talks[pair] = Talk(<<>>)
        BY <1>2, TalksAre
    <2>a. <<>> \in Seq(Connection)
        OBVIOUS
    <2> PICK s \in Seq(Connection) : s = <<>>
        BY <2>a
    <2>2. Talk(s) = <<>>
        BY TalkType, EmptySeq
    <2> QED
        BY <2>1, <2>2
<1>4. Talks = [pair \in Abstract!Pairs |-> <<>>]
    <2>1. Talks = [pair \in Abstract!Pairs |-> Talks[pair]]
        BY DEF Talks, Abstract!Pairs
    <2> QED
        BY <1>3, <2>1
<1> QED
    BY <1>1, <1>4 DEF Abstract!Init

LEMMA StepRefines == IInv /\ IInv' /\ [Next]_vars => [Abstract!Next]_(Abstract!vars)
<1> SUFFICES ASSUME IInv, IInv', [Next]_vars PROVE [Abstract!Next]_(Abstract!vars)
    OBVIOUS
<1>1. ASSUME NEW p \in Packets, AddPacket(p)
      PROVE  Abstract!Next
    BY <1>1, AddRefines
<1>2. CASE FinishedAdding
    BY <1>2, FinishRefines DEF Abstract!Next
<1>3. CASE UNCHANGED vars
    <2>1. packetHeaders' = packetHeaders /\ streams' = streams /\ finalStreams' = finalStreams
        BY <1>3 DEF vars
    <2>2. Talks' = Talks
        BY <2>1 DEF Talks
    <2> QED
        BY <2>1, <2>2 DEF Abstract!vars
<1> QED
    BY <1>1, <1>2, <1>3 DEF Next

(* The stream manager implements the conversations of the stream view: what *)
(* AddPacket and FinishedAdding do to the hash table of names is what is    *)
(* promised of pairs of ends.                                               *)
THEOREM StreamsAreConversations == Spec => ImplementsConversations
<1>1. Spec => []IInv /\ Init /\ [][Next]_vars
    BY Invariance, PTL DEF Spec
<1> QED
    BY <1>1, InitRefines, StepRefines, PTL DEF ImplementsConversations, Abstract!Spec

-----------------------------------------------------------------------------
(* Why a connection ends.                                                  *)

InFile(c) == \A j \in DOMAIN c.packets : c.packets[j] \in DOMAIN packetHeaders

(* The eight bits count the FINs while they can.                           *)
Counted(c) ==
    FinsUpTo(c, Len(c.packets)) < FinWrap => c.finFlagsFound = FinsUpTo(c, Len(c.packets))

(* No segment so far has ended it.                                         *)
NotOver(c) ==
    FinsUpTo(c, Len(c.packets)) < FinWrap => \A j \in 1..Len(c.packets) : ~EndsAt(c, j)

(* The inductive invariant of EndsForAReason: with what it says, that the  *)
(* counter has counted.                                                    *)
AllCounted ==
    \A n \in Names : \A k \in DOMAIN streams[n] :
        /\ Counted(streams[n][k])
        /\ OverAtLast(streams[n][k])
        /\ k < Len(streams[n]) => streams[n][k].isFinished

FinsAmong(c, j) == {i \in 1..j : "FIN" \in FlagsAt(c, i)}

FinsAdd ==
    \A c : \A j \in Nat :
        /\ FinsUpTo(c, j) \in Nat
        /\ FinsUpTo(c, 0) = 0
        /\ "FIN" \in FlagsAt(c, j + 1) => FinsUpTo(c, j + 1) = FinsUpTo(c, j) + 1
        /\ "FIN" \notin FlagsAt(c, j + 1) => FinsUpTo(c, j + 1) = FinsUpTo(c, j)

LEMMA FinsCount == FinsAdd
<1> SUFFICES ASSUME NEW c, NEW j \in Nat
             PROVE  /\ FinsUpTo(c, j) \in Nat
                    /\ FinsUpTo(c, 0) = 0
                    /\ "FIN" \in FlagsAt(c, j + 1) => FinsUpTo(c, j + 1) = FinsUpTo(c, j) + 1
                    /\ "FIN" \notin FlagsAt(c, j + 1) => FinsUpTo(c, j + 1) = FinsUpTo(c, j)
    BY DEF FinsAdd
<1>1. \A k : FinsUpTo(c, k) = Cardinality(FinsAmong(c, k))
    BY DEF FinsUpTo, FinsAmong
<1>2. IsFiniteSet(FinsAmong(c, j))
    <2>1. IsFiniteSet(1..j) /\ FinsAmong(c, j) \subseteq 1..j
        BY FS_Interval DEF FinsAmong
    <2> QED
        BY <2>1, FS_Subset
<1>3. FinsAmong(c, 0) = {}
    BY DEF FinsAmong
<1>4. j + 1 \notin FinsAmong(c, j)
    BY DEF FinsAmong
<1>5. CASE "FIN" \in FlagsAt(c, j + 1)
    <2>1. FinsAmong(c, j + 1) = FinsAmong(c, j) \cup {j + 1}
        BY <1>5 DEF FinsAmong
    <2> DEFINE A == FinsAmong(c, j)
    <2>2. IsFiniteSet(A) /\ j + 1 \notin A
        BY <1>2, <1>4
    <2>3. /\ Cardinality(A \cup {j + 1}) = Cardinality(A) + 1
          /\ Cardinality(A) \in Nat
        <3> HIDE DEF A
        <3> QED
            BY <2>2, FS_AddElement, FS_CardinalityType
    <2> QED
        BY <1>1, <1>3, <1>5, <2>1, <2>3, FS_EmptySet
<1>6. CASE "FIN" \notin FlagsAt(c, j + 1)
    <2>1. FinsAmong(c, j + 1) = FinsAmong(c, j)
        BY <1>6 DEF FinsAmong
    <2> QED
        BY <1>1, <1>2, <1>3, <1>6, <2>1, FS_CardinalityType, FS_EmptySet
<1> QED
    BY <1>5, <1>6

(* What is said of a connection goes on being true as the file grows.      *)
LEMMA EndsKept ==
    ASSUME StreamsTypeOK, NEW p \in Packets, AddPacket(p), NEW c \in Connection, InFile(c)
    PROVE  /\ InFile(c)'
           /\ \A j \in 1..Len(c.packets) : FlagsAt(c, j)' = FlagsAt(c, j)
           /\ \A j \in 0..Len(c.packets) : FinsUpTo(c, j)' = FinsUpTo(c, j)
           /\ \A j \in 1..Len(c.packets) : EndsAt(c, j)' = EndsAt(c, j)
<1>1. Len(c.packets) \in Nat /\ DOMAIN c.packets = 1..Len(c.packets)
    BY DEF Connection
<1>2. \A j \in 1..Len(c.packets) : /\ c.packets[j] \in DOMAIN packetHeaders'
                                   /\ packetHeaders'[c.packets[j]] = packetHeaders[c.packets[j]]
    BY <1>1, FileGrows DEF InFile
<1>3. \A j \in 1..Len(c.packets) : FlagsAt(c, j)' = FlagsAt(c, j)
    BY <1>2 DEF FlagsAt
<1>4. \A j \in 0..Len(c.packets) : FinsUpTo(c, j)' = FinsUpTo(c, j)
    <2> TAKE j \in 0..Len(c.packets)
    <2>1. {i \in 1..j : "FIN" \in FlagsAt(c, i)'} = {i \in 1..j : "FIN" \in FlagsAt(c, i)}
        BY <1>1, <1>3
    <2> QED
        BY <2>1 DEF FinsUpTo
<1>5. \A j \in 1..Len(c.packets) : EndsAt(c, j)' = EndsAt(c, j)
    <2> TAKE j \in 1..Len(c.packets)
    <2>1. FlagsAt(c, j)' = FlagsAt(c, j) /\ FinsUpTo(c, j)' = FinsUpTo(c, j)
        BY <1>1, <1>3, <1>4
    <2> QED
        BY <2>1 DEF EndsAt
<1> QED
    BY <1>1, <1>2, <1>3, <1>4, <1>5 DEF InFile

(* A segment is received by a connection that is not over.                 *)
LEMMA ReceiveReason ==
    ASSUME StreamsTypeOK, NEW p \in Packets, AddPacket(p), NEW b \in Connection, InFile(b),
           Counted(b), NotOver(b), ~b.isFinished, NEW c \in Connection,
           c = Receive(b, Len(packetHeaders) + 1, HeaderRead(p))
    PROVE  Counted(c)' /\ OverAtLast(c)'
<1> DEFINE number == Len(packetHeaders) + 1
           flags == HeaderRead(p).flags
           m == Len(b.packets)
           fins == IF "FIN" \in flags THEN (b.finFlagsFound + 1) % FinWrap ELSE b.finFlagsFound
<1>1. b.packets \in Seq(Nat) /\ m \in Nat /\ number \in Nat
    BY FileGrows DEF Connection
<1>2. /\ c.packets = Append(b.packets, number) /\ c.finFlagsFound = fins
      /\ c.isFinished = Ended(b, fins, flags)
    BY DEF Receive
<1>3. /\ Len(c.packets) = m + 1 /\ c.packets[m + 1] = number
      /\ \A j \in 1..m : c.packets[j] = b.packets[j]
    BY <1>1, <1>2
<1>4. packetHeaders'[number] = p
    BY FileGrows
<1> HIDE DEF number, m, fins
<1>5. FlagsAt(c, m + 1)' = flags
    BY <1>3, <1>4 DEF FlagsAt
<1>6. \A j \in 1..m : FlagsAt(c, j)' = FlagsAt(b, j)
    <2>1. \A j \in 1..m : FlagsAt(b, j)' = FlagsAt(b, j)
        BY EndsKept DEF m
    <2> QED
        BY <1>3, <2>1 DEF FlagsAt
<1>7. \A j \in 0..m : FinsUpTo(c, j)' = FinsUpTo(b, j)
    <2> TAKE j \in 0..m
    <2>1. {i \in 1..j : "FIN" \in FlagsAt(c, i)'} = {i \in 1..j : "FIN" \in FlagsAt(b, i)}
        BY <1>1, <1>6
    <2> QED
        BY <2>1 DEF FinsUpTo
<1>8. \A j \in 1..m : EndsAt(c, j)' = EndsAt(b, j)
    <2> TAKE j \in 1..m
    <2>1. FlagsAt(c, j)' = FlagsAt(b, j) /\ FinsUpTo(c, j)' = FinsUpTo(b, j)
        BY <1>1, <1>6, <1>7
    <2> QED
        BY <2>1 DEF EndsAt
<1> DEFINE before == FinsUpTo(b, m)
           after == FinsUpTo(c, m + 1)'
<1>9. /\ before \in Nat /\ after \in Nat
      /\ "FIN" \in flags => after = before + 1
      /\ "FIN" \notin flags => after = before
    <2>1. /\ FinsUpTo(c, m)' \in Nat
          /\ "FIN" \in FlagsAt(c, m + 1)' => FinsUpTo(c, m + 1)' = FinsUpTo(c, m)' + 1
          /\ "FIN" \notin FlagsAt(c, m + 1)' => FinsUpTo(c, m + 1)' = FinsUpTo(c, m)'
        <3>1. FinsAdd'
            BY FinsCount, PTL
        <3> QED
            BY <1>1, <3>1 DEF FinsAdd
    <2>2. FinsUpTo(c, m)' = FinsUpTo(b, m)
        BY <1>1, <1>7
    <2> HIDE DEF flags
    <2> QED
        BY <1>5, <2>1, <2>2
<1> HIDE DEF before, after, flags
<1>10. ASSUME after < FinWrap
       PROVE  /\ before < FinWrap /\ fins = after
    <2>1. before < FinWrap
        BY <1>9, <1>10, BoundsAssumption
    <2>2. b.finFlagsFound = before
        BY <2>1 DEF Counted, before, m
    <2>3. \A a \in Nat : a < FinWrap => a % FinWrap = a
        BY BoundsAssumption
    <2> QED
        BY <1>9, <1>10, <2>1, <2>2, <2>3 DEF fins
<1>11. Counted(c)'
    <2>1. after < FinWrap => c.finFlagsFound = after
        BY <1>2, <1>10
    <2> QED
        BY <1>3, <2>1 DEF Counted, after
<1>12. OverAtLast(c)'
    <2> SUFFICES ASSUME after < FinWrap
                 PROVE  /\ c.isFinished <=> EndsAt(c, m + 1)'
                        /\ \A j \in 1..m : ~EndsAt(c, j)'
        BY <1>1, <1>3 DEF OverAtLast, after
    <2>1. before < FinWrap /\ fins = after
        BY <1>10
    <2>2. \A j \in 1..m : ~EndsAt(b, j)
        BY <2>1 DEF NotOver, before, m
    <2>3. c.isFinished <=> ("RST" \in flags \/ ("SYN" \in flags /\ after >= 2))
        BY <1>2, <2>1 DEF Ended
    <2>4. EndsAt(c, m + 1)' <=> ("RST" \in flags \/ ("SYN" \in flags /\ after >= 2))
        BY <1>5 DEF EndsAt, after
    <2> QED
        BY <1>8, <2>2, <2>3, <2>4
<1> QED
    BY <1>11, <1>12

(* The connection a segment is received by.                                *)
Base(h, l) == IF l = Len(streams[h]) THEN streams[h][l] ELSE NewConnection

LEMMA AddReceives ==
    ASSUME StreamsTypeOK, NEW p \in Packets, AddPacket(p), IsSegment(p)
    PROVE  LET h == Holder(p)
               l == Len(streams'[h])
           IN  streams'[h][l] = Receive(Base(h, l), Len(packetHeaders) + 1, HeaderRead(p))
<1> DEFINE h == Holder(p)
           old == streams[h]
           open == WithOpen(old)
           l == Len(open)
           landed == Receive(open[l], Len(packetHeaders) + 1, HeaderRead(p))
<1>1. h \in Names
    BY HolderType
<1>2. old \in Seq(Connection) /\ Len(packetHeaders) \in Nat
    BY <1>1 DEF StreamsTypeOK
<1>3. streams' = [streams EXCEPT ![h] = [open EXCEPT ![l] = landed]]
    BY DEF AddPacket, Add_TCPHeader
<1>4. open \in Seq(Connection) /\ l = Len(open) /\ l \in Nat \ {0} /\ open[l] = Base(h, l)
    <2>1. CASE old = <<>> \/ Last(old).isFinished
        <3>1. open = Append(old, NewConnection)
            BY <2>1 DEF WithOpen
        <3> QED
            BY <1>2, <3>1, NewConnectionType DEF Base
    <2>2. CASE ~(old = <<>> \/ Last(old).isFinished)
        <3>1. open = old /\ Len(old) # 0
            BY <1>2, <2>2 DEF WithOpen
        <3> QED
            BY <1>2, <3>1 DEF Base
    <2> QED
        BY <2>1, <2>2
<1>5. streams'[h] = [open EXCEPT ![l] = landed]
    BY <1>1, <1>3 DEF StreamsTypeOK
<1> HIDE DEF open, l, landed, h
<1>6. Len(streams'[h]) = l /\ streams'[h][l] = landed
    BY <1>4, <1>5
<1>7. landed = Receive(Base(h, l), Len(packetHeaders) + 1, HeaderRead(p))
    BY <1>4 DEF landed
<1> QED
    BY <1>6, <1>7 DEF h

LEMMA PlacedInFile ==
    ASSUME StreamsTypeOK, AllPlaced, NEW n \in Names, NEW k \in DOMAIN streams[n]
    PROVE  streams[n][k] \in Connection /\ InFile(streams[n][k])
BY DEF AllPlaced, Placed, InFile, StreamsTypeOK

(* Every connection but the one of a new segment is left as it was.        *)
LEMMA CountedKept ==
    ASSUME StreamsTypeOK, NEW p \in Packets, AddPacket(p), NEW c \in Connection, InFile(c),
           c.packets # <<>>, Counted(c), OverAtLast(c)
    PROVE  Counted(c)' /\ OverAtLast(c)'
<1>1. Len(c.packets) \in Nat /\ Len(c.packets) >= 1
    BY DEF Connection
<1>2. FinsUpTo(c, Len(c.packets))' = FinsUpTo(c, Len(c.packets))
    BY <1>1, EndsKept
<1>3. \A j \in 1..Len(c.packets) : EndsAt(c, j)' = EndsAt(c, j)
    BY EndsKept
<1>4. Counted(c)'
    BY <1>2 DEF Counted
<1>5. OverAtLast(c)'
    BY <1>1, <1>2, <1>3 DEF OverAtLast
<1> QED
    BY <1>4, <1>5

LEMMA NewCounted ==
    /\ NewConnection \in Connection
    /\ InFile(NewConnection)
    /\ Counted(NewConnection)
    /\ NotOver(NewConnection)
    /\ ~NewConnection.isFinished
<1>1. /\ NewConnection.packets = <<>> /\ Len(NewConnection.packets) = 0
      /\ NewConnection.finFlagsFound = 0 /\ ~NewConnection.isFinished
    BY DEF NewConnection
<1>2. FinsUpTo(NewConnection, 0) = 0
    BY FinsCount DEF FinsAdd
<1> QED
    BY <1>1, <1>2, NewConnectionType DEF InFile, Counted, NotOver

(* An open connection has not been ended by its last segment either.       *)
LEMMA OpenNotOver ==
    ASSUME NEW c \in Connection, c.packets # <<>>, OverAtLast(c), ~c.isFinished
    PROVE  NotOver(c)
<1>1. Len(c.packets) \in Nat /\ Len(c.packets) >= 1
    BY DEF Connection
<1> SUFFICES ASSUME FinsUpTo(c, Len(c.packets)) < FinWrap, NEW j \in 1..Len(c.packets)
             PROVE  ~EndsAt(c, j)
    BY DEF NotOver
<1>2. ~EndsAt(c, Len(c.packets)) /\ \A i \in 1..Len(c.packets) - 1 : ~EndsAt(c, i)
    BY DEF OverAtLast
<1> QED
    BY <1>1, <1>2

LEMMA CountedStep ==
    ASSUME StreamsTypeOK, AllPlaced, AllCounted, NEW p \in Packets, AddPacket(p)
    PROVE  AllCounted'
<1> SUFFICES ASSUME NEW n \in Names, NEW k \in DOMAIN streams'[n]
             PROVE  /\ Counted(streams[n][k])'
                    /\ OverAtLast(streams[n][k])'
                    /\ k < Len(streams'[n]) => streams'[n][k].isFinished
    BY DEF AllCounted
<1>1. ASSUME streams'[n][k] = streams[n][k], k \in DOMAIN streams[n]
      PROVE  Counted(streams[n][k])' /\ OverAtLast(streams[n][k])'
    <2> PICK c \in Connection : c = streams[n][k]
        BY <1>1 DEF StreamsTypeOK
    <2>1. InFile(c) /\ c.packets # <<>> /\ Counted(c) /\ OverAtLast(c)
        BY <1>1, PlacedInFile DEF AllCounted, AllPlaced, Placed
    <2>2. Counted(c)' /\ OverAtLast(c)'
        BY <2>1, CountedKept
    <2> QED
        BY <1>1, <2>2 DEF Counted, OverAtLast
<1>2. ASSUME streams'[n] = streams[n]
      PROVE  /\ Counted(streams[n][k])'
             /\ OverAtLast(streams[n][k])'
             /\ k < Len(streams'[n]) => streams'[n][k].isFinished
    BY <1>1, <1>2 DEF AllCounted
<1>3. CASE ~IsSegment(p)
    BY <1>2, <1>3 DEF AddPacket
<1>4. CASE IsSegment(p) /\ n # Holder(p)
    BY <1>2, <1>4, AddLands
<1>5. CASE IsSegment(p) /\ n = Holder(p)
    <2>1. PICK l \in Nat \ {0} :
            /\ l \in {Len(streams[n]), Len(streams[n]) + 1}
            /\ Len(streams'[n]) = l
            /\ \A i \in 1..l - 1 : streams'[n][i] = streams[n][i]
            /\ Landing(n, Len(packetHeaders) + 1, l)
        BY <1>5, AddLands
    <2>2. streams'[n] \in Seq(Connection) /\ streams[n] \in Seq(Connection)
        BY <1>5, AddLands DEF StreamsTypeOK
    <2>3. CASE k # l
        <3>1. k \in DOMAIN streams[n] /\ streams'[n][k] = streams[n][k] /\ k < l
            BY <2>1, <2>2, <2>3
        <3>2. k < Len(streams[n]) => streams[n][k].isFinished
            BY <3>1 DEF AllCounted
        <3>3. streams[n][k].isFinished
            BY <2>1, <2>2, <3>1, <3>2 DEF Landing
        <3> QED
            BY <1>1, <3>1, <3>3
    <2>4. CASE k = l
        <3>1. streams'[n][l] = Receive(Base(n, l), Len(packetHeaders) + 1, HeaderRead(p))
            BY <1>5, <2>1, AddReceives
        <3> PICK b \in Connection : /\ b = Base(n, l) /\ InFile(b) /\ Counted(b) /\ NotOver(b)
                                    /\ ~b.isFinished
            <4>1. CASE l = Len(streams[n])
                <5> PICK c \in Connection : c = streams[n][l]
                    BY <2>1, <2>2, <4>1
                <5>1. l \in DOMAIN streams[n]
                    BY <2>1, <2>2, <4>1
                <5>2. InFile(c) /\ c.packets # <<>> /\ Counted(c) /\ OverAtLast(c)
                    BY <5>1, PlacedInFile DEF AllCounted, AllPlaced, Placed
                <5>3. ~c.isFinished
                    BY <2>1, <4>1 DEF Landing
                <5>4. NotOver(c)
                    BY <5>2, <5>3, OpenNotOver
                <5> QED
                    BY <4>1, <5>2, <5>3, <5>4 DEF Base
            <4>2. CASE l # Len(streams[n])
                BY <4>2, NewCounted DEF Base
            <4> QED
                BY <4>1, <4>2
        <3> PICK c \in Connection : c = streams'[n][l]
            BY <2>1, <2>2, <2>4
        <3>2. Counted(c)' /\ OverAtLast(c)'
            BY <3>1, ReceiveReason
        <3>3. ~(k < Len(streams'[n]))
            BY <2>1, <2>4
        <3> QED
            BY <2>4, <3>2, <3>3 DEF Counted, OverAtLast
    <2> QED
        BY <2>3, <2>4
<1> QED
    BY <1>3, <1>4, <1>5

LEMMA StepCounted == IInv /\ AllCounted /\ [Next]_vars => AllCounted'
<1> SUFFICES ASSUME IInv, AllCounted, [Next]_vars PROVE AllCounted'
    OBVIOUS
<1>1. ASSUME NEW p \in Packets, AddPacket(p)
      PROVE  AllCounted'
    BY <1>1, CountedStep DEF IInv
<1>2. CASE FinishedAdding
    <2>1. \A n \in Names : DOMAIN streams'[n] = {}
        BY <1>2 DEF FinishedAdding
    <2> QED
        BY <2>1 DEF AllCounted
<1>3. CASE UNCHANGED vars
    <2>1. streams' = streams /\ \A c : \A j : FlagsAt(c, j)' = FlagsAt(c, j)
        BY <1>3 DEF vars, FlagsAt
    <2>2. \A c : \A j : FinsUpTo(c, j)' = FinsUpTo(c, j)
        BY <2>1 DEF FinsUpTo
    <2>3. \A c : \A j : EndsAt(c, j)' = EndsAt(c, j)
        BY <2>1, <2>2 DEF EndsAt
    <2>4. \A c : Counted(c)' = Counted(c) /\ OverAtLast(c)' = OverAtLast(c)
        BY <2>2, <2>3 DEF Counted, OverAtLast
    <2> QED
        BY <2>1, <2>4 DEF AllCounted
<1> QED
    BY <1>1, <1>2, <1>3 DEF Next

(* A connection is over exactly when its last segment reset it or was a    *)
(* SYN after two FINs, and none before the last could have ended it, for   *)
(* any file and any width of the counter that can hold its FINs.           *)
THEOREM EndsAreReasons == Spec => []EndsForAReason
<1>1. Init => AllCounted
    BY DEF Init, AllCounted
<1>2. IInv /\ AllCounted => EndsForAReason
    <2> SUFFICES ASSUME IInv, AllCounted, NEW n \in Names, NEW k \in DOMAIN streams[n]
                 PROVE  /\ streams[n][k].packets # <<>>
                        /\ OverAtLast(streams[n][k])
                        /\ k < Len(streams[n]) => streams[n][k].isFinished
        BY DEF EndsForAReason
    <2> QED
        BY DEF IInv, AllPlaced, Placed, AllCounted
<1>3. Spec => []AllCounted
    BY <1>1, StepCounted, Invariance, PTL DEF Spec
<1> QED
    BY <1>2, <1>3, Invariance, PTL

-----------------------------------------------------------------------------
(* The recursive functions of the model are what they read as.             *)
Sizes(line, f, n) ==
    f = [i \in 0 .. n |-> IF i = 0 THEN 0 ELSE f[i - 1] + Bytes[line[i]]]

LEMMA SizeOfEmpty ==
    ASSUME NEW line, Len(line) = 0
    PROVE  SizeOf(line) = 0
<1> DEFINE g == [i \in 0 .. 0 |-> 0]
<1>1. Sizes(line, g, 0)
    BY DEF Sizes
<1>2. PICK f : Sizes(line, f, 0) /\ f = CHOOSE e : Sizes(line, e, 0)
    BY <1>1
<1>3. f[0] = 0
    BY <1>2 DEF Sizes
<1> QED BY <1>2, <1>3 DEF SizeOf, Sizes

LEMMA SizeOfOne ==
    ASSUME NEW line, Len(line) = 1, Bytes[line[1]] \in Nat
    PROVE  SizeOf(line) = Bytes[line[1]]
<1> DEFINE g == [i \in 0 .. 1 |-> IF i = 0 THEN 0 ELSE Bytes[line[1]]]
<1>1. Sizes(line, g, 1)
    BY DEF Sizes
<1>2. PICK f : Sizes(line, f, 1) /\ f = CHOOSE e : Sizes(line, e, 1)
    BY <1>1
<1>3. f[0] = 0 /\ f[1] = Bytes[line[1]]
    BY <1>2 DEF Sizes
<1> QED BY <1>2, <1>3 DEF SizeOf, Sizes

Runs(payload, f, n) ==
    f = [i \in 0 .. n |-> IF i = 0 THEN Beginning ELSE Step(f[i - 1], payload[i], i)]

LEMMA RunExists ==
    ASSUME NEW payload, NEW n \in Nat
    PROVE  \E f : Runs(payload, f, n)
<1> DEFINE B == {i \in Nat : \E f : Runs(payload, f, i)}
<1>1. 0 \in B
    <2> DEFINE f == [i \in 0 .. 0 |-> Beginning]
    <2>1. Runs(payload, f, 0)
        BY DEF Runs
    <2> QED BY <2>1
<1>2. ASSUME NEW i \in 1 .. n, i - 1 \in B
      PROVE  i \in B
    <2>1. PICK f : Runs(payload, f, i - 1)
        BY <1>2
    <2> DEFINE g == [j \in 0 .. i |-> IF j = i THEN Step(f[i - 1], payload[i], i) ELSE f[j]]
    <2>2. \A j \in 0 .. i - 1 : g[j] = f[j]
        OBVIOUS
    <2>3. \A j \in 0 .. i - 1 :
            f[j] = IF j = 0 THEN Beginning ELSE Step(f[j - 1], payload[j], j)
        BY <2>1 DEF Runs
    <2>4. \A j \in 0 .. i :
            g[j] = IF j = 0 THEN Beginning ELSE Step(g[j - 1], payload[j], j)
        <3> TAKE j \in 0 .. i
        <3>1. CASE j = i
            <4>1. g[j - 1] = f[i - 1] /\ g[j] = Step(f[i - 1], payload[i], i) /\ j # 0
                BY <3>1, <2>2
            <4> QED BY <3>1, <4>1
        <3>2. CASE j # i
            <4>1. j \in 0 .. i - 1 /\ (j # 0 => j - 1 \in 0 .. i - 1)
                BY <3>2
            <4>2. g[j] = f[j] /\ (j # 0 => g[j - 1] = f[j - 1])
                BY <4>1, <2>2
            <4> HIDE DEF g
            <4> QED BY <4>1, <4>2, <2>3
        <3> QED BY <3>1, <3>2
    <2>5. g = [j \in 0 .. i |-> g[j]]
        OBVIOUS
    <2>6. Runs(payload, g, i)
        <3> HIDE DEF g
        <3> QED BY <2>4, <2>5 DEF Runs
    <2> QED BY <2>6
<1>3. 0 .. n \subseteq B
    <2> HIDE DEF B
    <2> QED BY <1>1, <1>2, UpTo
<1> QED BY <1>3

(* The state of the parser after each symbol.                              *)
LEMMA ParsedRuns ==
    ASSUME NEW payload, Len(payload) \in Nat
    PROVE  /\ Parsed(payload)[0] = Beginning
           /\ \A i \in 1 .. Len(payload) :
                 Parsed(payload)[i] = Step(Parsed(payload)[i - 1], payload[i], i)
<1>1. PICK f : Runs(payload, f, Len(payload))
    BY RunExists
<1>2. Parsed(payload) = CHOOSE g : Runs(payload, g, Len(payload))
    BY DEF Parsed, Runs
<1>3. Runs(payload, Parsed(payload), Len(payload))
    BY <1>1, <1>2
<1> HIDE DEF Parsed
<1> DEFINE h == Parsed(payload)
<1>4. h[0] = Beginning
    BY <1>3 DEF Runs
<1>5. \A i \in 1 .. Len(payload) : h[i] = Step(h[i - 1], payload[i], i)
    BY <1>3 DEF Runs
<1> QED BY <1>4, <1>5

-----------------------------------------------------------------------------
(* The parser: what it keeps at every byte.                                *)
Layer == [name : Seq(Symbols), file : Nat, size : Nat, location : Nat]
State ==
    [outcome : {"run", "broken off", "not http"}, buffer : Seq(Symbols), lineAt : Nat,
     wasEndline : BOOLEAN, spaces : Nat, identified : BOOLEAN, layer : Layer,
     layers : Seq(Layer), summary : Seq(Nat), skip : Nat]

LEMMA LengthType ==
    ASSUME NEW c \in DOMAIN ContentLength
    PROVE  ContentLength[c] \in Nat
BY DEF ContentLength

LEMMA BeginningType == Beginning \in State /\ NoLayer \in Layer
<1>1. <<>> \in Seq(Symbols) /\ <<>> \in Seq(Layer) /\ <<>> \in Seq(Nat)
    OBVIOUS
<1>2. NoLayer \in Layer
    BY <1>1 DEF NoLayer, Layer
<1> HIDE DEF Layer
<1> QED BY <1>1, <1>2 DEF Beginning, State

LEMMA PushType ==
    ASSUME NEW s \in State
    PROVE  /\ PushLayer(s) \in State
           /\ PushLayer(s) = [s EXCEPT !.layers = Append(s.layers, s.layer),
                                       !.layer = NoLayer, !.identified = FALSE]
<1>1. s.layers \in Seq(Layer) /\ s.layer \in Layer
    BY DEF State
<1>2. Append(s.layers, s.layer) \in Seq(Layer)
    BY <1>1, AppendProperties
<1> QED BY <1>2, BeginningType DEF PushLayer, State

LEMMA TakeType ==
    ASSUME NEW s \in State, s.layer.size > 0, NEW i \in Nat
    PROVE  TakeBody(s, i) \in State
<1>1. s.layers \in Seq(Layer) /\ s.layer \in Layer /\ s.layer.size \in Nat
    BY DEF State, Layer
<1> DEFINE named == IF s.layers # <<>> /\ Last(s.layers).file # 0
                    THEN [s.layer EXCEPT !.file = Last(s.layers).file, !.location = i]
                    ELSE [s.layer EXCEPT !.location = i]
<1>2. s.layers # <<>> => Last(s.layers) \in Layer
    BY <1>1 DEF Last
<1>3. named \in Layer
    BY <1>1, <1>2 DEF Layer
<1> HIDE DEF named
<1>4. [s EXCEPT !.layer = named] \in State
    BY <1>3 DEF State
<1>5. PushLayer([s EXCEPT !.layer = named]) \in State
    BY <1>4, PushType
<1>6. s.layer.size - 1 \in Nat /\ <<>> \in Seq(Symbols)
    BY <1>1
<1>7. TakeBody(s, i) = [PushLayer([s EXCEPT !.layer = named]) EXCEPT
                            !.skip = s.layer.size - 1, !.buffer = <<>>]
    BY Zenon DEF TakeBody, named
<1> HIDE DEF PushLayer
<1> QED BY <1>5, <1>6, <1>7 DEF State

LEMMA ReadType ==
    ASSUME NEW s \in State
    PROVE  ReadLine(s) \in State
<1>1. s.layer \in Layer /\ s.buffer \in Seq(Symbols) /\ s.summary \in Seq(Nat) /\ s.lineAt \in Nat
    BY DEF State
<1>2. Declares(s.buffer) => ContentLength[s.buffer[1]] \in Nat
    BY LengthType DEF Declares
<1>3. Append(s.summary, s.lineAt) \in Seq(Nat)
    BY <1>1, AppendProperties
<1>4. ASSUME Declares(s.buffer)
      PROVE  [s.layer EXCEPT !.size = ContentLength[s.buffer[1]]] \in Layer
    BY <1>1, <1>2, <1>4 DEF Layer
<1>5. /\ [s.layer EXCEPT !.name = s.buffer] \in Layer
      /\ [[s.layer EXCEPT !.name = s.buffer] EXCEPT !.file = s.lineAt] \in Layer
    BY <1>1 DEF Layer
<1> QED BY <1>1, <1>3, <1>4, <1>5 DEF ReadLine, State

LEMMA StoreType ==
    ASSUME NEW s \in State, NEW c \in Symbols
    PROVE  /\ Store(s, c) \in State
           /\ \/ Store(s, c) = [s EXCEPT !.outcome = "not http"]
              \/ Store(s, c) = [s EXCEPT !.buffer = Append(s.buffer, c)]
<1>1. Append(s.buffer, c) \in Seq(Symbols)
    BY AppendProperties DEF State
<1> QED BY <1>1 DEF Store, State

LEMMA StateParts ==
    ASSUME NEW s \in State
    PROVE  /\ s.buffer \in Seq(Symbols) /\ s.lineAt \in Nat /\ s.spaces \in Nat
           /\ s.layer \in Layer /\ s.layers \in Seq(Layer) /\ s.summary \in Seq(Nat)
           /\ s.skip \in Nat /\ s.wasEndline \in BOOLEAN /\ s.identified \in BOOLEAN
           /\ s.layer.name \in Seq(Symbols) /\ s.layer.file \in Nat
           /\ s.layer.size \in Nat /\ s.layer.location \in Nat
<1>1. s.layer \in Layer
    BY DEF State
<1> QED BY <1>1 DEF State, Layer

(* A request line that has named a file is among those handed over.        *)
Noted(s, at) == \E j \in 1 .. Len(s.summary) : s.summary[j] = at
FileKnown(s, i, layer) == layer.file # 0 => layer.file <= i /\ Noted(s, layer.file)

(* While a head is read, the line ends counted are those just behind.      *)
EndlinesCounted(payload, i, s) ==
    s.outcome = "run" /\ s.identified =>
        /\ s.spaces >= 2 => i >= 1 /\ payload[i] = "eol"
        /\ s.spaces >= 4 => i >= 2 /\ payload[i - 1] = "eol"

BehindHead(payload, i, layer) ==
    /\ layer.location \in 3 .. i
    /\ payload[layer.location] # "eol"
    /\ payload[layer.location - 1] = "eol"
    /\ payload[layer.location - 2] = "eol"
    /\ layer.file < layer.location

(* Behind a body nothing is read: the next symbol breaks the parser off.   *)
Done(s) == s.outcome = "run" => ~s.identified /\ s.buffer = <<>> /\ s.wasEndline
LayerSane(payload, i, s, k) ==
    /\ FileKnown(s, i, s.layers[k])
    /\ s.layers[k].size # 0 =>
          k = Len(s.layers) /\ BehindHead(payload, i, s.layers[k]) /\ Done(s)
LayersSane(payload, i, s) == \A k \in 1 .. Len(s.layers) : LayerSane(payload, i, s, k)

Sane(payload, i, s) ==
    /\ s \in State
    /\ s.lineAt <= i + 1
    /\ s.outcome = "run" /\ s.wasEndline => s.lineAt <= i
    /\ s.outcome = "run" /\ ~s.wasEndline => s.spaces = 0
    /\ s.outcome = "run" /\ s.skip > 0 => ~s.identified
    /\ FileKnown(s, i, s.layer)
    /\ EndlinesCounted(payload, i, s)
    /\ LayersSane(payload, i, s)

LEMMA BeginningSane ==
    ASSUME NEW payload
    PROVE  Sane(payload, 0, Beginning)
<1>1. /\ Beginning.layers = <<>> /\ Beginning.layer.file = 0 /\ ~Beginning.wasEndline
      /\ ~Beginning.identified /\ Beginning.spaces = 0 /\ Beginning.lineAt = 1
    BY DEF Beginning, NoLayer
<1>2. Len(<<>>) = 0
    OBVIOUS
<1> QED BY <1>1, <1>2, BeginningType DEF Sane, FileKnown, EndlinesCounted, LayersSane

(* A step that adds no layer and forgets no file leaves the layers sane.   *)
Remembers(s, r) == \A at \in Nat : Noted(s, at) => Noted(r, at)

LEMMA FileStays ==
    ASSUME NEW s, NEW r, NEW i \in Nat, NEW j \in Nat, i <= j,
           NEW layer, layer.file \in Nat, FileKnown(s, i, layer), Remembers(s, r)
    PROVE  FileKnown(r, j, layer)
<1>1. layer.file # 0 => layer.file <= j
    BY DEF FileKnown
<1>2. layer.file # 0 => Noted(r, layer.file)
    BY Zenon DEF FileKnown, Remembers
<1> QED BY <1>1, <1>2 DEF FileKnown

LEMMA LayersStay ==
    ASSUME NEW payload, NEW i \in Nat, NEW j \in Nat, i <= j, NEW s \in State, NEW r \in State,
           LayersSane(payload, i, s), r.layers = s.layers, Remembers(s, r),
           Done(s) => Done(r)
    PROVE  LayersSane(payload, j, r)
<1> SUFFICES ASSUME NEW k \in 1 .. Len(s.layers)
             PROVE  LayerSane(payload, j, r, k)
    BY DEF LayersSane
<1>1. LayerSane(payload, i, s, k)
    BY DEF LayersSane
<1>2. s.layers \in Seq(Layer)
    BY DEF State
<1>3. s.layers[k] \in Layer
    BY <1>2
<1>4. s.layers[k].file \in Nat /\ s.layers[k].location \in Nat
    BY <1>3 DEF Layer
<1>5. FileKnown(r, j, s.layers[k])
    BY <1>1, <1>4, FileStays DEF LayerSane
<1>6. BehindHead(payload, i, s.layers[k]) => BehindHead(payload, j, s.layers[k])
    BY <1>4 DEF BehindHead
<1> HIDE DEF FileKnown, BehindHead, Done
<1> QED BY <1>1, <1>5, <1>6 DEF LayerSane

LEMMA RemembersSame ==
    ASSUME NEW s, NEW r, r.summary = s.summary
    PROVE  Remembers(s, r)
BY DEF Remembers, Noted

LEMMA RemembersMore ==
    ASSUME NEW s \in State, NEW r, r.summary = Append(s.summary, s.lineAt)
    PROVE  Remembers(s, r) /\ Noted(r, s.lineAt)
<1>1. s.summary \in Seq(Nat) /\ s.lineAt \in Nat
    BY DEF State
<1>2. /\ Len(r.summary) = Len(s.summary) + 1 /\ Len(s.summary) \in Nat
      /\ \A j \in 1 .. Len(s.summary) : r.summary[j] = s.summary[j]
      /\ r.summary[Len(s.summary) + 1] = s.lineAt
    BY <1>1, AppendProperties
<1>3. Remembers(s, r)
    BY <1>2 DEF Remembers, Noted
<1>4. Len(s.summary) + 1 \in 1 .. Len(r.summary)
    BY <1>2
<1> QED BY <1>2, <1>3, <1>4 DEF Noted

(* Steps that keep the layer being read and add no layer.                  *)
Skipped(s) == [s EXCEPT !.skip = s.skip - 1]
LineEnded(s) == [s EXCEPT !.wasEndline = TRUE, !.spaces = s.spaces + 2]

LEMMA SkipSane ==
    ASSUME NEW payload, NEW i \in Nat, NEW s, Sane(payload, i, s), s.outcome = "run", s.skip > 0
    PROVE  Sane(payload, i + 1, Skipped(s))
<1> DEFINE r == [s EXCEPT !.skip = s.skip - 1]
<1>0. s \in State /\ ~s.identified
    BY DEF Sane
<1>1. /\ s.skip \in Nat /\ s.lineAt \in Nat /\ s.layer \in Layer
      /\ s.skip - 1 \in Nat /\ s.layer.file \in Nat
    BY <1>0, StateParts
<1>2. r \in State /\ r.layers = s.layers /\ r.summary = s.summary /\ r.layer = s.layer
      /\ r.identified = s.identified /\ r.buffer = s.buffer /\ r.wasEndline = s.wasEndline
      /\ r.lineAt = s.lineAt /\ r.spaces = s.spaces /\ r.outcome = s.outcome
    BY <1>0, <1>1 DEF State
<1> HIDE DEF r
<1>3. Remembers(s, r)
    BY <1>2, RemembersSame
<1>4. LayersSane(payload, i + 1, r)
    <2>1. Done(s) => Done(r)
        BY <1>2 DEF Done
    <2> QED BY <1>0, <1>2, <1>3, <2>1, LayersStay DEF Sane
<1>5. FileKnown(r, i + 1, r.layer)
    <2>1. FileKnown(s, i, s.layer)
        BY DEF Sane
    <2>2. FileKnown(r, i + 1, s.layer)
        BY <1>1, <1>3, <2>1, FileStays
    <2> QED BY <1>2, <2>2
<1>6. EndlinesCounted(payload, i + 1, r)
    BY <1>0, <1>2 DEF EndlinesCounted
<1>7. /\ r.lineAt <= i + 1
      /\ ~r.wasEndline => r.spaces = 0
      /\ ~r.identified
    <2>1. /\ ~s.wasEndline => s.spaces = 0
          /\ s.lineAt <= i + 1
        BY DEF Sane
    <2> QED BY <1>0, <1>2, <2>1
<1>8. i + 1 <= (i + 1) + 1 /\ r.lineAt <= (i + 1) + 1
    BY <1>1, <1>2, <1>7
<1> HIDE DEF FileKnown, EndlinesCounted, LayersSane
<1> QED BY <1>2, <1>4, <1>5, <1>6, <1>7, <1>8 DEF Sane, r, Skipped

LEMMA EolSane ==
    ASSUME NEW payload, NEW i \in Nat, NEW s, Sane(payload, i, s), s.outcome = "run",
           payload[i + 1] = "eol"
    PROVE  Sane(payload, i + 1, LineEnded(s))
<1> DEFINE r == [s EXCEPT !.wasEndline = TRUE, !.spaces = s.spaces + 2]
<1>0. s \in State
    BY DEF Sane
<1>1. s.spaces + 2 \in Nat /\ s.spaces \in Nat /\ s.lineAt \in Nat /\ s.layer.file \in Nat
    BY <1>0, StateParts
<1>2. /\ r \in State /\ r.layers = s.layers /\ r.summary = s.summary /\ r.layer = s.layer
      /\ r.identified = s.identified /\ r.buffer = s.buffer /\ r.wasEndline /\ r.skip = s.skip
      /\ r.lineAt = s.lineAt /\ r.outcome = s.outcome /\ r.spaces = s.spaces + 2
    BY <1>0, <1>1 DEF State
<1> HIDE DEF r
<1>3. Remembers(s, r)
    BY <1>2, RemembersSame
<1>4. LayersSane(payload, i + 1, r)
    <2>1. Done(s) => Done(r)
        BY <1>2 DEF Done
    <2> QED BY <1>0, <1>2, <1>3, <2>1, LayersStay DEF Sane
<1>5. FileKnown(r, i + 1, r.layer)
    <2>1. FileKnown(s, i, s.layer)
        BY DEF Sane
    <2>2. i <= i + 1 /\ i + 1 \in Nat
        OBVIOUS
    <2>3. FileKnown(r, i + 1, s.layer)
        BY <1>1, <1>3, <2>1, <2>2, FileStays
    <2> QED BY <1>2, <2>3
<1>6. EndlinesCounted(payload, i + 1, r)
    <2>1. EndlinesCounted(payload, i, s)
        BY DEF Sane
    <2>2. r.spaces >= 4 => s.spaces >= 2
        BY <1>1, <1>2
    <2>3. (i + 1) - 1 = i /\ i + 1 >= 1 /\ (i >= 1 => i + 1 >= 2)
        OBVIOUS
    <2> QED BY <1>2, <2>1, <2>2, <2>3 DEF EndlinesCounted
<1>7. /\ r.lineAt <= i + 1
      /\ r.skip > 0 => ~r.identified
    <2>1. s.lineAt <= i + 1 /\ (s.skip > 0 => ~s.identified)
        BY DEF Sane
    <2> QED BY <1>2, <2>1
<1>8. r.lineAt <= (i + 1) + 1
    BY <1>1, <1>2, <1>7
<1> HIDE DEF FileKnown, EndlinesCounted, LayersSane
<1> QED BY <1>2, <1>4, <1>5, <1>6, <1>7, <1>8 DEF Sane, r, LineEnded

(* A symbol of a line: no end of line has been met since the line began.   *)
LEMMA StoreSane ==
    ASSUME NEW payload, NEW i \in Nat, NEW s, s \in State, NEW c \in Symbols,
           s.outcome = "run", ~s.wasEndline, s.spaces = 0, s.lineAt <= i + 1, s.skip = 0,
           FileKnown(s, i, s.layer), LayersSane(payload, i, s)
    PROVE  Sane(payload, i + 1, Store(s, c))
<1> DEFINE r == Store(s, c)
<1>1. s.lineAt \in Nat /\ s.layer.file \in Nat
    BY StateParts
<1>2. /\ r \in State /\ r.layers = s.layers /\ r.summary = s.summary /\ r.layer = s.layer
      /\ ~r.wasEndline /\ r.skip = 0 /\ r.lineAt = s.lineAt /\ r.spaces = 0
    <2>1. r \in State
        BY StoreType
    <2>2. CASE r = [s EXCEPT !.outcome = "not http"]
        BY <2>1, <2>2 DEF State
    <2>3. CASE r = [s EXCEPT !.buffer = Append(s.buffer, c)]
        BY <2>1, <2>3 DEF State
    <2> HIDE DEF r
    <2> QED BY <2>2, <2>3, StoreType DEF r
<1> HIDE DEF r
<1>3. Remembers(s, r)
    BY <1>2, RemembersSame
<1>4. LayersSane(payload, i + 1, r)
    <2>1. ~Done(s)
        BY DEF Done
    <2> QED BY <1>2, <1>3, <2>1, LayersStay
<1>5. FileKnown(r, i + 1, r.layer)
    BY <1>1, <1>2, <1>3, FileStays
<1>6. EndlinesCounted(payload, i + 1, r)
    BY <1>2 DEF EndlinesCounted
<1>7. r.lineAt <= (i + 1) + 1
    BY <1>1, <1>2
<1>8. ~(r.skip > 0)
    BY <1>2
<1> HIDE DEF FileKnown, EndlinesCounted, LayersSane
<1> QED BY <1>2, <1>4, <1>5, <1>6, <1>7, <1>8 DEF Sane, r

(* What a line that has ended makes of the head.                           *)
LEMMA ReadFacts ==
    ASSUME NEW i \in Nat, NEW s \in State, s.outcome = "run", s.lineAt <= i,
           FileKnown(s, i, s.layer)
    PROVE  /\ ReadLine(s) \in State
           /\ ReadLine(s).layers = s.layers /\ ReadLine(s).skip = s.skip
           /\ ReadLine(s).lineAt = s.lineAt
           /\ Remembers(s, ReadLine(s))
           /\ FileKnown(ReadLine(s), i, ReadLine(s).layer)
           /\ ReadLine(s).outcome \in {"run", "broken off"}
           /\ Done(s) => ReadLine(s).outcome # "run"
<1> DEFINE r == ReadLine(s)
<1>0. r \in State /\ Remembers(s, s)
    BY ReadType, RemembersSame
<1>1. CASE s.identified /\ Declares(s.buffer)
    <2>1. r = [s EXCEPT !.layer.size = ContentLength[s.buffer[1]]]
        BY <1>1 DEF ReadLine
    <2> HIDE DEF r
    <2>2. /\ r.layers = s.layers /\ r.skip = s.skip /\ r.lineAt = s.lineAt /\ r.summary = s.summary
          /\ r.outcome = "run" /\ r.layer.file = s.layer.file
        BY <2>1 DEF State, Layer
    <2>3. Remembers(s, r) /\ FileKnown(r, i, r.layer)
        BY <2>2, RemembersSame DEF FileKnown, Noted
    <2>4. ~Done(s)
        BY <1>1 DEF Done
    <2> QED BY <1>0, <2>2, <2>3, <2>4 DEF r
<1>2. CASE s.identified /\ ~Declares(s.buffer)
    <2>1. r = s
        BY <1>2 DEF ReadLine
    <2>2. ~Done(s)
        BY <1>2 DEF Done
    <2> QED BY <1>0, <2>1, <2>2
<1>3. CASE ~s.identified /\ TooShort(s.buffer)
    <2>1. r = [s EXCEPT !.outcome = "broken off"]
        BY <1>3 DEF ReadLine
    <2> HIDE DEF r
    <2>2. /\ r.layers = s.layers /\ r.skip = s.skip /\ r.lineAt = s.lineAt /\ r.summary = s.summary
          /\ r.outcome = "broken off" /\ r.layer = s.layer
        BY <2>1 DEF State
    <2>3. Remembers(s, r) /\ FileKnown(r, i, r.layer)
        BY <2>2, RemembersSame DEF FileKnown, Noted
    <2> QED BY <1>0, <2>2, <2>3 DEF r
<1>4. CASE ~s.identified /\ ~TooShort(s.buffer)
    <2>0. ~Done(s)
        <3>1. TooShort(<<>>)
            <4>1. Len(<<>>) = 0
                OBVIOUS
            <4> QED BY <4>1, SizeOfEmpty DEF TooShort, PatternSize
        <3> QED BY <1>4, <3>1 DEF Done
    <2>1. CASE r = s
        BY <1>0, <2>0, <2>1
    <2>2. CASE r = [s EXCEPT !.identified = TRUE, !.layer.name = s.buffer]
        <3> HIDE DEF r
        <3>1. /\ r.layers = s.layers /\ r.skip = s.skip /\ r.lineAt = s.lineAt /\ r.summary = s.summary
              /\ r.outcome = "run" /\ r.layer.file = s.layer.file
            BY <2>2 DEF State, Layer
        <3>2. Remembers(s, r) /\ FileKnown(r, i, r.layer)
            BY <3>1, RemembersSame DEF FileKnown, Noted
        <3> QED BY <1>0, <2>0, <3>1, <3>2 DEF r
    <2>3. CASE r = [s EXCEPT !.identified = TRUE, !.layer.name = s.buffer,
                             !.layer.file = s.lineAt, !.summary = Append(@, s.lineAt)]
        <3> HIDE DEF r
        <3>1. /\ r.layers = s.layers /\ r.skip = s.skip /\ r.lineAt = s.lineAt
              /\ r.summary = Append(s.summary, s.lineAt)
              /\ r.outcome = "run" /\ r.layer.file = s.lineAt
            BY <2>3 DEF State, Layer
        <3>2. Remembers(s, r) /\ FileKnown(r, i, r.layer)
            BY <3>1, RemembersMore DEF FileKnown
        <3> QED BY <1>0, <2>0, <3>1, <3>2 DEF r
    <2>4. \/ r = s
          \/ r = [s EXCEPT !.identified = TRUE, !.layer.name = s.buffer]
          \/ r = [s EXCEPT !.identified = TRUE, !.layer.name = s.buffer,
                            !.layer.file = s.lineAt, !.summary = Append(@, s.lineAt)]
        <3>1. CASE IsStatus(s.buffer)
            BY <1>4, <3>1 DEF ReadLine
        <3>2. CASE ~IsStatus(s.buffer) /\ IsRequest(s.buffer)
            BY <1>4, <3>2 DEF ReadLine
        <3>3. CASE ~IsStatus(s.buffer) /\ ~IsRequest(s.buffer)
            BY <1>4, <3>3 DEF ReadLine
        <3> QED BY <3>1, <3>2, <3>3
    <2> QED BY <2>1, <2>2, <2>3, <2>4
<1> QED BY <1>1, <1>2, <1>3, <1>4

(* A head that ends without a body is one layer more.                      *)
LEMMA PushFacts ==
    ASSUME NEW payload, NEW i \in Nat, NEW s, Sane(payload, i, s), s.outcome = "run",
           s.identified, s.layer.size = 0
    PROVE  /\ PushLayer(s) \in State
           /\ PushLayer(s).outcome = "run" /\ PushLayer(s).lineAt = s.lineAt
           /\ PushLayer(s).skip = s.skip /\ PushLayer(s).buffer = s.buffer
           /\ ~PushLayer(s).identified
           /\ FileKnown(PushLayer(s), i, PushLayer(s).layer)
           /\ LayersSane(payload, i, PushLayer(s))
<1> DEFINE r == PushLayer(s)
<1>0. s \in State /\ ~Done(s)
    BY DEF Sane, Done
<1>1. r = [s EXCEPT !.layers = Append(s.layers, s.layer), !.layer = NoLayer, !.identified = FALSE]
    BY <1>0, PushType
<1>2. r \in State
    BY <1>0, PushType
<1> HIDE DEF r
<1>3. /\ r.outcome = "run" /\ r.lineAt = s.lineAt /\ r.skip = s.skip /\ r.buffer = s.buffer
      /\ ~r.identified /\ r.layer = NoLayer /\ r.layers = Append(s.layers, s.layer)
      /\ r.summary = s.summary
    BY <1>0, <1>1 DEF State
<1>4. NoLayer.file = 0
    BY DEF NoLayer
<1>5. FileKnown(r, i, r.layer)
    BY <1>3, <1>4 DEF FileKnown
<1>6. /\ s.layers \in Seq(Layer) /\ s.layer \in Layer
      /\ Len(r.layers) = Len(s.layers) + 1 /\ Len(s.layers) \in Nat
      /\ \A k \in 1 .. Len(s.layers) : r.layers[k] = s.layers[k]
      /\ r.layers[Len(s.layers) + 1] = s.layer
    BY <1>0, <1>3, StateParts, AppendProperties
<1>7. ASSUME NEW k \in 1 .. Len(r.layers)
      PROVE  LayerSane(payload, i, r, k)
    <2>1. CASE k = Len(s.layers) + 1
        <3>1. FileKnown(s, i, s.layer)
            BY DEF Sane
        <3>2. FileKnown(r, i, r.layers[k])
            BY <1>3, <1>6, <2>1, <3>1 DEF FileKnown, Noted
        <3> HIDE DEF FileKnown
        <3> QED BY <1>6, <2>1, <3>2 DEF LayerSane
    <2>2. CASE k # Len(s.layers) + 1
        <3>1. k \in 1 .. Len(s.layers) /\ r.layers[k] = s.layers[k]
            BY <1>6, <2>2
        <3>2. LayerSane(payload, i, s, k)
            BY <3>1 DEF Sane, LayersSane
        <3>3. r.layers[k].size = 0 /\ FileKnown(s, i, s.layers[k])
            BY <1>0, <3>1, <3>2 DEF LayerSane
        <3>4. FileKnown(r, i, r.layers[k])
            BY <1>3, <3>1, <3>3 DEF FileKnown, Noted
        <3> HIDE DEF FileKnown
        <3> QED BY <3>3, <3>4 DEF LayerSane
    <2> QED BY <2>1, <2>2
<1>8. LayersSane(payload, i, r)
    BY <1>7 DEF LayersSane
<1> HIDE DEF FileKnown, LayersSane
<1> QED BY <1>2, <1>3, <1>5, <1>8 DEF r

(* The first symbol of a line.                                             *)
LEMMA NextSane ==
    ASSUME NEW payload, NEW i \in Nat, NEW s, Sane(payload, i, s), s.outcome = "run",
           s.skip = 0, s.wasEndline, ~(AtBlankLine(s) /\ s.layer.size > 0), NEW c \in Symbols
    PROVE  Sane(payload, i + 1, NextLine(s, c, i + 1))
<1> DEFINE p == IF AtBlankLine(s) THEN PushLayer(s) ELSE s
           r == ReadLine(p)
           t == [r EXCEPT !.buffer = <<>>, !.lineAt = i + 1, !.wasEndline = FALSE, !.spaces = 0]
<1>0. s \in State /\ s.layer.size \in Nat /\ s.lineAt <= i
    BY StateParts DEF Sane
<1>1. /\ p \in State /\ p.outcome = "run" /\ p.lineAt <= i /\ p.skip = 0
      /\ FileKnown(p, i, p.layer) /\ LayersSane(payload, i, p)
    <2>1. CASE AtBlankLine(s)
        <3>1. s.layer.size = 0 /\ s.identified
            BY <1>0, <2>1 DEF AtBlankLine
        <3>2. p = PushLayer(s)
            BY <2>1
        <3> QED BY <1>0, <3>1, <3>2, PushFacts
    <2>2. CASE ~AtBlankLine(s)
        <3>1. p = s
            BY <2>2
        <3> HIDE DEF p
        <3> QED BY <1>0, <3>1 DEF Sane
    <2> QED BY <2>1, <2>2
<1> HIDE DEF p
<1>2. /\ r \in State /\ r.layers = p.layers /\ r.skip = 0 /\ r.lineAt = p.lineAt
      /\ Remembers(p, r) /\ FileKnown(r, i, r.layer)
      /\ r.outcome \in {"run", "broken off"}
      /\ Done(p) => r.outcome # "run"
    BY <1>1, ReadFacts
<1>3. NextLine(s, c, i + 1) = IF r.outcome # "run" THEN r ELSE Store(t, c)
    BY DEF NextLine, p
<1> HIDE DEF r
<1>4. CASE r.outcome # "run"
    <2>1. Done(r)
        BY <1>4 DEF Done
    <2>2. LayersSane(payload, i + 1, r)
        <3>1. i <= i + 1 /\ i + 1 \in Nat
            OBVIOUS
        <3>2. r.layers = p.layers /\ r \in State /\ Remembers(p, r)
            BY <1>2
        <3> QED BY <1>1, <2>1, <3>1, <3>2, LayersStay
    <2>3. r.layer.file \in Nat /\ Remembers(r, r)
        BY <1>2, StateParts, RemembersSame
    <2>4. FileKnown(r, i + 1, r.layer)
        <3>1. i <= i + 1 /\ i + 1 \in Nat
            OBVIOUS
        <3>2. FileKnown(r, i, r.layer)
            BY <1>2
        <3> QED BY <2>3, <3>1, <3>2, FileStays
    <2>5. EndlinesCounted(payload, i + 1, r)
        BY <1>4 DEF EndlinesCounted
    <2>6. r.lineAt <= (i + 1) + 1
        <3>1. p.lineAt \in Nat
            BY <1>1, StateParts
        <3>2. r.lineAt = p.lineAt /\ p.lineAt <= i
            BY <1>1, <1>2
        <3> QED BY <3>1, <3>2
    <2> HIDE DEF FileKnown, EndlinesCounted, LayersSane
    <2> QED BY <1>2, <1>3, <1>4, <2>2, <2>4, <2>5, <2>6 DEF Sane
<1>5. CASE r.outcome = "run"
    <2>0. <<>> \in Seq(Symbols) /\ i + 1 \in Nat
        OBVIOUS
    <2>1. /\ t \in State /\ t.layers = r.layers /\ t.summary = r.summary /\ t.layer = r.layer
          /\ t.outcome = "run" /\ ~t.wasEndline /\ t.spaces = 0 /\ t.lineAt = i + 1 /\ t.skip = 0
        BY <1>2, <1>5, <2>0 DEF State
    <2> HIDE DEF t
    <2>2. Remembers(p, t)
        <3>1. Remembers(r, t)
            BY <2>1, RemembersSame
        <3> QED BY <1>2, <3>1, Zenon DEF Remembers
    <2>3. FileKnown(t, i, t.layer)
        BY <1>2, <2>1 DEF FileKnown, Noted
    <2>4. ~Done(p)
        BY <1>2, <1>5
    <2>5. LayersSane(payload, i, t)
        <3>0. t.layers = r.layers /\ t.outcome = "run"
            BY <2>1
        <3>2. r.layers = p.layers
            BY <1>2
        <3>1. i <= i /\ t.layers = p.layers
            BY <3>0, <3>2
        <3> QED BY <1>1, <2>1, <2>2, <2>4, <3>1, LayersStay
    <2>6. Sane(payload, i + 1, Store(t, c))
        BY <2>1, <2>3, <2>5, StoreSane
    <2> QED BY <1>3, <1>5, <2>6
<1> QED BY <1>4, <1>5

(* The first symbol of a body.                                             *)
BodyPushed(s, named) ==
    [s EXCEPT !.layers = Append(s.layers, named), !.layer = NoLayer,
              !.identified = FALSE, !.skip = s.layer.size - 1, !.buffer = <<>>]

LEMMA TakeFacts ==
    ASSUME NEW payload, NEW i \in Nat, NEW s, Sane(payload, i, s), s.outcome = "run",
           s.layer.size > 0
    PROVE  \E named \in Layer :
              /\ named.name = s.layer.name /\ named.size = s.layer.size
              /\ named.location = i + 1 /\ FileKnown(s, i, named)
              /\ TakeBody(s, i + 1) = BodyPushed(s, named)
<1>0. s \in State
    BY DEF Sane
<1>1. s.layers \in Seq(Layer) /\ s.layer \in Layer /\ s.layer.size \in Nat /\ i + 1 \in Nat
    BY <1>0, StateParts
<1> DEFINE reused == s.layers # <<>> /\ Last(s.layers).file # 0
           named == IF reused
                    THEN [s.layer EXCEPT !.file = Last(s.layers).file, !.location = i + 1]
                    ELSE [s.layer EXCEPT !.location = i + 1]
           t == [s EXCEPT !.layer = named]
<1>2. s.layers # <<>> =>
         /\ Len(s.layers) \in 1 .. Len(s.layers) /\ s.layers[Len(s.layers)] \in Layer
         /\ Last(s.layers) = s.layers[Len(s.layers)]
    BY <1>1 DEF Last
<1>3. FileKnown(s, i, s.layer)
    BY DEF Sane
<1>4. s.layers # <<>> => FileKnown(s, i, Last(s.layers))
    <2>1. LayersSane(payload, i, s)
        BY DEF Sane
    <2>2. s.layers # <<>> => LayerSane(payload, i, s, Len(s.layers))
        BY <1>2, <2>1 DEF LayersSane
    <2> QED BY <1>2, <2>2 DEF LayerSane
<1>5. /\ named \in Layer /\ named.name = s.layer.name /\ named.size = s.layer.size
      /\ named.location = i + 1
      /\ named.file = IF reused THEN Last(s.layers).file ELSE s.layer.file
    <2>1. CASE reused
        <3>1. named = [s.layer EXCEPT !.file = Last(s.layers).file, !.location = i + 1]
            BY <2>1
        <3>2. Last(s.layers).file \in Nat
            BY <1>2, <2>1 DEF Layer
        <3> HIDE DEF named
        <3> QED BY <1>1, <2>1, <3>1, <3>2 DEF Layer
    <2>2. CASE ~reused
        <3>1. named = [s.layer EXCEPT !.location = i + 1]
            BY <2>2
        <3> HIDE DEF named
        <3> QED BY <1>1, <2>2, <3>1 DEF Layer
    <2> QED BY <2>1, <2>2
<1>6. FileKnown(s, i, named)
    BY <1>3, <1>4, <1>5 DEF FileKnown
<1>7. TakeBody(s, i + 1) = [PushLayer(t) EXCEPT !.skip = s.layer.size - 1, !.buffer = <<>>]
    BY Zenon DEF TakeBody
<1> HIDE DEF named
<1>8. t \in State /\ t.layers = s.layers /\ t.layer = named
    BY <1>0, <1>5 DEF State
<1>9. PushLayer(t) = [t EXCEPT !.layers = Append(s.layers, named), !.layer = NoLayer,
                               !.identified = FALSE]
    BY <1>8, PushType
<1>10. TakeBody(s, i + 1) = BodyPushed(s, named)
    BY <1>0, <1>7, <1>9 DEF State, BodyPushed
<1> QED BY <1>5, <1>6, <1>10

LEMMA TakeSane ==
    ASSUME NEW payload, NEW i \in Nat, NEW s, Sane(payload, i, s), s.outcome = "run",
           AtBlankLine(s), s.layer.size > 0, payload[i + 1] # "eol"
    PROVE  Sane(payload, i + 1, TakeBody(s, i + 1))
<1> DEFINE r == TakeBody(s, i + 1)
<1>0. s \in State /\ s.identified /\ s.wasEndline /\ s.spaces >= 4 /\ ~Done(s)
    BY DEF Sane, AtBlankLine, Done
<1>1. PICK named \in Layer :
         /\ named.name = s.layer.name /\ named.size = s.layer.size
         /\ named.location = i + 1 /\ FileKnown(s, i, named)
         /\ r = BodyPushed(s, named)
    BY TakeFacts
<1>2. r \in State
    BY <1>0, TakeType
<1> HIDE DEF r
<1>3. /\ r.outcome = "run" /\ r.lineAt = s.lineAt /\ r.wasEndline /\ r.spaces = s.spaces
      /\ ~r.identified /\ r.layer = NoLayer /\ r.layers = Append(s.layers, named)
      /\ r.summary = s.summary /\ r.buffer = <<>>
    BY <1>0, <1>1 DEF State, BodyPushed
<1>4. NoLayer.file = 0 /\ Done(r)
    BY <1>3 DEF NoLayer, Done
<1>5. FileKnown(r, i + 1, r.layer)
    BY <1>3, <1>4 DEF FileKnown
<1>6. /\ s.layers \in Seq(Layer)
      /\ Len(r.layers) = Len(s.layers) + 1 /\ Len(s.layers) \in Nat
      /\ \A k \in 1 .. Len(s.layers) : r.layers[k] = s.layers[k] /\ s.layers[k] \in Layer
      /\ r.layers[Len(s.layers) + 1] = named
    BY <1>0, <1>1, <1>3, StateParts, AppendProperties
<1>7. i <= i + 1 /\ i + 1 \in Nat /\ Remembers(s, r) /\ named.file \in Nat
    BY <1>1, <1>3, RemembersSame DEF Layer
<1>8. BehindHead(payload, i + 1, named)
    <2>1. i >= 2 /\ payload[i] = "eol" /\ payload[i - 1] = "eol"
        <3>1. EndlinesCounted(payload, i, s) /\ s.spaces \in Nat
            BY <1>0, StateParts DEF Sane
        <3> QED BY <1>0, <3>1 DEF EndlinesCounted
    <2>2. named.file < i + 1
        BY <1>1, <1>7 DEF FileKnown
    <2>3. (i + 1) - 1 = i /\ (i + 1) - 2 = i - 1 /\ i + 1 \in 3 .. i + 1
        BY <2>1
    <2> QED BY <1>1, <2>1, <2>2, <2>3 DEF BehindHead
<1>9. ASSUME NEW k \in 1 .. Len(r.layers)
      PROVE  LayerSane(payload, i + 1, r, k)
    <2>1. CASE k = Len(s.layers) + 1
        <3>1. FileKnown(r, i + 1, named)
            BY <1>1, <1>7, FileStays
        <3> HIDE DEF FileKnown, Done, BehindHead
        <3> QED BY <1>4, <1>6, <1>8, <2>1, <3>1 DEF LayerSane
    <2>2. CASE k # Len(s.layers) + 1
        <3>1. k \in 1 .. Len(s.layers) /\ r.layers[k] = s.layers[k] /\ s.layers[k] \in Layer
            BY <1>6, <2>2
        <3>2. LayerSane(payload, i, s, k)
            BY <3>1 DEF Sane, LayersSane
        <3>3. r.layers[k].size = 0 /\ FileKnown(s, i, s.layers[k]) /\ s.layers[k].file \in Nat
            BY <1>0, <3>1, <3>2 DEF LayerSane, Layer
        <3>4. FileKnown(r, i + 1, s.layers[k])
            BY <1>7, <3>3, FileStays
        <3> HIDE DEF FileKnown
        <3> QED BY <3>1, <3>3, <3>4 DEF LayerSane
    <2> QED BY <2>1, <2>2
<1>10. LayersSane(payload, i + 1, r)
    BY <1>9 DEF LayersSane
<1>11. EndlinesCounted(payload, i + 1, r)
    BY <1>3 DEF EndlinesCounted
<1>12. r.lineAt <= i + 1 /\ r.lineAt <= (i + 1) + 1
    <2>1. s.lineAt <= i /\ s.lineAt \in Nat
        BY <1>0, StateParts DEF Sane
    <2> QED BY <1>3, <2>1
<1> HIDE DEF FileKnown, EndlinesCounted, LayersSane
<1> QED BY <1>2, <1>3, <1>5, <1>10, <1>11, <1>12 DEF Sane, r

LEMMA StepSane ==
    ASSUME NEW payload, NEW i \in Nat, NEW s, Sane(payload, i, s), payload[i + 1] \in Symbols
    PROVE  Sane(payload, i + 1, Step(s, payload[i + 1], i + 1))
<1> DEFINE c == payload[i + 1]
<1>0. s \in State /\ s.skip \in Nat
    BY StateParts DEF Sane
<1>1. CASE s.outcome # "run"
    <2>1. Step(s, c, i + 1) = s
        BY <1>1 DEF Step
    <2>2. i <= i + 1 /\ i + 1 \in Nat /\ Remembers(s, s) /\ Done(s)
        BY <1>1, RemembersSame DEF Done
    <2>3. LayersSane(payload, i + 1, s)
        BY <1>0, <2>2, LayersStay DEF Sane
    <2>4. FileKnown(s, i, s.layer) /\ s.layer.file \in Nat /\ s.lineAt <= i + 1 /\ s.lineAt \in Nat
        BY <1>0, StateParts DEF Sane
    <2>5. FileKnown(s, i + 1, s.layer)
        BY <2>2, <2>4, FileStays
    <2>6. EndlinesCounted(payload, i + 1, s)
        BY <1>1 DEF EndlinesCounted
    <2>7. s.lineAt <= (i + 1) + 1
        BY <2>4
    <2> HIDE DEF FileKnown, EndlinesCounted, LayersSane
    <2> QED BY <1>0, <1>1, <2>1, <2>3, <2>5, <2>6, <2>7 DEF Sane
<1>2. CASE s.outcome = "run" /\ s.skip > 0
    <2>1. Step(s, c, i + 1) = Skipped(s)
        BY <1>0, <1>2 DEF Step, Skipped
    <2> QED BY <1>2, <2>1, SkipSane
<1>3. CASE s.outcome = "run" /\ s.skip = 0 /\ c = "eol"
    <2>1. Step(s, c, i + 1) = LineEnded(s)
        BY <1>0, <1>3 DEF Step, LineEnded
    <2> QED BY <1>3, <2>1, EolSane
<1>4. CASE s.outcome = "run" /\ s.skip = 0 /\ c # "eol"
    <2>1. CASE AtBlankLine(s) /\ s.layer.size > 0
        <3>0. s.wasEndline
            BY <2>1 DEF AtBlankLine
        <3>1. Step(s, c, i + 1) = TakeBody(s, i + 1)
            BY <1>4, <2>1, <3>0 DEF Step
        <3> QED BY <1>4, <2>1, <3>1, TakeSane
    <2>2. CASE s.wasEndline /\ ~(AtBlankLine(s) /\ s.layer.size > 0)
        <3>1. Step(s, c, i + 1) = NextLine(s, c, i + 1)
            BY <1>4, <2>2 DEF Step
        <3> QED BY <1>4, <2>2, <3>1, NextSane
    <2>3. CASE ~s.wasEndline
        <3>0. ~AtBlankLine(s)
            BY <2>3 DEF AtBlankLine
        <3>1. Step(s, c, i + 1) = Store(s, c)
            BY <1>4, <2>3, <3>0 DEF Step
        <3>2. /\ s.spaces = 0 /\ s.lineAt <= i + 1
              /\ FileKnown(s, i, s.layer) /\ LayersSane(payload, i, s)
            BY <1>4, <2>3 DEF Sane
        <3> QED BY <1>0, <1>4, <2>3, <3>1, <3>2, StoreSane
    <2> QED BY <2>1, <2>2, <2>3
<1> QED BY <1>0, <1>1, <1>2, <1>3, <1>4

LEMMA ParsedSane ==
    ASSUME NEW payload \in Seq(Symbols)
    PROVE  \A i \in 0 .. Len(payload) : Sane(payload, i, Parsed(payload)[i])
<1> DEFINE B == {i \in 0 .. Len(payload) : Sane(payload, i, Parsed(payload)[i])}
<1>0. Len(payload) \in Nat
    OBVIOUS
<1>1. 0 \in B
    BY <1>0, ParsedRuns, BeginningSane
<1>2. ASSUME NEW i \in 1 .. Len(payload), i - 1 \in B
      PROVE  i \in B
    <2>1. Parsed(payload)[i] = Step(Parsed(payload)[i - 1], payload[i], i)
        BY <1>0, ParsedRuns
    <2>2. Sane(payload, i - 1, Parsed(payload)[i - 1])
        BY <1>2
    <2>3. i - 1 \in Nat /\ (i - 1) + 1 = i /\ payload[i] \in Symbols
        OBVIOUS
    <2>4. Sane(payload, (i - 1) + 1, Step(Parsed(payload)[i - 1], payload[(i - 1) + 1], (i - 1) + 1))
        BY <2>2, <2>3, StepSane
    <2> QED BY <2>1, <2>3, <2>4
<1>3. 0 .. Len(payload) \subseteq B
    <2> HIDE DEF B
    <2> QED BY <1>0, <1>1, <1>2, UpTo
<1> QED BY <1>3

-----------------------------------------------------------------------------
(* What is shown.                                                          *)
Sent(packets) == [i \in DOMAIN packets |-> HeaderRead(packetHeaders[packets[i]]).payload]

LEMMA PayloadType ==
    ASSUME NEW p \in Packets
    PROVE  HeaderRead(p).payload \in Seq(Symbols)
<1>1. p \in Packet
    BY PacketsAssumption
<1>2. p.tcp \in TcpHeader
    BY <1>1 DEF Packet
<1>3. p.tcp.payload \in Seq(Symbols)
    BY <1>2 DEF TcpHeader
<1>4. <<>> \in Seq(Symbols) /\ <<"byte">> \in Seq(Symbols)
    BY DEF Symbols, Bytes
<1>5. CASE p.ip = "v6"
    BY <1>4, <1>5 DEF HeaderRead
<1>6. CASE p.ip # "v6"
    BY <1>3, <1>6 DEF HeaderRead
<1> QED
    BY <1>5, <1>6

LEMMA ConnPayloadIs ==
    ASSUME packetHeaders \in Seq(Packets), NEW c \in Connection, InFile(c)
    PROVE  /\ ConnPayload(c) = Joined(Sent(c.packets), Len(c.packets))
           /\ Pieces(Sent(c.packets), Len(c.packets), Symbols)
           /\ Len(c.packets) \in Nat
           /\ ConnPayload(c) \in Seq(Symbols)
<1> DEFINE f == Sent(c.packets)
<1>1. c.packets \in Seq(Nat)
    BY DEF Connection
<1>2. DOMAIN c.packets = 1 .. Len(c.packets) /\ Len(c.packets) \in Nat
    BY <1>1, LenProperties
<1>3. ConnPayload(c) = FlattenSeq(f)
    BY DEF ConnPayload, Sent
<1>4. f = [k \in 1 .. Len(c.packets) |-> f[k]]
    BY <1>2 DEF Sent
<1>5. Pieces(f, Len(c.packets), Symbols)
    <2> SUFFICES ASSUME NEW k \in 1 .. Len(c.packets)
                 PROVE  f[k] \in Seq(Symbols)
        BY DEF Pieces
    <2>1. packetHeaders[c.packets[k]] \in Packets
        BY <1>2 DEF InFile
    <2>2. f[k] = HeaderRead(packetHeaders[c.packets[k]]).payload
        BY <1>2 DEF Sent
    <2> QED
        BY <2>1, <2>2, PayloadType
<1> HIDE DEF f
<1>6. FlattenSeq(f) = Joined(f, Len(c.packets))
    BY <1>4 DEF Joined
<1>7. Joined(f, Len(c.packets)) \in Seq(Symbols)
    BY <1>2, <1>5, JoinedType
<1> QED
    BY <1>2, <1>3, <1>5, <1>6, <1>7 DEF f

(* What the parser leaves behind.                                          *)
LEMMA ParseType ==
    ASSUME NEW payload \in Seq(Symbols)
    PROVE  /\ ParsePayload(payload).found \in BOOLEAN
           /\ ParsePayload(payload).named \in BOOLEAN
           /\ ParsePayload(payload).layers \in Seq(Layer)
           /\ ParsePayload(payload).summary \in Seq(Nat)
<1>1. CASE ~StartsWithLetters(payload)
    <2>1. <<>> \in Seq(Layer) /\ <<>> \in Seq(Nat)
        OBVIOUS
    <2> QED
        BY <1>1, <2>1 DEF ParsePayload
<1>2. CASE StartsWithLetters(payload)
    <2> DEFINE s == Parsed(payload)[Len(payload)]
    <2>1. Len(payload) \in Nat
        OBVIOUS
    <2>2. Sane(payload, Len(payload), s)
        BY <2>1, ParsedSane
    <2> HIDE DEF s
    <2>3. s.layers \in Seq(Layer) /\ s.summary \in Seq(Nat)
        BY <2>2, StateParts DEF Sane
    <2>4. ParsePayload(payload).layers = s.layers /\ ParsePayload(payload).summary = s.summary
        BY <1>2 DEF ParsePayload, s
    <2>5. ParsePayload(payload).found = (s.outcome # "not http")
        BY <1>2 DEF ParsePayload, s
    <2>6. ParsePayload(payload).named = (s.outcome = "run")
        BY <1>2 DEF ParsePayload, s
    <2> QED
        BY <2>3, <2>4, <2>5, <2>6
<1> QED
    BY <1>1, <1>2

LEMMA ParseFollowsHead ==
    ASSUME NEW payload \in Seq(Symbols), NEW s,
           s.payload = payload, s.layers = ParsePayload(payload).layers,
           s.summary = ParsePayload(payload).summary
    PROVE  BodyFollowsHead(s)
<1>1. CASE ~StartsWithLetters(payload)
    <2>1. s.layers = <<>>
        BY <1>1 DEF ParsePayload
    <2>2. DOMAIN s.layers = {}
        BY <2>1
    <2> QED
        BY <2>2 DEF BodyFollowsHead
<1>2. CASE StartsWithLetters(payload)
    <2> DEFINE t == Parsed(payload)[Len(payload)]
    <2>1. Len(payload) \in Nat
        OBVIOUS
    <2>2. Sane(payload, Len(payload), t)
        BY <2>1, ParsedSane
    <2> HIDE DEF t
    <2>3. s.layers = t.layers /\ s.summary = t.summary
        BY <1>2 DEF ParsePayload, t
    <2>4. t.layers \in Seq(Layer) /\ LayersSane(payload, Len(payload), t)
        BY <2>2, StateParts DEF Sane
    <2> SUFFICES ASSUME NEW k \in DOMAIN s.layers
                 PROVE  /\ s.layers[k].size = 0 \/ k = Len(s.layers)
                        /\ s.layers[k].size # 0 =>
                              /\ s.layers[k].location \in 3..Len(s.payload)
                              /\ s.payload[s.layers[k].location] # "eol"
                              /\ s.payload[s.layers[k].location - 1] = "eol"
                              /\ s.payload[s.layers[k].location - 2] = "eol"
                              /\ s.layers[k].file # 0 =>
                                    /\ s.layers[k].file < s.layers[k].location
                                    /\ \E j \in 1..Len(s.summary) : s.summary[j] = s.layers[k].file
        BY DEF BodyFollowsHead
    <2>5. k \in 1 .. Len(t.layers) /\ s.layers[k] = t.layers[k]
        BY <2>3, <2>4
    <2>6. LayerSane(payload, Len(payload), t, k)
        BY <2>4, <2>5 DEF LayersSane
    <2> QED
        BY <2>3, <2>5, <2>6 DEF LayerSane, BehindHead, FileKnown, Noted
<1> QED
    BY <1>1, <1>2

LEMMA FinishType ==
    ASSUME packetHeaders \in Seq(Packets), NEW n \in Names, NEW c \in Connection, InFile(c)
    PROVE  /\ Finish(n, c) \in Final
           /\ BodyFollowsHead(Finish(n, c))
<1> DEFINE payload == ConnPayload(c)
           parsed == ParsePayload(payload)
           s == Finish(n, c)
<1>1. payload \in Seq(Symbols)
    BY ConnPayloadIs
<1> HIDE DEF payload
<1>2. /\ parsed.found \in BOOLEAN /\ parsed.layers \in Seq(Layer) /\ parsed.summary \in Seq(Nat)
    BY <1>1, ParseType
<1>3. s = [name |-> n, packets |-> c.packets, payload |-> payload,
           parser |-> parsed.found, appLayerName |-> IF parsed.named THEN "HTTP" ELSE "",
           layers |-> parsed.layers, summary |-> parsed.summary]
    BY DEF Finish, payload
<1>4. c.packets \in Seq(Nat)
    BY DEF Connection
<1> HIDE DEF parsed, s
<1>5. s \in Final
    BY <1>1, <1>2, <1>3, <1>4 DEF Final, Layer
<1>6. s.payload = payload /\ s.layers = parsed.layers /\ s.summary = parsed.summary
    BY <1>3
<1>7. BodyFollowsHead(s)
    BY <1>1, <1>6, ParseFollowsHead DEF parsed
<1> QED
    BY <1>5, <1>7 DEF s

(* The rest of the inductive invariant: what is shown is what FinishedAdding *)
(* has made of a connection of the file.                                   *)
Built(s) == \E n \in Names, c \in Connection : InFile(c) /\ s = Finish(n, c)
Shows ==
    /\ ~finished => finalStreams = <<>> /\ protocolsFound = {}
    /\ finalStreams \in Seq(Final)
    /\ protocolsFound \subseteq {"HTTP"}
    /\ \A i \in DOMAIN finalStreams : Built(finalStreams[i])

LEMMA InFileNow ==
    ASSUME IInv, NEW n \in Names, NEW k \in DOMAIN streams[n]
    PROVE  streams[n][k] \in Connection /\ InFile(streams[n][k])
<1>1. Placed(n, streams[n][k]) /\ streams[n] \in Seq(Connection)
    BY DEF IInv, AllPlaced, StreamsTypeOK
<1> QED
    BY <1>1 DEF Placed, InFile

LEMMA FinishShows ==
    ASSUME IInv, Shows, FinishedAdding
    PROVE  Shows'
<1> PICK order \in SetToSeqs(Connections) :
        finalStreams' = [i \in DOMAIN order |->
            Finish(order[i][1], streams[order[i][1]][order[i][2]])]
    BY DEF FinishedAdding
<1>1. \A i \in DOMAIN order : order[i] \in Connections
    BY ConnectionsFinite, OrderIsAll
<1>2. packetHeaders' = packetHeaders /\ packetHeaders \in Seq(Packets) /\ finished'
    BY DEF FinishedAdding, IInv, StreamsTypeOK
<1>3. ASSUME NEW i \in DOMAIN order
      PROVE  /\ finalStreams'[i] \in Final
             /\ Built(finalStreams'[i])
    <2>0. PICK n \in Names : \E k \in DOMAIN streams[n] : order[i] = <<n, k>>
        BY <1>1 DEF Connections
    <2>1. PICK k \in DOMAIN streams[n] : order[i] = <<n, k>>
        BY <2>0
    <2>2. streams[n][k] \in Connection /\ InFile(streams[n][k])
        BY InFileNow
    <2>3. finalStreams'[i] = Finish(n, streams[n][k])
        BY <2>1
    <2>4. Finish(n, streams[n][k]) \in Final
        BY <1>2, <2>2, FinishType
    <2> QED
        BY <2>2, <2>3, <2>4 DEF Built
<1>4. \E l \in Nat : DOMAIN order = 1 .. l
    <2>1. DOMAIN order = 1 .. Cardinality(Connections)
        BY DEF SetToSeqs
    <2> QED
        BY <2>1, ConnectionsFinite, FS_CardinalityType
<1>5. DOMAIN finalStreams' = DOMAIN order
    OBVIOUS
<1>6. finalStreams' \in Seq(Final)
    BY <1>3, <1>4, <1>5, SeqDef
<1>7. protocolsFound' \subseteq {"HTTP"}
    <2>1. \A i \in DOMAIN finalStreams' : finalStreams'[i].appLayerName \in {"", "HTTP"}
        BY <1>3, <1>5 DEF Final
    <2>2. protocolsFound' = Known({finalStreams'[i].appLayerName : i \in DOMAIN finalStreams'})
        BY DEF FinishedAdding
    <2> QED
        BY <2>1, <2>2 DEF Known
<1>8. (\A i \in DOMAIN finalStreams : Built(finalStreams[i]))'
    <2> SUFFICES ASSUME NEW i \in DOMAIN finalStreams'
                 PROVE  (Built(finalStreams[i]))'
        OBVIOUS
    <2>1. PICK n \in Names, c \in Connection : InFile(c) /\ finalStreams'[i] = Finish(n, c)
        BY <1>3, <1>5 DEF Built
    <2>2. InFile(c)'
        BY <1>2, <2>1 DEF InFile
    <2>3. Finish(n, c)' = Finish(n, c)
        BY <1>2 DEF Finish, ConnPayload
    <2> QED
        BY <2>1, <2>2, <2>3 DEF Built
<1> QED
    BY <1>2, <1>6, <1>7, <1>8 DEF Shows

-----------------------------------------------------------------------------
(* An exchange of whole messages.  First the symbols of a line.            *)
Text == Symbols \ {"eol", "long"}

LEMMA TextFits ==
    ASSUME NEW c \in Text
    PROVE  Bytes[c] \in Nat /\ Bytes[c] < maxWaitUntilEndLine /\ c \in Symbols /\ c # "eol"
BY DEF Text, Symbols, Bytes, maxWaitUntilEndLine

LEMMA StoreFirst ==
    ASSUME NEW s \in State, s.buffer = <<>>, NEW c \in Text
    PROVE  Store(s, c) = [s EXCEPT !.buffer = <<c>>]
<1>1. Len(<<>>) = 0 /\ Append(<<>>, c) = <<c>>
    OBVIOUS
<1>2. SizeOf(s.buffer) = 0
    BY <1>1, SizeOfEmpty
<1>3. ~(SizeOf(s.buffer) + Bytes[c] >= maxWaitUntilEndLine)
    BY <1>2, TextFits DEF maxWaitUntilEndLine
<1> QED
    BY <1>1, <1>3 DEF Store

LEMMA OneSymbol ==
    ASSUME NEW c \in {"req", "resp", "hdr"}
    PROVE  ~TooShort(<<c>>) /\ <<c>>[1] = c /\ Last(<<c>>) = c /\ ~Declares(<<c>>)
<1>1. Len(<<c>>) = 1 /\ <<c>>[1] = c
    OBVIOUS
<1>2. Bytes[c] \in Nat /\ Bytes[c] >= PatternSize
    BY DEF Bytes, PatternSize
<1>3. SizeOf(<<c>>) = Bytes[c]
    BY <1>1, <1>2, SizeOfOne
<1>4. ~TooShort(<<c>>)
    BY <1>2, <1>3 DEF TooShort, PatternSize
<1>5. ~Declares(<<c>>)
    BY <1>1 DEF Declares, ContentLength
<1> QED
    BY <1>1, <1>4, <1>5 DEF Last

(* Where the head of a whole message ends.                                 *)
HeadIs(m, h) ==
    /\ h \in 5 .. Len(m) /\ h % 2 = 1
    /\ m[h] = "eol" /\ m[h - 1] = "eol" /\ m[h - 2] = "hdr"
    /\ m[1] \in {"req", "resp"}
    /\ \A i \in 1 .. h - 1 : i % 2 = 0 => m[i] = "eol"
    /\ \A i \in 1 .. h - 1 : i % 2 = 1 => m[i] \in Text

LEMMA HeadEnds ==
    ASSUME NEW m \in Seq(Symbols), WholeMessage(m)
    PROVE  HeadIs(m, HeadEnd(m))
<1> DEFINE Blank(i) == m[i - 1] = "eol" /\ m[i] = "eol"
           S == {i \in 3 .. Len(m) : Blank(i)}
           h == HeadEnd(m)
<1>0. Len(m) \in Nat /\ \A i \in 1 .. Len(m) : m[i] \in Symbols
    OBVIOUS
<1>1. S # {} /\ S \subseteq Nat
    BY DEF WholeMessage
<1>2. PICK b \in S : \A y \in S : b <= y
    <2> HIDE DEF S
    <2> QED
        BY <1>1, LeastExists
<1>3. b \in 3 .. Len(m) /\ Blank(b) /\ \A j \in 3 .. b - 1 : ~Blank(j)
    <2>1. \A j \in 3 .. b - 1 : j \in 3 .. Len(m) /\ ~(b <= j)
        BY <1>0, <1>2
    <2> QED
        BY <1>2, <2>1
<1>4. h \in 3 .. Len(m) /\ Blank(h)
    BY <1>3 DEF HeadEnd
<1> HIDE DEF h
<1>5. /\ \A i \in 1 .. h - 1 : (m[i] = "eol" <=> i % 2 = 0) /\ m[i] # "long"
      /\ m[1] \in {"req", "resp"}
      /\ m[h - 2] = "hdr"
    BY DEF WholeMessage, h
<1>6. h % 2 = 1
    <2>1. h - 1 \in 1 .. h - 1
        BY <1>4
    <2>2. (h - 1) % 2 = 0
        BY <1>4, <1>5, <2>1
    <2> QED
        BY <1>4, <2>2
<1>7. h # 3
    BY <1>5
<1>8. h \in 5 .. Len(m)
    BY <1>4, <1>6, <1>7
<1>9. \A i \in 1 .. h - 1 : i % 2 = 1 => m[i] \in Text
    BY <1>0, <1>4, <1>5 DEF Text
<1> QED
    BY <1>4, <1>5, <1>6, <1>8, <1>9 DEF HeadIs, h

(* Within a head, at symbol o of m: line is the line in the buffer, those  *)
(* two and more symbols before it have been read.                          *)
LineOf(m, o) == IF o = HeadEnd(m) THEN o - 2 ELSE IF o % 2 = 0 THEN o - 1 ELSE o
EndsOf(m, o) == IF o = HeadEnd(m) THEN 4 ELSE IF o % 2 = 0 THEN 2 ELSE 0
SizeRead(m, line) == IF \E i \in Lengths(m) : i <= line THEN Declared(m) ELSE 0

HeadAt(m, o, s, layers) ==
    /\ s \in State /\ s.outcome = "run" /\ s.skip = 0 /\ s.layers = layers
    /\ s.spaces = EndsOf(m, o)
    /\ s.wasEndline <=> EndsOf(m, o) # 0
    /\ s.buffer = <<m[LineOf(m, o)]>>
    /\ s.identified <=> LineOf(m, o) >= 3
    /\ s.identified => s.layer.name = <<m[1]>>
    /\ s.layer.size = SizeRead(m, LineOf(m, o) - 2)

(* A line end.                                                             *)
LEMMA HeadEol ==
    ASSUME NEW m \in Seq(Symbols), HeadIs(m, HeadEnd(m)), NEW o \in 2 .. HeadEnd(m),
           m[o] = "eol", NEW s, NEW layers, HeadAt(m, o - 1, s, layers), NEW i
    PROVE  HeadAt(m, o, Step(s, m[o], i), layers)
<1> DEFINE h == HeadEnd(m)
           r == Step(s, m[o], i)
<1>0. h \in 5 .. Len(m) /\ h % 2 = 1 /\ Len(m) \in Nat
    BY DEF HeadIs
<1>1. o % 2 = 0 \/ o = h
    <2>1. o # h => o \in 1 .. h - 1
        BY <1>0
    <2>2. "eol" \notin Text
        BY DEF Text
    <2>3. o # h => o % 2 # 1
        BY <2>1, <2>2 DEF HeadIs
    <2> QED
        BY <2>3
<1>2. s \in State /\ s.outcome = "run" /\ s.skip = 0
    BY DEF HeadAt
<1>3. r = LineEnded(s)
    BY <1>2 DEF Step, LineEnded
<1> HIDE DEF r
<1>4. s.spaces \in Nat /\ s.spaces + 2 \in Nat
    BY <1>2, StateParts
<1>5. /\ r \in State /\ r.outcome = "run" /\ r.skip = 0 /\ r.layers = s.layers
      /\ r.spaces = s.spaces + 2 /\ r.wasEndline /\ r.buffer = s.buffer
      /\ r.identified = s.identified /\ r.layer = s.layer
    BY <1>2, <1>3, <1>4 DEF LineEnded, State
<1>6. LineOf(m, o) = LineOf(m, o - 1) /\ EndsOf(m, o) = EndsOf(m, o - 1) + 2
    <2>1. CASE o = h
        <3>1. (o - 1) % 2 = 0 /\ o - 1 # h
            BY <1>0, <2>1
        <3> QED
            BY <1>0, <2>1, <3>1 DEF LineOf, EndsOf
    <2>2. CASE o # h
        <3>1. o % 2 = 0 /\ (o - 1) % 2 # 0 /\ o - 1 # h
            BY <1>0, <1>1, <2>2
        <3> QED
            BY <2>2, <3>1 DEF LineOf, EndsOf
    <2> QED
        BY <2>1, <2>2
<1>7. EndsOf(m, o - 1) \in Nat
    BY DEF EndsOf
<1>8. /\ s.layers = layers /\ s.spaces = EndsOf(m, o - 1)
      /\ s.buffer = <<m[LineOf(m, o - 1)]>>
      /\ s.identified <=> LineOf(m, o - 1) >= 3
      /\ s.identified => s.layer.name = <<m[1]>>
      /\ s.layer.size = SizeRead(m, LineOf(m, o - 1) - 2)
    BY DEF HeadAt
<1>9. r.spaces = EndsOf(m, o) /\ EndsOf(m, o) # 0 /\ r.layers = layers
    BY <1>5, <1>6, <1>7, <1>8
<1> HIDE DEF h
<1>10. /\ r.buffer = <<m[LineOf(m, o)]>>
       /\ r.identified <=> LineOf(m, o) >= 3
       /\ r.identified => r.layer.name = <<m[1]>>
       /\ r.layer.size = SizeRead(m, LineOf(m, o) - 2)
    BY <1>5, <1>6, <1>8
<1>11. HeadAt(m, o, r, layers)
    BY <1>5, <1>9, <1>10 DEF HeadAt
<1> QED
    BY <1>11 DEF r

LEMMA SizeReadNext ==
    ASSUME NEW m \in Seq(Symbols), WholeMessage(m), NEW l \in 1 .. HeadEnd(m) - 2, l % 2 = 1
    PROVE  SizeRead(m, l) = IF l \in Lengths(m) THEN ContentLength[m[l]] ELSE SizeRead(m, l - 2)
<1> DEFINE h == HeadEnd(m)
<1>0. HeadIs(m, h) /\ h \in 5 .. Len(m) /\ Len(m) \in Nat
    BY HeadEnds DEF HeadIs
<1>1. \A i \in Lengths(m) : i \in Nat
    BY <1>0 DEF Lengths
<1>2. CASE l \in Lengths(m)
    <2>1. \A i \in Lengths(m) : i = l
        BY <1>2 DEF WholeMessage
    <2>2. Declared(m) = ContentLength[m[l]]
        BY <1>2, <2>1 DEF Declared
    <2>3. SizeRead(m, l) = Declared(m)
        BY <1>2 DEF SizeRead
    <2> QED
        BY <1>2, <2>2, <2>3
<1>3. CASE l \notin Lengths(m)
    <2>1. l - 1 \notin Lengths(m)
        <3>1. CASE l = 1
            BY <3>1 DEF Lengths
        <3>2. CASE l # 1
            <4>1. l - 1 \in 1 .. h - 1 /\ (l - 1) % 2 = 0
                BY <1>0, <3>2
            <4>2. m[l - 1] = "eol"
                BY <1>0, <4>1 DEF HeadIs
            <4> QED
                BY <4>2 DEF Lengths, ContentLength
        <3> QED
            BY <3>1, <3>2
    <2>2. \A i \in Lengths(m) : i <= l <=> i <= l - 2
        <3> SUFFICES ASSUME NEW i \in Lengths(m), i <= l
                     PROVE  i <= l - 2
            BY <1>1
        <3>1. i # l /\ i # l - 1 /\ i \in Nat
            BY <1>1, <1>3, <2>1
        <3> QED
            BY <3>1
    <2> QED
        BY <1>3, <2>2 DEF SizeRead
<1> QED
    BY <1>2, <1>3

Pushed(s) == IF AtBlankLine(s) THEN PushLayer(s) ELSE s

LineBegun(n, r, c) ==
    /\ n \in State /\ n.outcome = "run" /\ n.skip = r.skip /\ n.layers = r.layers
    /\ n.spaces = 0 /\ ~n.wasEndline /\ n.buffer = <<c>>
    /\ n.identified <=> r.identified
    /\ n.layer = r.layer

LEMMA LineStarts ==
    ASSUME NEW r \in State, r.outcome = "run", NEW c \in Text, NEW i \in Nat,
           NEW s, r = ReadLine(Pushed(s))
    PROVE  LineBegun(NextLine(s, c, i), r, c)
<1> DEFINE t == [r EXCEPT !.buffer = <<>>, !.lineAt = i, !.wasEndline = FALSE, !.spaces = 0]
           n == NextLine(s, c, i)
<1>1. n = Store(t, c)
    BY DEF NextLine, Pushed
<1>2. <<>> \in Seq(Symbols) /\ <<c>> \in Seq(Symbols)
    BY TextFits
<1>3. /\ t \in State /\ t.outcome = "run" /\ t.skip = r.skip /\ t.layers = r.layers
      /\ t.spaces = 0 /\ ~t.wasEndline /\ t.buffer = <<>> /\ t.identified = r.identified
      /\ t.layer = r.layer
    BY <1>2 DEF State
<1> HIDE DEF t, n
<1>4. n = [t EXCEPT !.buffer = <<c>>]
    BY <1>1, <1>3, StoreFirst
<1>5. /\ n \in State /\ n.outcome = "run" /\ n.skip = t.skip /\ n.layers = t.layers
      /\ n.spaces = t.spaces /\ n.wasEndline = t.wasEndline /\ n.buffer = <<c>>
      /\ n.identified = t.identified /\ n.layer = t.layer
    BY <1>2, <1>3, <1>4 DEF State
<1>6. LineBegun(n, r, c)
    BY <1>3, <1>5 DEF LineBegun
<1> QED
    BY <1>6 DEF n

(* A start line that has ended.                                            *)
LEMMA StartRead ==
    ASSUME NEW s \in State, s.outcome = "run", ~s.identified,
           NEW x \in {"req", "resp"}, s.buffer = <<x>>
    PROVE  /\ ReadLine(s) \in State /\ ReadLine(s).outcome = "run"
           /\ ReadLine(s).skip = s.skip /\ ReadLine(s).layers = s.layers
           /\ ReadLine(s).identified /\ ReadLine(s).layer.name = <<x>>
           /\ ReadLine(s).layer.size = s.layer.size
<1> DEFINE r == ReadLine(s)
<1>1. ~TooShort(s.buffer) /\ s.buffer[1] = x /\ Last(s.buffer) = x
    BY OneSymbol
<1>2. r \in State /\ s.layer \in Layer
    BY ReadType, StateParts
<1>3. CASE x = "resp"
    <2>1. r = [s EXCEPT !.identified = TRUE, !.layer.name = s.buffer]
        BY <1>1, <1>3 DEF ReadLine, IsStatus
    <2> HIDE DEF r
    <2>2. /\ r.outcome = "run" /\ r.skip = s.skip /\ r.layers = s.layers /\ r.identified
          /\ r.layer.name = s.buffer /\ r.layer.size = s.layer.size
        BY <1>2, <2>1 DEF State, Layer
    <2> QED
        BY <1>2, <2>2 DEF r
<1>4. CASE x = "req"
    <2>1. r = [s EXCEPT !.identified = TRUE, !.layer.name = s.buffer,
                        !.layer.file = s.lineAt, !.summary = Append(@, s.lineAt)]
        BY <1>1, <1>4 DEF ReadLine, IsStatus, IsRequest
    <2> HIDE DEF r
    <2>2. /\ r.outcome = "run" /\ r.skip = s.skip /\ r.layers = s.layers /\ r.identified
          /\ r.layer.name = s.buffer /\ r.layer.size = s.layer.size
        BY <1>2, <2>1 DEF State, Layer
    <2> QED
        BY <1>2, <2>2 DEF r
<1> QED
    BY <1>3, <1>4

(* Another line of a head that has ended.                                  *)
LEMMA OtherLineRead ==
    ASSUME NEW s \in State, s.outcome = "run", s.identified, NEW x \in Text, s.buffer = <<x>>
    PROVE  /\ ReadLine(s) \in State /\ ReadLine(s).outcome = "run"
           /\ ReadLine(s).skip = s.skip /\ ReadLine(s).layers = s.layers
           /\ ReadLine(s).identified /\ ReadLine(s).layer.name = s.layer.name
           /\ ReadLine(s).layer.size =
                 IF x \in DOMAIN ContentLength THEN ContentLength[x] ELSE s.layer.size
<1> DEFINE r == ReadLine(s)
<1>1. Len(s.buffer) = 1 /\ s.buffer[1] = x
    OBVIOUS
<1>2. r \in State /\ s.layer \in Layer
    BY ReadType, StateParts
<1>3. Declares(s.buffer) <=> x \in DOMAIN ContentLength
    BY <1>1 DEF Declares
<1>4. CASE x \in DOMAIN ContentLength
    <2>1. r = [s EXCEPT !.layer.size = ContentLength[x]]
        BY <1>1, <1>3, <1>4 DEF ReadLine
    <2> HIDE DEF r
    <2>2. /\ r.outcome = "run" /\ r.skip = s.skip /\ r.layers = s.layers /\ r.identified
          /\ r.layer.name = s.layer.name /\ r.layer.size = ContentLength[x]
        BY <1>2, <2>1 DEF State, Layer
    <2> QED
        BY <1>2, <1>4, <2>2 DEF r
<1>5. CASE x \notin DOMAIN ContentLength
    <2>1. r = s
        BY <1>3, <1>5 DEF ReadLine
    <2> QED
        BY <1>2, <1>5, <2>1
<1> QED
    BY <1>4, <1>5

(* The first symbol of a line of the head, but for the start line.         *)
LEMMA HeadText ==
    ASSUME NEW m \in Seq(Symbols), WholeMessage(m), NEW o \in 3 .. HeadEnd(m) - 1, o % 2 = 1,
           NEW s, NEW layers, HeadAt(m, o - 1, s, layers), NEW i \in Nat
    PROVE  HeadAt(m, o, Step(s, m[o], i), layers)
<1> DEFINE h == HeadEnd(m)
           r == ReadLine(s)
           n == Step(s, m[o], i)
           x == m[o - 2]
<1>a. HeadIs(m, h) /\ Len(m) \in Nat
    BY HeadEnds
<1>0. HeadIs(m, h) /\ h \in 5 .. Len(m) /\ Len(m) \in Nat /\ h % 2 = 1
    BY <1>a DEF HeadIs
<1>1. /\ o - 1 # h /\ o # h /\ (o - 1) % 2 = 0 /\ (o - 2) % 2 = 1
      /\ o - 2 \in 1 .. h - 2 /\ o - 2 \in 1 .. h - 1 /\ o \in 1 .. h - 1
    BY <1>0
<1>2. LineOf(m, o - 1) = o - 2 /\ EndsOf(m, o - 1) = 2 /\ LineOf(m, o) = o /\ EndsOf(m, o) = 0
    <2>1. (o - 1) - 1 = o - 2
        OBVIOUS
    <2> QED
        BY <1>1, <2>1 DEF LineOf, EndsOf
<1>3. m[o] \in Text /\ x \in Text
    BY <1>0, <1>1 DEF HeadIs
<1>4. /\ s \in State /\ s.outcome = "run" /\ s.skip = 0 /\ s.layers = layers
      /\ s.spaces = 2 /\ s.wasEndline /\ s.buffer = <<x>>
      /\ s.identified <=> o - 2 >= 3
      /\ s.identified => s.layer.name = <<m[1]>>
      /\ s.layer.size = SizeRead(m, (o - 2) - 2)
    BY <1>2 DEF HeadAt
<1>5. ~AtBlankLine(s) /\ m[o] # "eol"
    BY <1>3, <1>4, TextFits DEF AtBlankLine
<1>6. n = NextLine(s, m[o], i)
    BY <1>4, <1>5 DEF Step
<1>7. SizeRead(m, o - 2) = IF x \in DOMAIN ContentLength THEN ContentLength[x]
                           ELSE SizeRead(m, (o - 2) - 2)
    <2>1. o - 2 \in Lengths(m) <=> x \in DOMAIN ContentLength
        <3>1. o - 2 \in 1 .. HeadEnd(m)
            BY <1>0, <1>1
        <3> QED
            BY <3>1, Zenon DEF Lengths
    <2> QED
        BY <1>1, <2>1, SizeReadNext
<1>8. /\ r \in State /\ r.outcome = "run" /\ r.skip = 0 /\ r.layers = layers
      /\ r.identified /\ r.layer.name = <<m[1]>> /\ r.layer.size = SizeRead(m, o - 2)
    <2>1. CASE s.identified
        BY <1>3, <1>4, <1>7, <2>1, OtherLineRead
    <2>2. CASE ~s.identified
        <3>1. o - 2 = 1 /\ x = m[1] /\ x \in {"req", "resp"}
            <4>1. o - 2 = 1
                BY <1>1, <1>4, <2>2
            <4> QED
                BY <1>0, <4>1 DEF HeadIs
        <3>2. x \notin DOMAIN ContentLength
            BY <3>1 DEF ContentLength
        <3> QED
            BY <1>4, <1>7, <2>2, <3>1, <3>2, StartRead
    <2> QED
        BY <2>1, <2>2
<1>9. r = ReadLine(Pushed(s))
    BY <1>5 DEF Pushed
<1> HIDE DEF r, n, h, x
<1>10. /\ n \in State /\ n.outcome = "run" /\ n.skip = 0 /\ n.layers = layers
       /\ n.spaces = 0 /\ ~n.wasEndline /\ n.buffer = <<m[o]>>
       /\ (n.identified <=> r.identified) /\ n.layer = r.layer
    <2>1. r \in State /\ r.outcome = "run"
        BY <1>8
    <2>2. LineBegun(NextLine(s, m[o], i), r, m[o])
        BY <1>3, <1>9, <2>1, LineStarts
    <2>3. LineBegun(n, r, m[o])
        BY <1>6, <2>2
    <2> QED
        BY <1>8, <2>3 DEF LineBegun
<1>11. HeadAt(m, o, n, layers)
    BY <1>2, <1>8, <1>10 DEF HeadAt
<1> QED
    BY <1>11 DEF n

(* The head, from its first symbol to its last.                            *)
(* The states g that the parser goes through on the message m, which is    *)
(* behind at symbols.                                                      *)
Follows(g, m, at) == \A o \in 1 .. Len(m) : g[o] = Step(g[o - 1], m[o], at + o)

LEMMA HeadRead ==
    ASSUME NEW m \in Seq(Symbols), WholeMessage(m), NEW g, NEW layers, NEW at \in Nat,
           HeadAt(m, 1, g[1], layers),
           Follows(g, m, at)
    PROVE  HeadAt(m, HeadEnd(m), g[HeadEnd(m)], layers)
<1> DEFINE h == HeadEnd(m)
           B == {0} \cup {o \in 1 .. h : HeadAt(m, o, g[o], layers)}
<1>a. HeadIs(m, h) /\ Len(m) \in Nat
    BY HeadEnds
<1>0. HeadIs(m, h) /\ h \in 5 .. Len(m) /\ Len(m) \in Nat
    BY <1>a DEF HeadIs
<1>1. 0 \in B
    OBVIOUS
<1>2. ASSUME NEW o \in 1 .. h, o - 1 \in B
      PROVE  o \in B
    <2>1. CASE o = 1
        BY <2>1
    <2>2. CASE o # 1
        <3>1. HeadAt(m, o - 1, g[o - 1], layers) /\ at + o \in Nat
            BY <1>2, <2>2
        <3>2. g[o] = Step(g[o - 1], m[o], at + o)
            BY <1>0 DEF Follows
        <3>3. CASE m[o] = "eol"
            <4>1. o \in 2 .. h
                BY <2>2
            <4>2. HeadAt(m, o, g[o], layers)
                BY <1>0, <3>1, <3>2, <3>3, <4>1, HeadEol
            <4> QED
                BY <4>2
        <3>4. CASE m[o] # "eol"
            <4>0. m[h] = "eol" /\ \A j \in 1 .. h - 1 : j % 2 = 0 => m[j] = "eol"
                BY <1>0 DEF HeadIs
            <4>1. o # h /\ o % 2 = 1
                <5>1. o # h
                    BY <3>4, <4>0
                <5>2. o \in 1 .. h - 1
                    BY <1>0, <5>1
                <5>3. o % 2 # 0
                    BY <3>4, <4>0, <5>2
                <5>4. o \in Nat
                    BY <1>0
                <5>5. o % 2 = 1
                    BY <5>3, <5>4
                <5> QED
                    BY <5>1, <5>5
            <4>2. o \in 3 .. h - 1
                <5>1. o \in 1 .. h /\ h \in Nat /\ o # 1 /\ o # h
                    BY <1>0, <2>2, <4>1
                <5>2. o # 2
                    BY <4>1
                <5> QED
                    BY <5>1, <5>2
            <4>3. HeadAt(m, o, g[o], layers)
                BY <3>1, <3>2, <4>1, <4>2, HeadText
            <4> QED
                BY <4>3
        <3> QED
            BY <3>3, <3>4
    <2> QED
        BY <2>1, <2>2
<1>3. 0 .. h \subseteq B
    <2>1. h \in Nat
        BY <1>0
    <2> HIDE DEF B, h
    <2> QED
        BY <1>1, <1>2, <2>1, UpTo
<1> QED
    BY <1>0, <1>3

LEMMA BodyIs ==
    ASSUME NEW m \in Seq(Symbols), WholeMessage(m)
    PROVE  /\ Len(Body(m)) = Len(m) - HeadEnd(m)
           /\ Len(Body(m)) = Declared(m)
           /\ Len(Body(m)) \in Nat
           /\ Body(m) = <<>> <=> Len(Body(m)) = 0
           /\ Body(m) # <<>> => m[HeadEnd(m) + 1] # "eol"
<1> DEFINE h == HeadEnd(m)
<1>a. HeadIs(m, h) /\ Len(m) \in Nat
    BY HeadEnds
<1>0. h \in 5 .. Len(m)
    BY <1>a DEF HeadIs
<1>1. /\ SubSeq(m, h + 1, Len(m)) \in Seq(Symbols)
      /\ Len(SubSeq(m, h + 1, Len(m))) = Len(m) - h
      /\ h # Len(m) => SubSeq(m, h + 1, Len(m))[1] = m[h + 1]
    BY <1>a, <1>0
<1>2. Body(m) \in Seq(Symbols) /\ Len(Body(m)) = Len(m) - h
    BY <1>1 DEF Body
<1>3. Len(Body(m)) \in Nat /\ (Body(m) = <<>> <=> Len(Body(m)) = 0)
    BY <1>2, EmptySeq
<1>4. Body(m) # <<>> => m[h + 1] # "eol"
    <2> SUFFICES ASSUME Body(m) # <<>> PROVE m[h + 1] # "eol"
        OBVIOUS
    <2>1. h # Len(m)
        BY <1>2, <1>3
    <2>2. Body(m)[1] = m[h + 1]
        BY <1>1, <2>1 DEF Body
    <2>3. Body(m)[1] # "eol"
        BY DEF WholeMessage
    <2> QED
        BY <2>2, <2>3
<1>5. Len(Body(m)) = Declared(m)
    BY DEF WholeMessage
<1> QED
    BY <1>2, <1>3, <1>4, <1>5

(* At the blank line.                                                      *)
HeadOver(m, s, layers) ==
    /\ s \in State /\ s.outcome = "run" /\ s.skip = 0 /\ s.layers = layers
    /\ AtBlankLine(s) /\ s.identified /\ s.wasEndline /\ s.spaces = 4
    /\ s.buffer = <<"hdr">> /\ s.layer.name = <<m[1]>> /\ s.layer.size = Declared(m)

LEMMA AtHeadEnd ==
    ASSUME NEW m \in Seq(Symbols), WholeMessage(m), NEW s, NEW layers,
           HeadAt(m, HeadEnd(m), s, layers)
    PROVE  HeadOver(m, s, layers)
<1> DEFINE h == HeadEnd(m)
<1>a. HeadIs(m, h) /\ Len(m) \in Nat
    BY HeadEnds
<1>0. h \in 5 .. Len(m) /\ h % 2 = 1 /\ m[h] = "eol" /\ m[h - 1] = "eol" /\ m[h - 2] = "hdr"
    BY <1>a DEF HeadIs
<1>1. LineOf(m, h) = h - 2 /\ EndsOf(m, h) = 4
    BY DEF LineOf, EndsOf
<1>2. \A i \in Lengths(m) : i <= (h - 2) - 2
    <2> SUFFICES ASSUME NEW i \in Lengths(m)
                 PROVE  i <= (h - 2) - 2
        OBVIOUS
    <2>1. i \in 1 .. h /\ m[i] # "eol" /\ m[i] # "hdr"
        BY DEF Lengths, ContentLength
    <2>2. (h - 3) % 2 = 0 /\ h - 3 \in 1 .. h - 1
        BY <1>0
    <2>3. m[h - 3] = "eol"
        BY <1>a, <2>2 DEF HeadIs
    <2>4. i # h /\ i # h - 1 /\ i # h - 2 /\ i # h - 3
        BY <1>0, <2>1, <2>3
    <2> QED
        BY <1>0, <2>1, <2>4
<1>3. SizeRead(m, (h - 2) - 2) = Declared(m)
    <2>1. CASE Lengths(m) = {}
        BY <2>1 DEF SizeRead, Declared
    <2>2. CASE Lengths(m) # {}
        BY <1>2, <2>2 DEF SizeRead
    <2> QED
        BY <2>1, <2>2
<1>4. h - 2 >= 3
    BY <1>0
<1>5. /\ s \in State /\ s.outcome = "run" /\ s.skip = 0 /\ s.layers = layers
      /\ s.spaces = 4 /\ s.wasEndline /\ s.identified /\ s.buffer = <<"hdr">>
      /\ s.layer.name = <<m[1]>> /\ s.layer.size = Declared(m)
    BY <1>0, <1>1, <1>3, <1>4 DEF HeadAt
<1> QED
    BY <1>5 DEF HeadOver, AtBlankLine

(* In the body of m, of which o symbols are behind.                        *)
InBody(m, o, s, layers) ==
    /\ s \in State /\ s.outcome = "run" /\ s.skip = Len(m) - o /\ s.layers = layers
    /\ s.wasEndline /\ ~s.identified /\ s.buffer = <<>>

LEMMA BodyBegins ==
    ASSUME NEW m \in Seq(Symbols), WholeMessage(m), Body(m) # <<>>, NEW s, NEW layers,
           HeadOver(m, s, layers), NEW payload, NEW i \in Nat, Sane(payload, i, s)
    PROVE  \E named \in Layer :
              /\ named.name = <<m[1]>> /\ named.size = Len(Body(m))
              /\ InBody(m, HeadEnd(m) + 1, Step(s, m[HeadEnd(m) + 1], i + 1), Append(layers, named))
<1> DEFINE h == HeadEnd(m)
           n == Step(s, m[h + 1], i + 1)
<1>1. /\ Len(Body(m)) \in Nat /\ Len(Body(m)) > 0 /\ Len(Body(m)) = Declared(m)
      /\ Len(Body(m)) = Len(m) - h /\ m[h + 1] # "eol"
    BY BodyIs
<1>2. /\ s \in State /\ s.outcome = "run" /\ s.skip = 0 /\ s.layers = layers /\ AtBlankLine(s)
      /\ s.wasEndline /\ s.layer.name = <<m[1]>> /\ s.layer.size = Len(Body(m)) /\ s.layer.size > 0
    BY <1>1 DEF HeadOver
<1>3. n = TakeBody(s, i + 1)
    BY <1>1, <1>2 DEF Step
<1>4. PICK named \in Layer :
         /\ named.name = s.layer.name /\ named.size = s.layer.size
         /\ n = BodyPushed(s, named)
    BY <1>2, <1>3, TakeFacts
<1>5. n \in State
    BY <1>2, <1>3, TakeType
<1> HIDE DEF n
<1>6. /\ n.outcome = "run" /\ n.skip = s.layer.size - 1 /\ n.layers = Append(s.layers, named)
      /\ n.wasEndline /\ ~n.identified /\ n.buffer = <<>>
    BY <1>2, <1>4 DEF BodyPushed, State
<1>7. n.skip = Len(m) - (h + 1)
    <2>1. Len(m) \in Nat /\ h \in Int
        <3>1. HeadIs(m, h) /\ Len(m) \in Nat
            BY HeadEnds
        <3> QED
            BY <3>1 DEF HeadIs
    <2> HIDE DEF h
    <2> QED
        BY <1>1, <1>2, <1>6, <2>1
<1>8. InBody(m, h + 1, n, Append(layers, named))
    BY <1>2, <1>5, <1>6, <1>7 DEF InBody
<1> QED
    BY <1>2, <1>4, <1>8 DEF n

LEMMA BodyGoesOn ==
    ASSUME NEW m \in Seq(Symbols), NEW o \in Nat, o < Len(m), NEW s, NEW layers,
           InBody(m, o, s, layers), NEW c, NEW i
    PROVE  InBody(m, o + 1, Step(s, c, i), layers)
<1> DEFINE n == Step(s, c, i)
<1>1. /\ s \in State /\ s.outcome = "run" /\ s.skip = Len(m) - o /\ s.layers = layers
      /\ s.wasEndline /\ ~s.identified /\ s.buffer = <<>>
    BY DEF InBody
<1>2. s.skip > 0 /\ s.skip - 1 \in Nat /\ s.skip - 1 = Len(m) - (o + 1)
    BY <1>1
<1>3. n = Skipped(s)
    BY <1>1, <1>2 DEF Step, Skipped
<1> HIDE DEF n
<1>4. /\ n \in State /\ n.outcome = "run" /\ n.skip = s.skip - 1 /\ n.layers = layers
      /\ n.wasEndline /\ ~n.identified /\ n.buffer = <<>>
    BY <1>1, <1>2, <1>3 DEF Skipped, State
<1>5. InBody(m, o + 1, n, layers)
    BY <1>2, <1>4 DEF InBody
<1> QED
    BY <1>5 DEF n

LEMMA BodyRead ==
    ASSUME NEW m \in Seq(Symbols), NEW b \in 1 .. Len(m), NEW g, NEW layers, NEW at \in Nat,
           InBody(m, b, g[b], layers),
           Follows(g, m, at)
    PROVE  InBody(m, Len(m), g[Len(m)], layers)
<1> DEFINE B == {o \in 0 .. Len(m) : o >= b => InBody(m, o, g[o], layers)}
<1>0. Len(m) \in Nat
    OBVIOUS
<1>1. 0 \in B
    BY <1>0
<1>2. ASSUME NEW o \in 1 .. Len(m), o - 1 \in B
      PROVE  o \in B
    <2>1. CASE o <= b
        BY <2>1
    <2>2. CASE o > b
        <3>1. o - 1 \in Nat /\ o - 1 < Len(m) /\ (o - 1) + 1 = o /\ o - 1 >= b
            BY <1>0, <2>2
        <3>2. InBody(m, o - 1, g[o - 1], layers)
            BY <1>2, <3>1
        <3>3. InBody(m, (o - 1) + 1, Step(g[o - 1], m[o], at + o), layers)
            BY <3>1, <3>2, BodyGoesOn
        <3>4. g[o] = Step(g[o - 1], m[o], at + o)
            BY DEF Follows
        <3> QED
            BY <3>1, <3>3, <3>4
    <2> QED
        BY <2>1, <2>2
<1>3. 0 .. Len(m) \subseteq B
    <2> HIDE DEF B
    <2> QED
        BY <1>0, <1>1, <1>2, UpTo
<1>4. Len(m) \in 0 .. Len(m) /\ Len(m) >= b
    BY <1>0
<1>5. Len(m) \in B
    BY <1>3, <1>4
<1> QED
    BY <1>4, <1>5

(* What the parser has made of the messages ms, all of them read.          *)
Bodiless(ms) == \A j \in 1 .. Len(ms) : Body(ms[j]) = <<>>
LayersOf(ms, layers, n) ==
    /\ layers \in Seq(Layer) /\ Len(layers) = n
    /\ \A j \in 1 .. n : layers[j].name = <<ms[j][1]>> /\ layers[j].size = Len(Body(ms[j]))

InHead(ms, s) ==
    /\ s.outcome = "run" /\ s.skip = 0 /\ s.identified /\ s.wasEndline /\ s.spaces = 4
    /\ s.buffer = <<"hdr">> /\ s.layer.name = <<ms[Len(ms)][1]>> /\ s.layer.size = 0
    /\ LayersOf(ms, s.layers, Len(ms) - 1)

BodyAt(ms, f) == Body(ms[f]) # <<>> /\ \A j \in 1 .. f - 1 : Body(ms[j]) = <<>>
BodyEnded(s) ==
    s.outcome = "run" /\ s.skip = 0 /\ s.wasEndline /\ ~s.identified /\ s.buffer = <<>>
BodyOver(ms, s, f) ==
    /\ BodyAt(ms, f) /\ LayersOf(ms, s.layers, f)
    /\ f = Len(ms) => BodyEnded(s)
    /\ f # Len(ms) => s.outcome = "broken off"

After(ms, s) ==
    /\ s \in State
    /\ ms = <<>> => s = Beginning
    /\ ms # <<>> /\ Bodiless(ms) => InHead(ms, s)
    /\ ~Bodiless(ms) => \E f \in 1 .. Len(ms) : BodyOver(ms, s, f)

(* One message more changes nothing of those before it.                    *)
LEMMA OneMore ==
    ASSUME NEW ms \in Seq(Seq(Symbols)), NEW m \in Seq(Symbols)
    PROVE  /\ Len(ms) \in Nat /\ Len(Append(ms, m)) = Len(ms) + 1
           /\ Append(ms, m) # <<>> /\ Append(ms, m) \in Seq(Seq(Symbols))
           /\ Append(ms, m)[Len(ms) + 1] = m
           /\ \A j \in 1 .. Len(ms) : Append(ms, m)[j] = ms[j]
BY AppendProperties

LEMMA LayersOfMore ==
    ASSUME NEW ms \in Seq(Seq(Symbols)), NEW m \in Seq(Symbols), NEW layers,
           NEW n \in 0 .. Len(ms), LayersOf(ms, layers, n)
    PROVE  LayersOf(Append(ms, m), layers, n)
<1>1. \A j \in 1 .. n : Append(ms, m)[j] = ms[j]
    BY OneMore
<1> QED
    BY <1>1 DEF LayersOf

LEMMA LayersOfNext ==
    ASSUME NEW ms \in Seq(Seq(Symbols)), NEW n \in 0 .. Len(ms) - 1, NEW layers,
           LayersOf(ms, layers, n), NEW layer \in Layer,
           layer.name = <<ms[n + 1][1]>>, layer.size = Len(Body(ms[n + 1]))
    PROVE  LayersOf(ms, Append(layers, layer), n + 1)
<1>1. layers \in Seq(Layer) /\ Len(layers) = n /\ n \in Nat
    BY DEF LayersOf
<1>2. /\ Append(layers, layer) \in Seq(Layer) /\ Len(Append(layers, layer)) = n + 1
      /\ Append(layers, layer)[n + 1] = layer
      /\ \A j \in 1 .. n : Append(layers, layer)[j] = layers[j]
    <2>1. layers \in Seq(Layer)
        BY <1>1
    <2>2. /\ Append(layers, layer) \in Seq(Layer)
          /\ Len(Append(layers, layer)) = Len(layers) + 1
          /\ Append(layers, layer)[Len(layers) + 1] = layer
          /\ \A j \in 1 .. Len(layers) : Append(layers, layer)[j] = layers[j]
        BY <2>1, AppendProperties
    <2> QED
        BY <1>1, <2>2
<1>3. ASSUME NEW j \in 1 .. n + 1
      PROVE  /\ Append(layers, layer)[j].name = <<ms[j][1]>>
             /\ Append(layers, layer)[j].size = Len(Body(ms[j]))
    <2>1. CASE j = n + 1
        BY <1>2, <2>1
    <2>2. CASE j # n + 1
        <3>1. j \in 1 .. n
            BY <1>1, <2>2
        <3> QED
            BY <1>2, <3>1 DEF LayersOf
    <2> QED
        BY <2>1, <2>2
<1> QED
    BY <1>2, <1>3 DEF LayersOf

(* The first symbol of a message, behind others without a body.            *)
LEMMA MessageBegins ==
    ASSUME NEW ms \in Seq(Seq(Symbols)), Bodiless(ms), NEW s, After(ms, s),
           NEW m \in Seq(Symbols), WholeMessage(m), NEW payload, NEW i \in Nat, Sane(payload, i, s)
    PROVE  \E layers :
              HeadAt(m, 1, Step(s, m[1], i + 1), layers) /\ LayersOf(ms, layers, Len(ms))
<1> DEFINE h == HeadEnd(m)
           n == Step(s, m[1], i + 1)
<1>a. HeadIs(m, h) /\ Len(m) \in Nat /\ Len(ms) \in Nat
    BY HeadEnds
<1>0. h \in 5 .. Len(m) /\ m[1] \in {"req", "resp"} /\ m[1] \in Text /\ m[1] # "eol"
    <2>1. h \in 5 .. Len(m) /\ m[1] \in {"req", "resp"}
        BY <1>a DEF HeadIs
    <2> QED
        BY <2>1 DEF Text, Symbols, Bytes
<1>1. LineOf(m, 1) = 1 /\ EndsOf(m, 1) = 0
    BY <1>0 DEF LineOf, EndsOf
<1>2. SizeRead(m, 1 - 2) = 0
    BY DEF SizeRead, Lengths
<1>3. s \in State
    BY DEF After
<1>4. CASE ms = <<>>
    <2>1. s = Beginning
        BY <1>4 DEF After
    <2>2. /\ s.outcome = "run" /\ s.skip = 0 /\ ~s.wasEndline /\ s.buffer = <<>> /\ s.layers = <<>>
          /\ s.spaces = 0 /\ ~s.identified /\ s.layer.size = 0
        BY <2>1 DEF Beginning, NoLayer
    <2>3. n = Store(s, m[1])
        BY <1>0, <2>2 DEF Step, AtBlankLine
    <2>4. n = [s EXCEPT !.buffer = <<m[1]>>]
        BY <1>0, <1>3, <2>2, <2>3, StoreFirst
    <2>5. <<m[1]>> \in Seq(Symbols)
        BY <1>0, TextFits
    <2> HIDE DEF n
    <2>6. /\ n \in State /\ n.outcome = "run" /\ n.skip = 0 /\ n.layers = <<>> /\ n.spaces = 0
          /\ ~n.wasEndline /\ n.buffer = <<m[1]>> /\ ~n.identified /\ n.layer.size = 0
        BY <1>3, <2>2, <2>4, <2>5 DEF State
    <2>7. HeadAt(m, 1, n, <<>>)
        BY <1>1, <1>2, <2>6 DEF HeadAt
    <2>8. LayersOf(ms, <<>>, Len(ms))
        <3>1. Len(ms) = 0 /\ Len(<<>>) = 0 /\ <<>> \in Seq(Layer)
            BY <1>4
        <3> QED
            BY <3>1 DEF LayersOf
    <2> QED
        BY <2>7, <2>8 DEF n
<1>5. CASE ms # <<>>
    <2> DEFINE p == PushLayer(s)
    <2>0. Len(ms) \in Nat \ {0}
        BY <1>a, <1>5, EmptySeq
    <2>1. InHead(ms, s)
        BY <1>5 DEF After
    <2>2. /\ s.outcome = "run" /\ s.skip = 0 /\ s.identified /\ s.wasEndline /\ s.spaces = 4
          /\ s.buffer = <<"hdr">> /\ s.layer.name = <<ms[Len(ms)][1]>> /\ s.layer.size = 0
          /\ LayersOf(ms, s.layers, Len(ms) - 1) /\ s.layer \in Layer
        BY <1>3, <2>1, StateParts DEF InHead
    <2>3. AtBlankLine(s) /\ ~(s.layer.size > 0)
        BY <2>2 DEF AtBlankLine
    <2>4. n = NextLine(s, m[1], i + 1)
        BY <1>0, <2>2, <2>3 DEF Step
    <2>5. /\ p \in State
          /\ p = [s EXCEPT !.layers = Append(s.layers, s.layer), !.layer = NoLayer,
                           !.identified = FALSE]
        BY <1>3, PushType
    <2> HIDE DEF p
    <2>6. /\ p.outcome = "run" /\ p.skip = 0 /\ ~p.identified /\ p.buffer = <<"hdr">>
          /\ p.layers = Append(s.layers, s.layer) /\ p.layer = NoLayer
        BY <1>3, <2>2, <2>5 DEF State
    <2>7. ReadLine(p) = p
        <3>1. "hdr" \in {"req", "resp", "hdr"}
            OBVIOUS
        <3>2. ~TooShort(p.buffer) /\ p.buffer[1] = "hdr" /\ Last(p.buffer) = "hdr"
            BY <2>6, <3>1, OneSymbol
        <3>3. ~IsStatus(p.buffer) /\ ~IsRequest(p.buffer)
            BY <3>2 DEF IsStatus, IsRequest
        <3> QED
            BY <2>6, <3>2, <3>3 DEF ReadLine
    <2>8. p = ReadLine(Pushed(s))
        BY <2>3, <2>7 DEF Pushed, p
    <2>9. LineBegun(n, p, m[1])
        <3>1. i + 1 \in Nat
            OBVIOUS
        <3>2. LineBegun(NextLine(s, m[1], i + 1), p, m[1])
            BY <1>0, <2>5, <2>6, <2>8, <3>1, LineStarts
        <3> QED
            BY <2>4, <3>2
    <2> HIDE DEF n
    <2>10. NoLayer.size = 0
        BY DEF NoLayer
    <2>11. HeadAt(m, 1, n, p.layers)
        BY <1>1, <1>2, <2>6, <2>9, <2>10 DEF HeadAt, LineBegun
    <2>12. LayersOf(ms, p.layers, Len(ms))
        <3>1. Len(ms) - 1 \in 0 .. Len(ms) - 1 /\ (Len(ms) - 1) + 1 = Len(ms)
            BY <2>0
        <3>2. Body(ms[Len(ms)]) = <<>> /\ Len(<<>>) = 0
            BY <2>0 DEF Bodiless
        <3>3. LayersOf(ms, Append(s.layers, s.layer), (Len(ms) - 1) + 1)
            BY <2>2, <3>1, <3>2, LayersOfNext
        <3> QED
            BY <2>6, <3>1, <3>3
    <2> QED
        BY <2>11, <2>12 DEF n
<1> QED
    BY <1>4, <1>5

LEMMA Within ==
    ASSUME NEW n \in Nat, NEW f \in 1 .. n
    PROVE  /\ f \in 0 .. n /\ f \in 1 .. n + 1 /\ f # n + 1
           /\ \A j \in 1 .. f - 1 : j \in 1 .. n
OBVIOUS

(* Once broken off the parser changes nothing.                             *)
LEMMA BrokenStays ==
    ASSUME NEW m, Len(m) \in Nat, NEW g, NEW at, NEW b \in 0 .. Len(m), g[b].outcome # "run",
           Follows(g, m, at)
    PROVE  g[Len(m)] = g[b]
<1> DEFINE B == {o \in 0 .. Len(m) : o >= b => g[o] = g[b]}
<1>1. 0 \in B
    OBVIOUS
<1>2. ASSUME NEW o \in 1 .. Len(m), o - 1 \in B
      PROVE  o \in B
    <2>1. CASE o <= b
        BY <2>1
    <2>2. CASE o > b
        <3>1. g[o - 1] = g[b]
            BY <1>2, <2>2
        <3>2. g[o] = Step(g[o - 1], m[o], at + o)
            BY DEF Follows
        <3>3. g[o] = g[o - 1]
            BY <3>1, <3>2 DEF Step
        <3> QED
            BY <3>1, <3>3
    <2> QED
        BY <2>1, <2>2
<1>3. 0 .. Len(m) \subseteq B
    <2> HIDE DEF B
    <2> QED
        BY <1>1, <1>2, UpTo
<1>4. Len(m) \in B /\ Len(m) >= b
    BY <1>3
<1> QED
    BY <1>4

(* The first symbol behind a body breaks the parser off.                   *)
LEMMA BehindBody ==
    ASSUME NEW s \in State, BodyEnded(s), NEW c, c # "eol", NEW i
    PROVE  /\ Step(s, c, i) \in State /\ Step(s, c, i).outcome = "broken off"
           /\ Step(s, c, i).layers = s.layers
<1> DEFINE r == ReadLine(s)
<1>0. s.outcome = "run" /\ s.skip = 0 /\ s.wasEndline /\ ~s.identified /\ s.buffer = <<>>
    BY DEF BodyEnded
<1>1. ~AtBlankLine(s)
    BY <1>0 DEF AtBlankLine
<1>2. Step(s, c, i) = NextLine(s, c, i)
    BY <1>0, <1>1 DEF Step
<1>3. TooShort(s.buffer)
    <2>1. Len(<<>>) = 0
        OBVIOUS
    <2> QED
        BY <1>0, <2>1, SizeOfEmpty DEF TooShort, PatternSize
<1>4. r = [s EXCEPT !.outcome = "broken off"] /\ r \in State
    BY <1>0, <1>3, ReadType DEF ReadLine
<1> HIDE DEF r
<1>5. r.outcome = "broken off" /\ r.layers = s.layers
    BY <1>4 DEF State
<1>6. NextLine(s, c, i) = r
    BY <1>1, <1>5 DEF NextLine, r
<1> QED
    BY <1>2, <1>4, <1>5, <1>6

LEMMA BodilessMore ==
    ASSUME NEW ms \in Seq(Seq(Symbols)), NEW m \in Seq(Symbols)
    PROVE  Bodiless(Append(ms, m)) <=> Bodiless(ms) /\ Body(m) = <<>>
<1>1. /\ Len(ms) \in Nat /\ Len(Append(ms, m)) = Len(ms) + 1
      /\ Append(ms, m)[Len(ms) + 1] = m
      /\ \A j \in 1 .. Len(ms) : Append(ms, m)[j] = ms[j]
    BY OneMore
<1>2. \A j \in 1 .. Len(ms) + 1 : j = Len(ms) + 1 \/ j \in 1 .. Len(ms)
    BY <1>1
<1>3. Len(ms) + 1 \in 1 .. Len(ms) + 1 /\ \A j \in 1 .. Len(ms) : j \in 1 .. Len(ms) + 1
    BY <1>1
<1> QED
    BY <1>1, <1>2, <1>3 DEF Bodiless

LEMMA BodyStays ==
    ASSUME NEW ms \in Seq(Seq(Symbols)), NEW m \in Seq(Symbols), NEW f \in 1 .. Len(ms),
           BodyAt(ms, f), NEW layers, LayersOf(ms, layers, f), NEW s \in State,
           s.outcome = "broken off", s.layers = layers
    PROVE  After(Append(ms, m), s)
<1> DEFINE all == Append(ms, m)
<1>1. /\ Len(ms) \in Nat /\ Len(all) = Len(ms) + 1 /\ all # <<>>
      /\ \A j \in 1 .. Len(ms) : all[j] = ms[j]
    BY OneMore
<1>2. LayersOf(all, layers, f)
    <2>1. f \in 0 .. Len(ms)
        BY <1>1, Within
    <2> QED
        BY <2>1, LayersOfMore
<1>3. ~Bodiless(all)
    <2>1. Body(ms[f]) # <<>>
        BY DEF BodyAt
    <2>2. ~Bodiless(ms)
        BY <2>1 DEF Bodiless
    <2> QED
        BY <2>2, BodilessMore
<1> HIDE DEF all
<1>4. f \in 1 .. Len(all) /\ f # Len(all) /\ all[f] = ms[f]
    <2>1. f \in 1 .. Len(ms) + 1 /\ f # Len(ms) + 1
        BY <1>1, Within
    <2> QED
        BY <1>1, <2>1
<1>5. BodyAt(all, f)
    <2>1. \A j \in 1 .. f - 1 : j \in 1 .. Len(ms)
        BY <1>1, Within
    <2>2. \A j \in 1 .. f - 1 : all[j] = ms[j]
        BY <1>1, <2>1
    <2> QED
        BY <1>4, <2>2 DEF BodyAt
<1>6. BodyOver(all, s, f)
    BY <1>2, <1>4, <1>5 DEF BodyOver
<1>7. After(all, s)
    BY <1>1, <1>3, <1>4, <1>6 DEF After
<1> QED
    BY <1>7 DEF all

(* One message more.                                                       *)
LEMMA MessageRead ==
    ASSUME NEW ms \in Seq(Seq(Symbols)), NEW m \in Seq(Symbols), WholeMessage(m),
           NEW g, NEW at \in Nat, NEW payload, After(ms, g[0]),
           Follows(g, m, at),
           \A o \in 0 .. Len(m) : Sane(payload, at + o, g[o])
    PROVE  After(Append(ms, m), g[Len(m)])
<1> DEFINE h == HeadEnd(m)
           all == Append(ms, m)
           last == g[Len(m)]
<1>a. HeadIs(m, h) /\ Len(m) \in Nat
    BY HeadEnds
<1>0. h \in 5 .. Len(m) /\ h \in 0 .. Len(m) /\ h \in 1 .. Len(m) /\ m[1] # "eol"
    BY <1>a DEF HeadIs
<1>b. /\ Len(ms) \in Nat /\ Len(all) = Len(ms) + 1 /\ all # <<>> /\ all[Len(ms) + 1] = m
      /\ all \in Seq(Seq(Symbols)) /\ \A j \in 1 .. Len(ms) : all[j] = ms[j]
    BY OneMore
<1>c. last \in State
    <2>1. Len(m) \in 0 .. Len(m)
        BY <1>a
    <2> QED
        BY <2>1 DEF Sane
<1>d. g[1] = Step(g[0], m[1], at + 1)
    <2>1. 1 \in 1 .. Len(m) /\ 1 - 1 = 0
        BY <1>0
    <2> QED
        BY <2>1 DEF Follows
<1>1. CASE Bodiless(ms)
    <2>1. Sane(payload, at, g[0])
        <3>1. 0 \in 0 .. Len(m) /\ at + 0 = at
            BY <1>a
        <3> QED
            BY <3>1
    <2>2. PICK layers :
            HeadAt(m, 1, Step(g[0], m[1], at + 1), layers) /\ LayersOf(ms, layers, Len(ms))
        BY <1>1, <2>1, MessageBegins
    <2>3. HeadAt(m, 1, g[1], layers)
        BY <1>d, <2>2
    <2>4. HeadOver(m, g[h], layers)
        <3>1. HeadAt(m, HeadEnd(m), g[HeadEnd(m)], layers)
            BY <2>3, HeadRead
        <3> QED
            BY <3>1, AtHeadEnd
    <2>5. LayersOf(all, layers, Len(ms))
        <3>1. Len(ms) \in 0 .. Len(ms)
            BY <1>b
        <3> QED
            BY <2>2, <3>1, LayersOfMore
    <2>6. CASE Body(m) = <<>>
        <3>1. Len(m) = h /\ Declared(m) = 0
            BY <1>a, <1>0, <2>6, BodyIs
        <3>2. Len(all) - 1 = Len(ms) /\ all[Len(all)] = m
            BY <1>b
        <3>3. HeadOver(m, last, layers)
            BY <2>4, <3>1
        <3> HIDE DEF last, all
        <3>4. InHead(all, last)
            BY <2>5, <3>1, <3>2, <3>3 DEF InHead, HeadOver
        <3>5. Bodiless(all)
            BY <1>1, <2>6, BodilessMore DEF all
        <3>6. After(all, last)
            BY <1>b, <1>c, <3>4, <3>5 DEF After
        <3> QED
            BY <3>6 DEF last, all
    <2>7. CASE Body(m) # <<>>
        <3>0. Len(m) - h # 0
            BY <2>7, BodyIs
        <3>1. h + 1 \in 1 .. Len(m) /\ at + h \in Nat /\ (h + 1) - 1 = h /\ at + (h + 1) = (at + h) + 1
            <4>1. h \in Nat /\ h <= Len(m) /\ at \in Nat
                BY <1>a, <1>0
            <4> HIDE DEF h
            <4> QED
                BY <1>a, <3>0, <4>1
        <3>2. Sane(payload, at + h, g[h])
            BY <1>0
        <3>3. PICK named \in Layer :
                /\ named.name = <<m[1]>> /\ named.size = Len(Body(m))
                /\ InBody(m, h + 1, Step(g[h], m[h + 1], (at + h) + 1), Append(layers, named))
            BY <2>4, <2>7, <3>1, <3>2, BodyBegins
        <3>4. g[h + 1] = Step(g[h], m[h + 1], (at + h) + 1)
            BY <3>1 DEF Follows
        <3>5. InBody(m, Len(m), last, Append(layers, named))
            <4>1. InBody(m, h + 1, g[h + 1], Append(layers, named))
                BY <3>3, <3>4
            <4> QED
                BY <3>1, <4>1, BodyRead
        <3>6. LayersOf(all, Append(layers, named), Len(ms) + 1)
            <4>1. Len(ms) \in 0 .. Len(all) - 1
                BY <1>b
            <4>2. named.name = <<all[Len(ms) + 1][1]>> /\ named.size = Len(Body(all[Len(ms) + 1]))
                BY <1>b, <3>3
            <4> HIDE DEF all
            <4> QED
                BY <1>b, <2>5, <4>1, <4>2, LayersOfNext
        <3>7. Len(ms) + 1 = Len(all) /\ Len(ms) + 1 \in 1 .. Len(all)
            BY <1>b
        <3>8. BodyAt(all, Len(ms) + 1)
            <4>1. (Len(ms) + 1) - 1 = Len(ms)
                BY <1>b
            <4> QED
                BY <1>1, <1>b, <2>7, <4>1 DEF BodyAt, Bodiless
        <3>9. ~Bodiless(all)
            BY <2>7, BodilessMore
        <3> HIDE DEF last, all
        <3>10. BodyOver(all, last, Len(ms) + 1)
            <4>1. Len(m) - Len(m) = 0
                BY <1>a
            <4> QED
                BY <3>5, <3>6, <3>7, <3>8, <4>1 DEF BodyOver, BodyEnded, InBody
        <3>11. After(all, last)
            BY <1>b, <1>c, <3>7, <3>9, <3>10 DEF After
        <3> QED
            BY <3>11 DEF last, all
    <2> QED
        BY <2>6, <2>7
<1>2. CASE ~Bodiless(ms)
    <2>1. PICK f \in 1 .. Len(ms) : BodyOver(ms, g[0], f)
        BY <1>2 DEF After
    <2>2. BodyAt(ms, f) /\ LayersOf(ms, g[0].layers, f) /\ g[0] \in State
        BY <2>1 DEF BodyOver, After
    <2>3. last.outcome = "broken off" /\ last.layers = g[0].layers
        <3>1. CASE f = Len(ms)
            <4>1. BodyEnded(g[0])
                BY <2>1, <3>1 DEF BodyOver
            <4>2. /\ Step(g[0], m[1], at + 1).outcome = "broken off"
                  /\ Step(g[0], m[1], at + 1).layers = g[0].layers
                BY <1>0, <2>2, <4>1, BehindBody
            <4>3. 1 \in 0 .. Len(m) /\ g[1].outcome = "broken off" /\ g[1].layers = g[0].layers
                <5>1. 1 \in 0 .. Len(m)
                    BY <1>0
                <5> QED
                    BY <1>d, <4>2, <5>1
            <4>4. last = g[1]
                <5>1. g[1].outcome # "run"
                    BY <4>3
                <5> QED
                    BY <1>a, <4>3, <5>1, BrokenStays
            <4> QED
                BY <4>3, <4>4
        <3>2. CASE f # Len(ms)
            <4>1. g[0].outcome = "broken off"
                BY <2>1, <3>2 DEF BodyOver
            <4>2. 0 \in 0 .. Len(m)
                BY <1>a
            <4>3. last = g[0]
                <5>1. g[0].outcome # "run"
                    BY <4>1
                <5> QED
                    BY <1>a, <4>2, <5>1, BrokenStays
            <4> QED
                BY <4>1, <4>3
        <3> QED
            BY <3>1, <3>2
    <2> HIDE DEF last
    <2>4. After(Append(ms, m), last)
        BY <1>c, <2>2, <2>3, BodyStays
    <2> QED
        BY <2>4 DEF last
<1> QED
    BY <1>1, <1>2

(* The messages of a cut, gathered symbol by symbol.                       *)
OneCut(p, starts, v, i) == IF i \in starts THEN Append(v, <<p[i]>>) ELSE Longer(v, p[i])
Cutting(p, starts, u, n) ==
    u = [i \in 0 .. n |-> IF i = 0 THEN <<>> ELSE OneCut(p, starts, u[i - 1], i)]

LEMMA CuttingExists ==
    ASSUME NEW p, NEW starts, NEW n \in Nat
    PROVE  \E u : Cutting(p, starts, u, n)
<1> DEFINE B == {i \in Nat : \E u : Cutting(p, starts, u, i)}
<1>1. 0 \in B
    <2> DEFINE u == [i \in 0 .. 0 |-> <<>>]
    <2>1. Cutting(p, starts, u, 0)
        BY DEF Cutting
    <2> QED
        BY <2>1
<1>2. ASSUME NEW i \in 1 .. n, i - 1 \in B
      PROVE  i \in B
    <2>1. PICK f : Cutting(p, starts, f, i - 1)
        BY <1>2
    <2> DEFINE g == [j \in 0 .. i |-> IF j = i THEN OneCut(p, starts, f[i - 1], i) ELSE f[j]]
    <2>2. \A j \in 0 .. i - 1 : g[j] = f[j]
        OBVIOUS
    <2>3. \A j \in 0 .. i - 1 : f[j] = IF j = 0 THEN <<>> ELSE OneCut(p, starts, f[j - 1], j)
        BY <2>1 DEF Cutting
    <2>4. \A j \in 0 .. i : g[j] = IF j = 0 THEN <<>> ELSE OneCut(p, starts, g[j - 1], j)
        <3> TAKE j \in 0 .. i
        <3>1. CASE j = i
            <4>1. g[j - 1] = f[i - 1] /\ g[j] = OneCut(p, starts, f[i - 1], i) /\ j # 0
                BY <3>1, <2>2
            <4> QED
                BY <3>1, <4>1
        <3>2. CASE j # i
            <4>1. j \in 0 .. i - 1 /\ (j # 0 => j - 1 \in 0 .. i - 1)
                BY <3>2
            <4>2. g[j] = f[j] /\ (j # 0 => g[j - 1] = f[j - 1])
                BY <4>1, <2>2
            <4> HIDE DEF g
            <4> QED
                BY <4>1, <4>2, <2>3
        <3> QED
            BY <3>1, <3>2
    <2>5. g = [j \in 0 .. i |-> g[j]]
        OBVIOUS
    <2>6. Cutting(p, starts, g, i)
        <3> HIDE DEF g
        <3> QED
            BY <2>4, <2>5 DEF Cutting
    <2> QED
        BY <2>6
<1>3. 0 .. n \subseteq B
    <2> HIDE DEF B
    <2> QED
        BY <1>1, <1>2, UpTo
<1> QED
    BY <1>3

(* Only the pieces that are joined matter.                                 *)
LEMMA SameJoined ==
    ASSUME NEW f, NEW g, NEW n \in Nat, \A k \in 1 .. n : f[k] = g[k]
    PROVE  Joined(f, n) = Joined(g, n)
<1>1. [k \in 1 .. n |-> f[k]] = [k \in 1 .. n |-> g[k]]
    OBVIOUS
<1> QED
    BY <1>1 DEF Joined

(* What has been gathered of a cut when i symbols have been read.          *)
Gathered(p, v, i) ==
    /\ v \in Seq(Seq(Symbols))
    /\ \A j \in 1 .. Len(v) : v[j] # <<>>
    /\ i # 0 => Len(v) # 0
    /\ Joined(v, Len(v)) = SubSeq(p, 1, i)

LEMMA MessageBegun ==
    ASSUME NEW p \in Seq(Symbols), NEW i \in 1 .. Len(p), NEW v, Gathered(p, v, i - 1)
    PROVE  Gathered(p, Append(v, <<p[i]>>), i)
<1> DEFINE m == <<p[i]>>
           w == Append(v, m)
           l == Len(v)
<1>0. v \in Seq(Seq(Symbols)) /\ p[i] \in Symbols
    BY DEF Gathered
<1>1. m \in Seq(Symbols) /\ m # <<>>
    BY <1>0
<1>2. /\ l \in Nat /\ Len(w) = l + 1 /\ w \in Seq(Seq(Symbols)) /\ w[l + 1] = m
      /\ \A j \in 1 .. l : w[j] = v[j]
    BY <1>0, <1>1, OneMore
<1>3. SubSeq(p, 1, i) = SubSeq(p, 1, i - 1) \o m
    OBVIOUS
<1> HIDE DEF m, w
<1>4. Pieces(w, l + 1, Symbols)
    <2>1. DOMAIN w = 1 .. l + 1
        BY <1>2, LenProperties
    <2> QED
        BY <1>2, <2>1, ElementOfSeq DEF Pieces
<1>5. Joined(w, l + 1) = Joined(w, l) \o m
    BY <1>2, <1>4, JoinedNext
<1>6. Joined(w, l) = Joined(v, l)
    BY <1>2, SameJoined
<1>7. Joined(w, Len(w)) = SubSeq(p, 1, i)
    BY <1>2, <1>3, <1>5, <1>6 DEF Gathered
<1>8. \A j \in 1 .. Len(w) : w[j] # <<>>
    <2> TAKE j \in 1 .. Len(w)
    <2>1. j = l + 1 \/ j \in 1 .. l
        BY <1>2
    <2> QED
        BY <1>1, <1>2, <2>1 DEF Gathered
<1>9. Len(w) # 0
    BY <1>2
<1>10. Gathered(p, w, i)
    BY <1>2, <1>7, <1>8, <1>9 DEF Gathered
<1> QED
    BY <1>10 DEF w, m

LEMMA MessageLonger ==
    ASSUME NEW p \in Seq(Symbols), NEW i \in 2 .. Len(p), NEW v, Gathered(p, v, i - 1)
    PROVE  Gathered(p, Longer(v, p[i]), i)
<1> DEFINE l == Len(v)
           m == v[l]
           x == p[i]
           w == Longer(v, x)
<1>0. v \in Seq(Seq(Symbols)) /\ x \in Symbols /\ l \in Nat \ {0} /\ DOMAIN v = 1 .. l
    BY DEF Gathered
<1>a. /\ l \in 1 .. l /\ \A j \in 1 .. l - 1 : j \in 1 .. l /\ j # l
      /\ \A j \in 1 .. l : j = l \/ j \in 1 .. l - 1
    <2>1. l \in Nat \ {0}
        BY <1>0
    <2> HIDE DEF l
    <2> QED
        BY <2>1
<1>1. m \in Seq(Symbols) /\ Append(m, x) \in Seq(Symbols) /\ Append(m, x) # <<>>
      /\ Append(m, x) = m \o <<x>>
    <2>1. l \in 1 .. l
        BY <1>0
    <2>2. m \in Seq(Symbols)
        BY <1>0, <2>1, ElementOfSeq
    <2> HIDE DEF m, x
    <2> QED
        BY <1>0, <2>2, AppendProperties, AppendIsConcat
<1>2. w = [v EXCEPT ![l] = Append(m, x)]
    BY DEF Longer
<1> HIDE DEF w
<1>3. /\ w \in Seq(Seq(Symbols)) /\ Len(w) = l /\ w[l] = Append(m, x)
      /\ \A j \in 1 .. l - 1 : w[j] = v[j]
    <2> DEFINE e == Append(m, x)
    <2>2. e \in Seq(Symbols) /\ w = [v EXCEPT ![l] = e]
        BY <1>1, <1>2
    <2> HIDE DEF e
    <2>3. /\ w \in Seq(Seq(Symbols)) /\ Len(w) = l
          /\ \A j \in 1 .. l : w[j] = IF j = l THEN e ELSE v[j]
        BY <1>0, <1>a, <2>2, ExceptSeq
    <2> HIDE DEF l
    <2> QED
        BY <1>a, <2>3 DEF e
<1>4. DOMAIN w = 1 .. l
    BY <1>3, LenProperties
<1>5. Pieces(w, l, Symbols) /\ Pieces(v, l, Symbols)
    BY <1>0, <1>3, ElementOfSeq DEF Pieces
<1>6. l \in 1 .. l /\ l - 1 \in Nat
    BY <1>0
<1>7. Joined(w, l) = Joined(w, l - 1) \o w[l] /\ Joined(v, l) = Joined(v, l - 1) \o m
    BY <1>5, <1>6, JoinedTurn, <1>0
<1>8. Joined(w, l - 1) = Joined(v, l - 1)
    BY <1>3, <1>6, SameJoined
<1>9. Joined(v, l - 1) \in Seq(Symbols)
    <2>1. Pieces(v, l - 1, Symbols)
        BY <1>0, <1>5 DEF Pieces
    <2> QED
        BY <1>6, <2>1, JoinedType
<1>10. Joined(w, l) = Joined(v, l) \o <<x>>
    <2> DEFINE a == Joined(v, l - 1)
    <2>1. a \in Seq(Symbols) /\ <<x>> \in Seq(Symbols)
        BY <1>0, <1>9
    <2>2. Joined(w, l) = a \o (m \o <<x>>) /\ Joined(v, l) = a \o m
        BY <1>1, <1>3, <1>7, <1>8
    <2> HIDE DEF a, m, x
    <2>3. a \o (m \o <<x>>) = (a \o m) \o <<x>>
        BY <1>1, <2>1, ConcatAssociative
    <2> QED
        BY <2>2, <2>3
<1>11. SubSeq(p, 1, i) = SubSeq(p, 1, i - 1) \o <<x>>
    OBVIOUS
<1>12. Joined(w, Len(w)) = SubSeq(p, 1, i)
    BY <1>3, <1>10, <1>11 DEF Gathered
<1>13. \A j \in 1 .. Len(w) : w[j] # <<>>
    <2> TAKE j \in 1 .. Len(w)
    <2>1. j = l \/ (j \in 1 .. l - 1 /\ j \in 1 .. l)
        BY <1>3, <1>a
    <2>2. \A k \in 1 .. l : v[k] # <<>>
        BY DEF Gathered
    <2> HIDE DEF l, m, x
    <2> QED
        BY <1>1, <1>3, <2>1, <2>2
<1>14. Len(w) # 0
    BY <1>0, <1>3
<1> QED
    BY <1>3, <1>12, <1>13, <1>14 DEF Gathered, w, x

(* The messages of a cut are pieces of the bytes, none of them empty.      *)
LEMMA MessagesJoin ==
    ASSUME NEW p \in Seq(Symbols), NEW starts, p # <<>> => 1 \in starts
    PROVE  Gathered(p, Messages(p, starts), Len(p))
<1> DEFINE n == Len(p)
           u == CHOOSE v : Cutting(p, starts, v, n)
           B == {i \in 0 .. n : Gathered(p, u[i], i)}
<1>0. n \in Nat
    OBVIOUS
<1>1. Messages(p, starts) = u[n]
    BY DEF Messages, Cutting, OneCut
<1>2. Cutting(p, starts, u, n)
    BY <1>0, CuttingExists
<1> HIDE DEF u
<1>3. \A i \in 0 .. n : u[i] = IF i = 0 THEN <<>> ELSE OneCut(p, starts, u[i - 1], i)
    BY <1>2 DEF Cutting
<1>4. 0 \in B
    <2>1. 0 \in 0 .. n /\ SubSeq(p, 1, 0) = <<>>
        BY <1>0
    <2>2. u[0] = <<>>
        BY <1>3, <2>1
    <2>3. <<>> \in Seq(Seq(Symbols)) /\ Len(<<>>) = 0 /\ Joined(<<>>, 0) = <<>>
        BY JoinedZero
    <2>4. \A j \in 1 .. Len(<<>>) : <<>>[j] # <<>>
        BY <2>3
    <2>5. Gathered(p, <<>>, 0)
        BY <2>1, <2>3, <2>4 DEF Gathered
    <2>6. Gathered(p, u[0], 0)
        BY <2>2, <2>5
    <2> QED
        BY <2>1, <2>6
<1>5. ASSUME NEW i \in 1 .. n, i - 1 \in B
      PROVE  i \in B
    <2>1. i \in 0 .. n /\ i # 0
        OBVIOUS
    <2>2. u[i] = OneCut(p, starts, u[i - 1], i)
        BY <1>3, <2>1
    <2>3. Gathered(p, u[i - 1], i - 1)
        BY <1>5
    <2>4. CASE i \in starts
        BY <2>1, <2>2, <2>3, <2>4, MessageBegun DEF OneCut
    <2>5. CASE i \notin starts
        <3>1. p # <<>>
            BY <2>1
        <3>2. i \in 2 .. n
            BY <2>5, <3>1
        <3> QED
            BY <2>1, <2>2, <2>3, <2>5, <3>2, MessageLonger DEF OneCut
    <2> QED
        BY <2>4, <2>5
<1>6. 0 .. n \subseteq B
    <2> HIDE DEF B
    <2> QED
        BY <1>0, <1>4, <1>5, UpTo
<1>7. n \in 0 .. n
    BY <1>0
<1> QED
    BY <1>1, <1>6, <1>7

(* The first i messages of a cut, for i of 0 to their number.              *)
Gathering(f, u, n) ==
    /\ u[0] = <<>>
    /\ \A i \in 1 .. n : u[i] = IF f[i] = <<>> THEN u[i - 1] ELSE Append(u[i - 1], f[i])

LEMMA FirstMessages ==
    ASSUME NEW p \in Seq(Symbols), NEW ms, Gathered(p, ms, Len(p))
    PROVE  /\ ms \in Seq(Seq(Symbols)) /\ Len(ms) \in Nat
           /\ Pieces(ms, Len(ms), Symbols)
           /\ Joined(ms, Len(ms)) = p
           /\ \E u : u[Len(ms)] = ms /\ Gathering(ms, u, Len(ms))
<1> DEFINE n == Len(ms)
           u == [i \in 0 .. n |-> SubSeq(ms, 1, i)]
<1>1. ms \in Seq(Seq(Symbols)) /\ n \in Nat /\ DOMAIN ms = 1 .. n
    BY DEF Gathered
<1>2. Pieces(ms, n, Symbols)
    BY <1>1, ElementOfSeq DEF Pieces
<1>3. Joined(ms, n) = p
    <2>1. SubSeq(p, 1, Len(p)) = p
        OBVIOUS
    <2> QED
        BY <2>1 DEF Gathered
<1>4. u[n] = ms /\ u[0] = <<>>
    <2>1. n \in 0 .. n /\ 0 \in 0 .. n
        BY <1>1
    <2>2. SubSeq(ms, 1, n) = ms /\ SubSeq(ms, 1, 0) = <<>>
        BY <1>1
    <2> QED
        BY <2>1, <2>2
<1>5. ASSUME NEW i \in 1 .. n
      PROVE  u[i] = IF ms[i] = <<>> THEN u[i - 1] ELSE Append(u[i - 1], ms[i])
    <2>1. i \in 0 .. n /\ i - 1 \in 0 .. n
        OBVIOUS
    <2>2. ms[i] # <<>>
        BY DEF Gathered
    <2>3. SubSeq(ms, 1, i) = Append(SubSeq(ms, 1, i - 1), ms[i])
        BY <1>1
    <2> QED
        BY <2>1, <2>2, <2>3
<1>6. Gathering(ms, u, n)
    <2> HIDE DEF u
    <2> QED
        BY <1>4, <1>5 DEF Gathering
<1> QED
    BY <1>1, <1>2, <1>3, <1>4, <1>6

AllWhole(ms) == \A j \in DOMAIN ms : WholeMessage(ms[j])
WholeUpTo(f, i) == \A k \in 1 .. i : f[k] # <<>> => WholeMessage(f[k])

(* If the first i messages are whole then so is each piece of them.        *)
LEMMA PiecesWhole ==
    ASSUME NEW f, NEW n \in Nat, Pieces(f, n, Symbols), NEW u, Gathering(f, u, n)
    PROVE  \A i \in 0 .. n : u[i] \in Seq(Seq(Symbols)) /\ (AllWhole(u[i]) => WholeUpTo(f, i))
<1> DEFINE B == {i \in 0 .. n : u[i] \in Seq(Seq(Symbols)) /\ (AllWhole(u[i]) => WholeUpTo(f, i))}
<1>1. 0 \in B
    <2>1. u[0] = <<>> /\ <<>> \in Seq(Seq(Symbols))
        BY DEF Gathering
    <2>2. WholeUpTo(f, 0)
        BY DEF WholeUpTo
    <2>3. 0 \in 0 .. n
        OBVIOUS
    <2> QED
        BY <2>1, <2>2, <2>3
<1>2. ASSUME NEW i \in 1 .. n, i - 1 \in B
      PROVE  i \in B
    <2>1. /\ u[i - 1] \in Seq(Seq(Symbols)) /\ (AllWhole(u[i - 1]) => WholeUpTo(f, i - 1))
          /\ f[i] \in Seq(Symbols)
        BY <1>2 DEF Pieces
    <2>2. u[i] = IF f[i] = <<>> THEN u[i - 1] ELSE Append(u[i - 1], f[i])
        BY DEF Gathering
    <2>3. \A k \in 1 .. i : k = i \/ k \in 1 .. i - 1
        OBVIOUS
    <2>4. CASE f[i] = <<>>
        <3>1. u[i] = u[i - 1]
            BY <2>2, <2>4
        <3>2. WholeUpTo(f, i - 1) => WholeUpTo(f, i)
            BY <2>3, <2>4 DEF WholeUpTo
        <3> QED
            BY <2>1, <3>1, <3>2
    <2>5. CASE f[i] # <<>>
        <3> DEFINE all == Append(u[i - 1], f[i])
                   l == Len(u[i - 1])
        <3>1. /\ l \in Nat /\ Len(all) = l + 1 /\ all \in Seq(Seq(Symbols)) /\ all[l + 1] = f[i]
              /\ \A j \in 1 .. l : all[j] = u[i - 1][j]
            BY <2>1, OneMore
        <3>2. DOMAIN all = 1 .. l + 1 /\ DOMAIN u[i - 1] = 1 .. l
            BY <2>1, <3>1, LenProperties
        <3>3. u[i] = all
            BY <2>2, <2>5
        <3> HIDE DEF all, l
        <3>4. l + 1 \in 1 .. l + 1 /\ \A j \in 1 .. l : j \in 1 .. l + 1
            BY <3>1
        <3>5. AllWhole(all) => AllWhole(u[i - 1]) /\ WholeMessage(f[i])
            BY <3>1, <3>2, <3>4 DEF AllWhole
        <3>6. WholeUpTo(f, i - 1) /\ WholeMessage(f[i]) => WholeUpTo(f, i)
            BY <2>3 DEF WholeUpTo
        <3> QED
            BY <2>1, <3>1, <3>3, <3>5, <3>6
    <2> QED
        BY <2>4, <2>5
<1>3. 0 .. n \subseteq B
    <2> HIDE DEF B
    <2> QED
        BY <1>1, <1>2, UpTo
<1> QED
    BY <1>3

(* Where each payload is among the bytes of the connection.                *)
Prefixed(s, t) == Len(s) <= Len(t) /\ \A o \in 1 .. Len(s) : t[o] = s[o]

LEMMA JoinedPrefix ==
    ASSUME NEW X, NEW f, NEW n \in Nat, Pieces(f, n, X), NEW i \in 0 .. n
    PROVE  Prefixed(Joined(f, i), Joined(f, n))
<1> DEFINE s == Joined(f, i)
           B == {j \in 0 .. n : j >= i => Prefixed(s, Joined(f, j))}
<1>0. \A j \in 0 .. n : j \in Nat /\ Joined(f, j) \in Seq(X)
    <2> TAKE j \in 0 .. n
    <2>1. j \in Nat /\ Pieces(f, j, X)
        BY DEF Pieces
    <2> QED
        BY <2>1, JoinedType
<1>a. Prefixed(s, s)
    <2>1. Len(s) \in Nat
        BY <1>0
    <2> QED
        BY <2>1 DEF Prefixed
<1>1. 0 \in B
    <2>1. 0 >= i => i = 0
        OBVIOUS
    <2>2. 0 >= i => Prefixed(s, Joined(f, 0))
        BY <1>a, <2>1
    <2> QED
        BY <2>2
<1>2. ASSUME NEW j \in 1 .. n, j - 1 \in B
      PROVE  j \in B
    <2>1. CASE j < i
        BY <2>1
    <2>2. CASE j = i
        BY <1>a, <2>2
    <2>3. CASE j > i
        <3>1. Joined(f, j) = Joined(f, j - 1) \o f[j] /\ f[j] \in Seq(X)
            BY JoinedTurn
        <3>2. j - 1 \in 0 .. n /\ j - 1 >= i
            BY <2>3
        <3>3. Joined(f, j - 1) \in Seq(X) /\ s \in Seq(X)
            BY <1>0, <3>2
        <3>4. Prefixed(s, Joined(f, j - 1))
            BY <1>2, <3>2
        <3> DEFINE a == Joined(f, j - 1)
                   b == f[j]
        <3>5. a \in Seq(X) /\ b \in Seq(X) /\ s \in Seq(X) /\ Prefixed(s, a)
            BY <3>1, <3>3, <3>4
        <3> HIDE DEF a, b, s
        <3>6. /\ Len(a \o b) = Len(a) + Len(b) /\ Len(a) \in Nat /\ Len(b) \in Nat /\ Len(s) \in Nat
              /\ \A o \in 1 .. Len(a) : (a \o b)[o] = a[o]
            BY <3>5, ConcatProperties, LenProperties
        <3>7. Prefixed(s, a \o b)
            <4>1. Len(s) <= Len(a) /\ \A o \in 1 .. Len(s) : a[o] = s[o] /\ o \in 1 .. Len(a)
                BY <3>5, <3>6 DEF Prefixed
            <4>2. Len(s) <= Len(a \o b)
                BY <3>6, <4>1
            <4> QED
                BY <3>6, <4>1, <4>2 DEF Prefixed
        <3>8. Prefixed(s, Joined(f, j))
            BY <3>1, <3>7 DEF a, b
        <3> QED
            BY <3>8
    <2> QED
        BY <2>1, <2>2, <2>3
<1>3. 0 .. n \subseteq B
    <2> HIDE DEF B
    <2> QED
        BY <1>1, <1>2, UpTo
<1>4. n \in B /\ n >= i
    BY <1>3
<1> QED
    BY <1>4

LiesAt(p, m, at) == \A o \in 1 .. Len(m) : p[at + o] = m[o]

LEMMA PieceAt ==
    ASSUME NEW X, NEW f, NEW n \in Nat, Pieces(f, n, X), NEW i \in 1 .. n
    PROVE  /\ Len(Joined(f, i - 1)) \in Nat /\ Len(f[i]) \in Nat
           /\ Len(Joined(f, i)) = Len(Joined(f, i - 1)) + Len(f[i])
           /\ Len(Joined(f, i)) <= Len(Joined(f, n))
           /\ LiesAt(Joined(f, n), f[i], Len(Joined(f, i - 1)))
<1> DEFINE a == Joined(f, i - 1)
           b == f[i]
           p == Joined(f, n)
<1>1. Joined(f, i) = a \o b /\ b \in Seq(X)
    BY JoinedTurn
<1>2. a \in Seq(X)
    <2>1. i - 1 \in Nat /\ Pieces(f, i - 1, X)
        BY DEF Pieces
    <2> QED
        BY <2>1, JoinedType
<1>3. Prefixed(a \o b, p)
    <2>1. i \in 0 .. n
        OBVIOUS
    <2>2. Prefixed(Joined(f, i), Joined(f, n))
        BY <2>1, JoinedPrefix
    <2> QED
        BY <1>1, <2>2
<1> HIDE DEF a, b, p
<1>4. /\ Len(a \o b) = Len(a) + Len(b) /\ Len(a) \in Nat /\ Len(b) \in Nat
      /\ \A o \in 1 .. Len(b) : (a \o b)[Len(a) + o] = b[o]
    <2>1. \A o \in 1 .. Len(b) : (a \o b)[Len(a) + o] = b[o]
        BY <1>1, <1>2
    <2> QED
        BY <1>1, <1>2, <2>1, ConcatProperties, LenProperties
<1>5. \A o \in 1 .. Len(b) : Len(a) + o \in 1 .. Len(a \o b)
    BY <1>4
<1>6. LiesAt(p, b, Len(a))
    BY <1>3, <1>4, <1>5 DEF Prefixed, LiesAt
<1>7. Len(a \o b) <= Len(p)
    BY <1>3 DEF Prefixed
<1>8. Len(Joined(f, i)) = Len(a) + Len(b) /\ Len(Joined(f, i)) <= Len(p)
    BY <1>1, <1>4, <1>7
<1> QED
    BY <1>4, <1>6, <1>8 DEF a, b, p

ReadUpTo(f, u, p, i) == After(u[i], Parsed(p)[Len(Joined(f, i))])

(* Every message is read as one.                                           *)
LEMMA PieceRead ==
    ASSUME NEW f, NEW n \in Nat, Pieces(f, n, Symbols), NEW u, Gathering(f, u, n),
           WholeUpTo(f, n), NEW i \in 1 .. n, u[i - 1] \in Seq(Seq(Symbols)),
           NEW p \in Seq(Symbols), p = Joined(f, n), ReadUpTo(f, u, p, i - 1)
    PROVE  ReadUpTo(f, u, p, i)
<1> DEFINE at == Len(Joined(f, i - 1))
           m == f[i]
           g == [o \in 0 .. Len(m) |-> Parsed(p)[at + o]]
<1>1. /\ at \in Nat /\ Len(m) \in Nat /\ Len(Joined(f, i)) = at + Len(m)
      /\ at + Len(m) <= Len(p) /\ LiesAt(p, m, at)
    BY PieceAt
<1>2. m \in Seq(Symbols) /\ u[i] = IF m = <<>> THEN u[i - 1] ELSE Append(u[i - 1], m)
    BY DEF Pieces, Gathering
<1>3. m # <<>> => WholeMessage(m)
    BY DEF WholeUpTo
<1>4. After(u[i - 1], Parsed(p)[at])
    BY DEF ReadUpTo
<1>5. Len(p) \in Nat
    OBVIOUS
<1> HIDE DEF at, m
<1>6. CASE m = <<>>
    <2>1. Len(m) = 0
        BY <1>6
    <2> QED
        BY <1>1, <1>2, <1>4, <1>6, <2>1 DEF ReadUpTo
<1>7. CASE m # <<>>
    <2>1. g[0] = Parsed(p)[at] /\ g[Len(m)] = Parsed(p)[at + Len(m)]
        BY <1>1
    <2>2. Follows(g, m, at)
        <3> SUFFICES ASSUME NEW o \in 1 .. Len(m)
                     PROVE  g[o] = Step(g[o - 1], m[o], at + o)
            BY DEF Follows
        <3>1. /\ at + o \in 1 .. Len(p) /\ (at + o) - 1 = at + (o - 1)
              /\ o \in 0 .. Len(m) /\ o - 1 \in 0 .. Len(m)
            BY <1>1, <1>5
        <3>2. Parsed(p)[at + o] = Step(Parsed(p)[(at + o) - 1], p[at + o], at + o)
            BY <1>5, <3>1, ParsedRuns
        <3>3. g[o] = Parsed(p)[at + o] /\ g[o - 1] = Parsed(p)[at + (o - 1)] /\ p[at + o] = m[o]
            BY <1>1, <3>1 DEF LiesAt
        <3> HIDE DEF g
        <3> QED
            BY <3>1, <3>2, <3>3
    <2>3. \A o \in 0 .. Len(m) : Sane(p, at + o, g[o])
        <3> TAKE o \in 0 .. Len(m)
        <3>1. at + o \in 0 .. Len(p)
            BY <1>1, <1>5
        <3>2. Sane(p, at + o, Parsed(p)[at + o])
            BY <3>1, ParsedSane
        <3> QED
            BY <3>2
    <2>4. After(u[i - 1], g[0])
        BY <1>4, <2>1
    <2> HIDE DEF g
    <2>5. After(Append(u[i - 1], m), g[Len(m)])
        BY <1>1, <1>2, <1>3, <1>7, <2>2, <2>3, <2>4, MessageRead
    <2> QED
        BY <1>1, <1>2, <1>7, <2>1, <2>5 DEF ReadUpTo
<1> QED
    BY <1>6, <1>7

LEMMA AllRead ==
    ASSUME NEW f, NEW n \in Nat, Pieces(f, n, Symbols), NEW u, Gathering(f, u, n),
           AllWhole(u[n]), NEW p \in Seq(Symbols), p = Joined(f, n)
    PROVE  After(u[n], Parsed(p)[Len(p)])
<1> DEFINE B == {i \in 0 .. n : ReadUpTo(f, u, p, i)}
<1>0. n \in 0 .. n /\ 0 \in 0 .. n
    OBVIOUS
<1>a. WholeUpTo(f, n)
    BY <1>0, PiecesWhole
<1>1. 0 \in B
    <2>1. u[0] = <<>>
        BY DEF Gathering
    <2>2. Len(Joined(f, 0)) = 0
        BY JoinedZero
    <2>3. Parsed(p)[0] = Beginning
        <3>1. Len(p) \in Nat
            OBVIOUS
        <3> QED
            BY <3>1, ParsedRuns
    <2>4. Bodiless(<<>>)
        BY DEF Bodiless
    <2>5. After(<<>>, Beginning)
        BY <2>4, BeginningType DEF After
    <2>6. ReadUpTo(f, u, p, 0)
        BY <2>1, <2>2, <2>3, <2>5 DEF ReadUpTo
    <2> QED
        BY <1>0, <2>6
<1>2. ASSUME NEW i \in 1 .. n, i - 1 \in B
      PROVE  i \in B
    <2>1. i - 1 \in 0 .. n /\ i \in 0 .. n
        OBVIOUS
    <2>2. u[i - 1] \in Seq(Seq(Symbols))
        BY <2>1, PiecesWhole
    <2>3. ReadUpTo(f, u, p, i - 1)
        BY <1>2
    <2>4. ReadUpTo(f, u, p, i)
        BY <1>a, <2>2, <2>3, PieceRead
    <2> QED
        BY <2>1, <2>4
<1>3. 0 .. n \subseteq B
    <2> HIDE DEF B
    <2> QED
        BY <1>1, <1>2, UpTo
<1>4. ReadUpTo(f, u, p, n)
    BY <1>0, <1>3
<1> QED
    BY <1>4 DEF ReadUpTo

(* The connection begins with the start line of its first message.         *)
Begun(f, u, i) ==
    /\ u[i] = <<>> => Joined(f, i) = <<>>
    /\ u[i] # <<>> => Joined(f, i) # <<>> /\ Joined(f, i)[1] \in {"req", "resp"}

LEMMA AllBegun ==
    ASSUME NEW f, NEW n \in Nat, Pieces(f, n, Symbols), NEW u, Gathering(f, u, n), WholeUpTo(f, n)
    PROVE  Begun(f, u, n)
<1> DEFINE B == {i \in 0 .. n : Begun(f, u, i)}
<1>0. n \in 0 .. n /\ 0 \in 0 .. n
    OBVIOUS
<1>1. 0 \in B
    <2>1. u[0] = <<>> /\ Joined(f, 0) = <<>>
        BY JoinedZero DEF Gathering
    <2>2. Begun(f, u, 0)
        BY <2>1 DEF Begun
    <2> QED
        BY <1>0, <2>2
<1>2. ASSUME NEW i \in 1 .. n, i - 1 \in B
      PROVE  i \in B
    <2> DEFINE a == Joined(f, i - 1)
               m == f[i]
    <2>1. Joined(f, i) = a \o m /\ m \in Seq(Symbols)
        BY JoinedTurn
    <2>2. a \in Seq(Symbols) /\ i \in 0 .. n
        <3>1. i - 1 \in Nat /\ Pieces(f, i - 1, Symbols)
            BY DEF Pieces
        <3> QED
            BY <3>1, JoinedType
    <2>3. Begun(f, u, i - 1)
        BY <1>2
    <2>4. u[i] = IF m = <<>> THEN u[i - 1] ELSE Append(u[i - 1], m)
        BY DEF Gathering
    <2>5. m # <<>> => WholeMessage(m)
        BY DEF WholeUpTo
    <2>6. (u[i - 1] = <<>> => a = <<>>) /\ (u[i - 1] # <<>> => a # <<>> /\ a[1] \in {"req", "resp"})
        BY <2>3 DEF Begun
    <2>7. u[i - 1] \in Seq(Seq(Symbols))
        <3>1. i - 1 \in 0 .. n
            OBVIOUS
        <3> QED
            BY <3>1, PiecesWhole
    <2> HIDE DEF a, m
    <2>8. CASE m = <<>>
        <3>1. a \o m = a
            BY <2>2, <2>8, EmptyFirst
        <3>2. Begun(f, u, i)
            BY <2>1, <2>4, <2>6, <2>8, <3>1 DEF Begun
        <3> QED
            BY <2>2, <3>2
    <2>9. CASE m # <<>>
        <3>1. u[i] = Append(u[i - 1], m)
            BY <2>4, <2>9
        <3>2. u[i] # <<>>
            BY <2>1, <2>7, <3>1, OneMore
        <3>3. m[1] \in {"req", "resp"} /\ Len(m) \in Nat /\ Len(m) # 0
            <4>1. WholeMessage(m)
                BY <2>5, <2>9
            <4>2. m[1] \in {"req", "resp"}
                BY <4>1 DEF WholeMessage
            <4> QED
                BY <2>1, <2>9, <4>2, EmptySeq
        <3>4. a \o m # <<>> /\ (a \o m)[1] \in {"req", "resp"}
            <4>1. CASE a = <<>>
                <5>1. a \o m = m
                    BY <2>1, <4>1, EmptyFirst
                <5> QED
                    BY <2>9, <3>3, <5>1
            <4>2. CASE a # <<>>
                <5>1. a[1] \in {"req", "resp"}
                    BY <2>6, <4>2
                <5>2. Len(a) \in Nat /\ Len(a) # 0
                    BY <2>2, <4>2, EmptySeq
                <5>3. (a \o m)[1] = a[1]
                    BY <2>1, <2>2, <5>2
                <5>4. Len(a \o m) # 0
                    BY <2>1, <2>2, <3>3, <5>2, ConcatProperties
                <5>5. a \o m # <<>>
                    BY <5>4
                <5> QED
                    BY <5>1, <5>3, <5>5
            <4> QED
                BY <4>1, <4>2
        <3>5. Begun(f, u, i)
            BY <2>1, <3>2, <3>4 DEF Begun
        <3> QED
            BY <2>2, <3>5
    <2> QED
        BY <2>8, <2>9
<1>3. 0 .. n \subseteq B
    <2> HIDE DEF B
    <2> QED
        BY <1>1, <1>2, UpTo
<1> QED
    BY <1>0, <1>3

(* What the view shows of an exchange captured whole.                      *)
Shown(ms, s) ==
    LET last == IF FirstWithBody(ms) = {} THEN Len(ms) - 1 ELSE Max(FirstWithBody(ms))
    IN  /\ s.parser
        /\ Len(s.layers) = last
        /\ \A j \in 1..last :
              s.layers[j].name = <<ms[j][1]>> /\ s.layers[j].size = Len(Body(ms[j]))
        /\ s.appLayerName = "HTTP" <=> FirstWithBody(ms) = {} \/ last = Len(ms)

LEMMA BodilessShown ==
    ASSUME NEW ms \in Seq(Seq(Symbols)), ms # <<>>, Bodiless(ms), NEW end, After(ms, end),
           NEW s, s.parser = (end.outcome # "not http"), s.layers = end.layers,
           s.appLayerName = IF end.outcome = "run" THEN "HTTP" ELSE ""
    PROVE  Shown(ms, s)
<1>1. InHead(ms, end)
    BY DEF After
<1>2. end.outcome = "run" /\ LayersOf(ms, end.layers, Len(ms) - 1)
    BY <1>1 DEF InHead
<1>3. FirstWithBody(ms) = {}
    <2>1. DOMAIN ms = 1 .. Len(ms)
        BY LenProperties
    <2> QED
        BY <2>1 DEF FirstWithBody, Bodiless
<1>4. s.parser /\ s.appLayerName = "HTTP"
    BY <1>2
<1> QED
    BY <1>2, <1>3, <1>4 DEF Shown, LayersOf

LEMMA FirstBodyIs ==
    ASSUME NEW ms \in Seq(Seq(Symbols)), NEW f \in 1 .. Len(ms), BodyAt(ms, f)
    PROVE  FirstWithBody(ms) = {f} /\ Max(FirstWithBody(ms)) = f
<1>1. DOMAIN ms = 1 .. Len(ms) /\ Len(ms) \in Nat
    OBVIOUS
<1>2. f \in FirstWithBody(ms)
    BY <1>1 DEF FirstWithBody, BodyAt
<1>3. ASSUME NEW i \in FirstWithBody(ms)
      PROVE  i = f
    <2>1. i \in 1 .. Len(ms) /\ Body(ms[i]) # <<>> /\ \A j \in 1 .. i - 1 : Body(ms[j]) = <<>>
        BY <1>1 DEF FirstWithBody
    <2>2. ~(i < f)
        <3>1. i < f => i \in 1 .. f - 1
            BY <1>1, <2>1
        <3> QED
            BY <2>1, <3>1 DEF BodyAt
    <2>3. ~(f < i)
        <3>1. f < i => f \in 1 .. i - 1
            BY <1>1, <2>1
        <3> QED
            BY <2>1, <3>1 DEF BodyAt
    <2> QED
        BY <1>1, <2>1, <2>2, <2>3
<1>4. FirstWithBody(ms) = {f}
    BY <1>2, <1>3
<1>5. Max({f}) = f
    <2>1. f \in Nat
        BY <1>1
    <2> QED
        BY <2>1 DEF Max
<1> QED
    BY <1>4, <1>5

LEMMA BodyShown ==
    ASSUME NEW ms \in Seq(Seq(Symbols)), ~Bodiless(ms), NEW end, After(ms, end),
           NEW s, s.parser = (end.outcome # "not http"), s.layers = end.layers,
           s.appLayerName = IF end.outcome = "run" THEN "HTTP" ELSE ""
    PROVE  Shown(ms, s)
<1>1. PICK f \in 1 .. Len(ms) : BodyOver(ms, end, f)
    BY DEF After
<1>2. BodyAt(ms, f) /\ LayersOf(ms, end.layers, f)
    BY <1>1 DEF BodyOver
<1>3. FirstWithBody(ms) = {f} /\ Max(FirstWithBody(ms)) = f
    BY <1>2, FirstBodyIs
<1>4. CASE f = Len(ms)
    <2>1. end.outcome = "run"
        BY <1>1, <1>4 DEF BodyOver, BodyEnded
    <2>2. s.parser /\ s.appLayerName = "HTTP"
        BY <2>1
    <2> QED
        BY <1>2, <1>3, <1>4, <2>2 DEF Shown, LayersOf
<1>5. CASE f # Len(ms)
    <2>1. end.outcome = "broken off"
        BY <1>1, <1>5 DEF BodyOver
    <2>2. s.parser /\ s.appLayerName # "HTTP"
        BY <2>1
    <2> QED
        BY <1>2, <1>3, <1>5, <2>2 DEF Shown, LayersOf
<1> QED
    BY <1>4, <1>5

LEMMA FinishExact ==
    ASSUME packetHeaders \in Seq(Packets), NEW n \in Names, NEW c \in Connection, InFile(c)
    PROVE  ExchangeIsExact(Finish(n, c))
<1> DEFINE s == Finish(n, c)
           p == ConnPayload(c)
           end == Parsed(p)[Len(p)]
<1>1. p \in Seq(Symbols)
    BY ConnPayloadIs
<1>2. s.payload = p /\ s.parser = ParsePayload(p).found
    BY DEF Finish
<1>3. s.layers = ParsePayload(p).layers
    BY DEF Finish
<1>4. s.appLayerName = IF ParsePayload(p).named THEN "HTTP" ELSE ""
    BY DEF Finish
<1> HIDE DEF s, p
<1>5. ASSUME NEW starts \in Cuts(p), Messages(p, starts) # <<>>, AllWhole(Messages(p, starts))
      PROVE  Shown(Messages(p, starts), s)
    <2> DEFINE ms == Messages(p, starts)
               l == Len(ms)
    <2>1. Gathered(p, ms, Len(p))
        BY <1>1, MessagesJoin DEF Cuts
    <2>a. ms # <<>> /\ AllWhole(ms)
        BY <1>5
    <2> HIDE DEF ms
    <2>b. ms \in Seq(Seq(Symbols)) /\ l \in Nat /\ Pieces(ms, l, Symbols) /\ Joined(ms, l) = p
        BY <1>1, <2>1, FirstMessages
    <2>c. PICK u : u[l] = ms /\ Gathering(ms, u, l)
        BY <1>1, <2>1, FirstMessages
    <2>2. l \in 0 .. l /\ WholeUpTo(ms, l)
        <3>1. l \in 0 .. l
            BY <2>b
        <3> HIDE DEF l
        <3> QED
            BY <2>a, <2>b, <2>c, <3>1, PiecesWhole
    <2>3. After(ms, end)
        <3> HIDE DEF l, end
        <3>1. After(u[l], Parsed(p)[Len(p)])
            BY <1>1, <2>a, <2>b, <2>c, AllRead
        <3> QED
            BY <2>c, <3>1 DEF end
    <2>4. Begun(ms, u, l)
        <3> HIDE DEF l
        <3> QED
            BY <2>b, <2>c, <2>2, AllBegun
    <2>5. p # <<>> /\ p[1] \in {"req", "resp"}
        BY <2>a, <2>b, <2>c, <2>4 DEF Begun
    <2>6. StartsWithLetters(p)
        BY <2>5 DEF StartsWithLetters
    <2>7. ParsePayload(p).found = (end.outcome # "not http")
        BY <2>6 DEF ParsePayload
    <2>8. ParsePayload(p).named = (end.outcome = "run")
        BY <2>6 DEF ParsePayload
    <2>9. ParsePayload(p).layers = end.layers
        BY <2>6 DEF ParsePayload
    <2>10. s.appLayerName = IF end.outcome = "run" THEN "HTTP" ELSE ""
        BY <1>4, <2>8
    <2>11. s.parser = (end.outcome # "not http") /\ s.layers = end.layers
        BY <1>2, <1>3, <2>7, <2>9
    <2> HIDE DEF end, l
    <2>12. CASE Bodiless(ms)
        BY <2>a, <2>b, <2>3, <2>10, <2>11, <2>12, BodilessShown DEF ms
    <2>13. CASE ~Bodiless(ms)
        BY <2>b, <2>3, <2>10, <2>11, <2>13, BodyShown DEF ms
    <2> QED
        BY <2>12, <2>13
<1>6. ExchangeIsExact(s)
    BY <1>2, <1>5 DEF ExchangeIsExact, Shown, AllWhole
<1> QED
    BY <1>6 DEF s

-----------------------------------------------------------------------------
(* What is shown stays what FinishedAdding has made it.                    *)
LEMMA ShowsStep ==
    ASSUME IInv, Shows, [Next]_vars
    PROVE  Shows'
<1>1. CASE FinishedAdding
    BY <1>1, FinishShows
<1>2. CASE \E p \in Packets : AddPacket(p)
    <2>1. ~finished /\ finalStreams' = finalStreams /\ protocolsFound' = protocolsFound
        BY <1>2 DEF AddPacket
    <2>2. finalStreams = <<>> /\ finalStreams' = <<>> /\ protocolsFound' = {}
        BY <2>1 DEF Shows
    <2>3. DOMAIN finalStreams' = {} /\ finalStreams' \in Seq(Final)
        BY <2>2
    <2> QED
        BY <2>2, <2>3 DEF Shows
<1>3. CASE UNCHANGED vars
    <2>1. /\ finalStreams' = finalStreams /\ protocolsFound' = protocolsFound
          /\ finished' = finished /\ packetHeaders' = packetHeaders
        BY <1>3 DEF vars
    <2>2. (\A i \in DOMAIN finalStreams : Built(finalStreams[i]))'
        <3> SUFFICES ASSUME NEW i \in DOMAIN finalStreams'
                     PROVE  (Built(finalStreams[i]))'
            OBVIOUS
        <3>1. PICK n \in Names, c \in Connection : InFile(c) /\ finalStreams[i] = Finish(n, c)
            BY <2>1 DEF Shows, Built
        <3>2. InFile(c)'
            BY <2>1, <3>1 DEF InFile
        <3>3. Finish(n, c)' = Finish(n, c)
            BY <2>1 DEF Finish, ConnPayload
        <3> QED
            BY <2>1, <3>1, <3>2, <3>3 DEF Built
    <2> QED
        BY <2>1, <2>2 DEF Shows
<1> QED
    BY <1>1, <1>2, <1>3 DEF Next

LEMMA AlwaysShows == Spec => []Shows
<1>1. Init => Shows
    <2> SUFFICES ASSUME Init
                 PROVE  Shows
        OBVIOUS
    <2>1. finalStreams = <<>> /\ protocolsFound = {}
        BY DEF Init
    <2>2. DOMAIN finalStreams = {} /\ finalStreams \in Seq(Final)
        BY <2>1
    <2> QED
        BY <2>1, <2>2 DEF Shows
<1> QED
    BY <1>1, ShowsStep, Invariance, PTL DEF Spec

(* What is shown of the streams has its types too.                         *)
THEOREM AllTyped == Spec => []TypeOK
<1>1. IInv /\ Shows => TypeOK
    BY DEF IInv, Shows, TypeOK
<1> QED
    BY <1>1, AlwaysShows, Invariance, PTL

(* What is shown and saved of a connection's HTTP is what was sent, as far *)
(* as the parser gets.  However its bytes are cut into segments, of any    *)
(* number of messages of any length it is exactly those up to the first    *)
(* with a body, provided that each of them is one of WholeMessage: a head  *)
(* with a header line, none longer than the parser's buffer, its one       *)
(* Content-Length not the last line, and a body of that size that does not *)
(* begin with a line end.  Of any bytes it is no body without a head.      *)
THEOREM LayersAreWhatWasSent == Spec => []LayersAreExact
<1>1. IInv /\ Shows => LayersAreExact
    <2> SUFFICES ASSUME IInv, Shows, NEW i \in DOMAIN finalStreams
                 PROVE  ExchangeIsExact(finalStreams[i]) /\ BodyFollowsHead(finalStreams[i])
        BY DEF LayersAreExact
    <2>1. PICK n \in Names, c \in Connection : InFile(c) /\ finalStreams[i] = Finish(n, c)
        BY DEF Shows, Built
    <2>2. packetHeaders \in Seq(Packets)
        BY DEF IInv, StreamsTypeOK
    <2> QED
        BY <2>1, <2>2, FinishType, FinishExact
<1> QED
    BY <1>1, AlwaysShows, Invariance, PTL
====
