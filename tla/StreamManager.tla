---------------------------- MODULE StreamManager -----------------------------
(***************************************************************************)
(* The TCP streams of a capture (Types/PCAP/src/StreamManager.cpp and      *)
(* API.cpp): PCAP.cpp hands over the packets of the file one by one and    *)
(* then calls FinishedAdding, which runs the parser over each connection.  *)
(* The file is what is chosen here: any packets in any order, so segments  *)
(* are lost, sent twice and out of order.                                  *)
(***************************************************************************)
EXTENDS HttpParser, FiniteSetsExt

CONSTANTS
    Hosts,
    Ports,
    AddressBytes,   \* AddressBytes[h]: bytes of h's IPv6 address, as they
                    \* read where the code looks for the TCP header
    Packets,        \* the packets a file may hold
    MaxPackets,     \* bound: packets in the file
    FinWrap         \* the width of finFlagsFound: 256

Flags == {"FIN", "SYN", "RST"}
Ends == Hosts \X Ports
Names == Ends \X Ends       \* "source -> destination"

TcpHeader == [sPort : Ports, dPort : Ports, dataOffset : {4, 5}, flags : SUBSET Flags,
              payload : Seq(Symbols)]
Packet == [ip : {"v4", "v6", "other"}, src : Hosts, dst : Hosts, tcp : TcpHeader]

ASSUME PacketsAssumption == Packets \subseteq Packet
ASSUME AddressAssumption ==
    AddressBytes \in [Hosts -> [sPort : Ports, dPort : Ports, dataOffset : {4, 5},
                                flags : SUBSET Flags]]
ASSUME FiniteAssumption == IsFiniteSet(Hosts) /\ IsFiniteSet(Ports)
ASSUME BoundsAssumption == MaxPackets \in Nat /\ FinWrap \in Nat \ {0}

VARIABLES
    packetHeaders,  \* the packets of the file handed over so far
    streams,        \* the connections of each name, <<>> for one not there
    finalStreams,   \* the connections as they are shown
    protocolsFound,
    finished        \* FinishedAdding has been called

vars == <<packetHeaders, streams, finalStreams, protocolsFound, finished>>

(* StreamData while packets are added.  A packet is its number in the file. *)
NewConnection == [packets |-> <<>>, finFlagsFound |-> 0, isFinished |-> FALSE, total |-> 0]
Connection == [packets : Seq(Nat), finFlagsFound : 0..FinWrap - 1, isFinished : BOOLEAN,
               total : Nat]

-----------------------------------------------------------------------------
(* Add_IPv6Header looks for the TCP header sizeof(IPv4Header) bytes into   *)
(* the 40 of an IPv6 header: the ports come from the source's address, the *)
(* header's size and flags from the destination's, and the payload begins  *)
(* with the ports of the real header, which are not text.                  *)
HeaderRead(p) ==
    IF p.ip = "v6"
    THEN [sPort |-> AddressBytes[p.src].sPort, dPort |-> AddressBytes[p.src].dPort,
          dataOffset |-> AddressBytes[p.dst].dataOffset, flags |-> AddressBytes[p.dst].flags,
          payload |-> IF p.tcp.payload = <<>> THEN <<>> ELSE <<"byte">>]
    ELSE p.tcp

(* Anything but TCP is left out, and a header shorter than it may be.      *)
IsSegment(p) == p.ip # "other" /\ HeaderRead(p).dataOffset >= 5

Name(p) == <<<<p.src, HeaderRead(p).sPort>>, <<p.dst, HeaderRead(p).dPort>>>>
Reversed(n) == <<n[2], n[1]>>

Init ==
    /\ packetHeaders = <<>>
    /\ streams = [n \in Names |-> <<>>]
    /\ finalStreams = <<>>
    /\ protocolsFound = {}
    /\ finished = FALSE

(* The connections of a name with one that is open at their end.           *)
WithAny(connections) ==
    IF connections = <<>> THEN Append(connections, NewConnection) ELSE connections
WithOnlyOpen(connections) ==
    IF connections = <<>> \/ Last(connections).isFinished THEN <<NewConnection>> ELSE connections
WithOpen(connections) ==
    IF connections = <<>> \/ Last(connections).isFinished
    THEN Append(connections, NewConnection)
    ELSE connections

(* A reset ends the connection, and so does a SYN after two FINs, which is *)
(* put into the connection it shows to be over.                            *)
EndedByFins(c, fins, flags) ==
    c.isFinished \/ "RST" \in flags \/ fins >= 2
Ended(c, fins, flags) == c.isFinished \/ "RST" \in flags \/ ("SYN" \in flags /\ fins >= 2)

Receive(c, number, tcp) ==
    LET fins == IF "FIN" \in tcp.flags THEN (c.finFlagsFound + 1) % FinWrap ELSE c.finFlagsFound
    IN  [packets |-> Append(c.packets, number),
         finFlagsFound |-> fins,
         isFinished |-> Ended(c, fins, tcp.flags),
         total |-> c.total + Len(tcp.payload)]

(* Under which name: that of the other direction when it is there.         *)
Holder(p) == IF streams[Reversed(Name(p))] # <<>> THEN Reversed(Name(p)) ELSE Name(p)

Add_TCPHeader(p, number) ==
    LET open == WithOpen(streams[Holder(p)])
    IN  streams' = [streams EXCEPT ![Holder(p)] =
            [open EXCEPT ![Len(open)] = Receive(@, number, HeaderRead(p))]]

AddPacket(p) ==
    /\ ~finished
    /\ Len(packetHeaders) < MaxPackets
    /\ packetHeaders' = Append(packetHeaders, p)
    /\ IF IsSegment(p) THEN Add_TCPHeader(p, Len(packetHeaders) + 1) ELSE UNCHANGED streams
    /\ UNCHANGED <<finalStreams, protocolsFound, finished>>

-----------------------------------------------------------------------------
(* ComputeFinalPayload: the payloads in the order of the file.             *)
ConnPayload(c) ==
    FlattenSeq([i \in DOMAIN c.packets |-> HeaderRead(packetHeaders[c.packets[i]]).payload])

Finish(name, c) ==
    LET payload == ConnPayload(c)
        parsed == ParsePayload(payload)
    IN  [name |-> name, packets |-> c.packets, payload |-> payload,
         parser |-> parsed.found, appLayerName |-> IF parsed.named THEN "HTTP" ELSE "",
         layers |-> parsed.layers, summary |-> parsed.summary]

(* AddToKnownProtocols.                                                     *)
KnownOrNot(names) == names
Known(names) == names \ {""}

Connections == {at \in Names \X (1..MaxPackets) : at[2] \in DOMAIN streams[at[1]]}

(* The names come in the order of a hash table, which is no order; the     *)
(* connections of a name are together and the oldest is first.             *)
IsIteration(order) ==
    \A i, j \in DOMAIN order :
        (i < j /\ order[i][1] = order[j][1]) =>
            /\ order[i][2] < order[j][2]
            /\ \A k \in i..j : order[k][1] = order[i][1]

FinishedAdding ==
    /\ ~finished
    /\ finished' = TRUE
    /\ \E order \in SetToSeqs(Connections) :
          /\ IsIteration(order)
          /\ finalStreams' = [i \in DOMAIN order |->
                 Finish(order[i][1], streams[order[i][1]][order[i][2]])]
    /\ protocolsFound' = Known({finalStreams'[i].appLayerName : i \in DOMAIN finalStreams'})
    /\ streams' = [n \in Names |-> <<>>]
    /\ UNCHANGED packetHeaders

Next ==
    \/ \E p \in Packets : AddPacket(p)
    \/ FinishedAdding

Spec == Init /\ [][Next]_vars

-----------------------------------------------------------------------------
(* Types of what is built while packets are added, and of what is shown.   *)
Final == [name : Names, packets : Seq(Nat), payload : Seq(Symbols), parser : BOOLEAN,
          appLayerName : {"", "HTTP"}, layers : Seq([name : Seq(Symbols), file : Nat,
          size : Nat, location : Nat]), summary : Seq(Nat)]
StreamsTypeOK ==
    /\ packetHeaders \in Seq(Packets)
    /\ Len(packetHeaders) <= MaxPackets
    /\ streams \in [Names -> Seq(Connection)]
    /\ finished \in BOOLEAN
TypeOK ==
    /\ StreamsTypeOK
    /\ finalStreams \in Seq(Final)
    /\ protocolsFound \subseteq {"HTTP"}

Ascending(packets) == \A i, j \in DOMAIN packets : i < j => packets[i] < packets[j]
HeldBy(number) ==
    {at \in Connections : \E j \in DOMAIN streams[at[1]][at[2]].packets :
                              streams[at[1]][at[2]].packets[j] = number}

(* Each TCP segment of the file is in exactly one connection, one of its   *)
(* own ends, and a connection has its segments in the order of the file;   *)
(* nothing else is in one.  The code keeps no index: a packet is where the *)
(* name lookups of AddPacket have led it.                                  *)
EveryPacketOnce ==
    /\ \A n \in Names : \A k \in DOMAIN streams[n] : Ascending(streams[n][k].packets)
    /\ ~finished => \A number \in DOMAIN packetHeaders :
          LET p == packetHeaders[number]
          IN  IF IsSegment(p)
              THEN \E n \in {Name(p), Reversed(Name(p))}, k \in 1..MaxPackets :
                      HeldBy(number) = {<<n, k>>}
              ELSE HeldBy(number) = {}

FlagsAt(c, j) == HeaderRead(packetHeaders[c.packets[j]]).flags
FinsUpTo(c, j) == Cardinality({i \in 1..j : "FIN" \in FlagsAt(c, i)})
EndsAt(c, j) == "RST" \in FlagsAt(c, j) \/ ("SYN" \in FlagsAt(c, j) /\ FinsUpTo(c, j) >= 2)

(* A connection is over exactly when its last segment ended it, by a reset *)
(* or by a SYN after two FINs, and no segment before the last could have:  *)
(* what follows an end begins a connection of its own.  (While the eight   *)
(* bits of finFlagsFound can count its FINs.)                              *)
OverAtLast(c) ==
    LET last == Len(c.packets)
    IN  FinsUpTo(c, last) < FinWrap =>
            /\ c.isFinished <=> EndsAt(c, last)
            /\ \A j \in 1..last - 1 : ~EndsAt(c, j)
EndsForAReason ==
    \A n \in Names : \A k \in DOMAIN streams[n] :
        /\ streams[n][k].packets # <<>>
        /\ OverAtLast(streams[n][k])
        /\ k < Len(streams[n]) => streams[n][k].isFinished

(* Two ends share one name whichever of them sends, the one their first    *)
(* segment had: the lookup of the reversed name never lets a second in.    *)
NameIsFirstSeen ==
    \A n \in Names : streams[n] # <<>> =>
        /\ streams[Reversed(n)] = <<>> \/ n = Reversed(n)
        /\ n = Name(packetHeaders[streams[n][1].packets[1]])

(* The streams are the conversations of the capture: Conversations says    *)
(* what a reader of the stream view relies on.                             *)
Owner(all, pair) ==
    CHOOSE n \in Names : {n[1], n[2]} = pair /\ (all[n] = <<>> => all[Reversed(n)] = <<>>)
Talk(connections) ==
    [k \in DOMAIN connections |->
        [packets |-> connections[k].packets, closed |-> connections[k].isFinished]]
Talks == [pair \in {{a, b} : a \in Ends, b \in Ends} |-> Talk(streams[Owner(streams, pair)])]
Abstract == INSTANCE Conversations WITH
    count <- Len(packetHeaders),
    talks <- Talks,
    shown <- {finalStreams[i].packets : i \in DOMAIN finalStreams}
ImplementsConversations == Abstract!Spec

-----------------------------------------------------------------------------
(* What the parser makes of an exchange captured whole.                    *)
HeadEnd(m) == CHOOSE i \in 3..Len(m) : m[i - 1] = "eol" /\ m[i] = "eol"
                 /\ \A j \in 3..i - 1 : ~(m[j - 1] = "eol" /\ m[j] = "eol")
Body(m) == SubSeq(m, HeadEnd(m) + 1, Len(m))
Lengths(m) == {i \in 1..HeadEnd(m) : m[i] \in DOMAIN ContentLength}
Declared(m) ==
    IF Lengths(m) = {} THEN 0 ELSE ContentLength[m[CHOOSE i \in Lengths(m) : TRUE]]
(* A start line, other lines with at most one Content-Length among them    *)
(* and not last, a blank line, a body of the size declared that does not   *)
(* begin with a line end.  Every line is one that fits the buffer.         *)
WholeMessage(m) ==
    /\ \E i \in 3..Len(m) : m[i - 1] = "eol" /\ m[i] = "eol"
    /\ \A i \in 1..HeadEnd(m) - 1 : (m[i] = "eol" <=> i % 2 = 0) /\ m[i] # "long"
    /\ m[1] \in {"req", "resp"}
    /\ m[HeadEnd(m) - 2] = "hdr"
    /\ \A i, j \in Lengths(m) : i = j
    /\ Len(Body(m)) = Declared(m)
    /\ Body(m) # <<>> => Body(m)[1] # "eol"

(* A cut of the bytes of a connection into messages, each begun at a start *)
(* line.  Where the segments end plays no part in it.                      *)
Cuts(payload) ==
    {starts \in SUBSET {k \in DOMAIN payload : payload[k] \in {"req", "resp"}} :
        payload # <<>> => 1 \in starts}
Longer(ms, symbol) == [ms EXCEPT ![Len(ms)] = Append(@, symbol)]
Messages(payload, starts) ==
    LET upTo[i \in 0..Len(payload)] ==
            IF i = 0 THEN <<>>
            ELSE IF i \in starts THEN Append(upTo[i - 1], <<payload[i]>>)
            ELSE Longer(upTo[i - 1], payload[i])
    IN  upTo[Len(payload)]
FirstWithBody(ms) == {i \in DOMAIN ms : Body(ms[i]) # <<>> /\ \A j \in 1..i - 1 : Body(ms[j]) = <<>>}

(* Of an exchange captured whole, in segments that end anywhere, the       *)
(* layers are its messages, each with its start line and the size of its   *)
(* body, up to the first that has one or, when none has, up to the last    *)
(* but one: that is as far as the parser gets.  The connection is called   *)
(* HTTP exactly when nothing follows that body.                            *)
ExchangeIsExact(s) ==
    \A starts \in Cuts(s.payload) :
        LET ms == Messages(s.payload, starts)
            last == IF FirstWithBody(ms) = {} THEN Len(ms) - 1 ELSE Max(FirstWithBody(ms))
        IN  (ms # <<>> /\ \A j \in DOMAIN ms : WholeMessage(ms[j])) =>
                /\ s.parser
                /\ Len(s.layers) = last
                /\ \A j \in 1..last :
                      s.layers[j].name = <<ms[j][1]>> /\ s.layers[j].size = Len(Body(ms[j]))
                /\ s.appLayerName = "HTTP" <=> FirstWithBody(ms) = {} \/ last = Len(ms)

(* Whatever the bytes: a layer with a body is the last one, its body comes *)
(* right behind a blank line, and the file it is saved as is named after a *)
(* request line that comes before it in the same connection.               *)
BodyFollowsHead(s) ==
    \A k \in DOMAIN s.layers :
        /\ s.layers[k].size = 0 \/ k = Len(s.layers)
        /\ s.layers[k].size # 0 =>
              /\ s.layers[k].location \in 3..Len(s.payload)
              /\ s.payload[s.layers[k].location] # "eol"
              /\ s.payload[s.layers[k].location - 1] = "eol"
              /\ s.payload[s.layers[k].location - 2] = "eol"
              /\ s.layers[k].file # 0 =>
                    /\ s.layers[k].file < s.layers[k].location
                    /\ \E j \in 1..Len(s.summary) : s.summary[j] = s.layers[k].file

(* What the view shows and saves of a connection's HTTP is what was sent,  *)
(* as far as the parser gets.                                              *)
LayersAreExact ==
    \A i \in DOMAIN finalStreams :
        ExchangeIsExact(finalStreams[i]) /\ BodyFollowsHead(finalStreams[i])
===============================================================================
