------------------------------ MODULE MCStreams -------------------------------
(* Two hosts: every kind of segment between them over IPv4, messages that  *)
(* are whole, cut in two or closed by a Content-Length, a second pair of   *)
(* ports, the misread segments of IPv6, and packets that are not TCP.      *)
EXTENDS StreamManager

MCAddressBytes ==
    [h \in {"a", "b"} |-> IF h = "a"
        THEN [sPort |-> 1, dPort |-> 2, dataOffset |-> 5, flags |-> {"FIN", "SYN"}]
        ELSE [sPort |-> 2, dPort |-> 2, dataOffset |-> 4, flags |-> {}]]

Segment(from, to, port, fs, bytes) ==
    [ip |-> "v4", src |-> from, dst |-> to,
     tcp |-> [sPort |-> IF from = "a" THEN port ELSE 1, dPort |-> IF from = "a" THEN 1 ELSE port,
              dataOffset |-> 5, flags |-> fs, payload |-> bytes]]

Get == <<"req", "eol", "hdr", "eol", "eol">>
Post == <<"req", "eol", "len1", "eol", "hdr", "eol", "eol", "byte">>
Answer == <<"resp", "eol", "len2", "eol", "hdr", "eol", "eol", "byte", "eol">>
LengthLast == <<"resp", "eol", "hdr", "eol", "len1", "eol", "eol", "byte">>
Half == <<"resp", "eol", "len1", "eol">>
Piece == <<"hdr", "eol", "eol", "byte">>
Long == <<"req", "eol", "long", "eol">>

Bare(from, to, fs) == Segment(from, to, 1, fs, <<>>)
With(from, to, bytes) == Segment(from, to, 1, {}, bytes)

MCPackets ==
    {Bare("a", "b", fs) : fs \in {{"SYN"}, {"FIN"}, {"RST"}}}
    \cup {Bare("b", "a", {"FIN"})}
    \cup {With("a", "b", m) : m \in {Get, Post, Long}}
    \cup {With("b", "a", m) : m \in {Answer, LengthLast, Half, Piece}}
    \cup {Segment("a", "b", 2, {}, Get)}
    \cup {[Bare("a", "b", {}) EXCEPT !.ip = "other"]}
    \cup {[With("a", "b", Get) EXCEPT !.ip = "v6"], [With("b", "a", Get) EXCEPT !.ip = "v6"]}
===============================================================================
