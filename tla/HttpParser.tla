------------------------------ MODULE HttpParser ------------------------------
(***************************************************************************)
(* HTTPParser::ParsePayload                                                *)
(* (Types/PCAP/src/PayloadParsers/HttpParser.cpp): one pass over the bytes *)
(* of a connection that cuts them into application layers.                 *)
(*                                                                         *)
(* A payload is a sequence of symbols.  A symbol is the text of a line or  *)
(* a piece of it, which the parser tells apart only by its first and last  *)
(* bytes and its size, or "eol", a CR LF.  A Content-Length counts         *)
(* symbols, so that a body never ends inside of one.                       *)
(***************************************************************************)
EXTENDS Integers, Sequences, SequencesExt

Bytes == [req |-> 24,    \* a request line: ends with HTTP/1.1
          resp |-> 15,   \* a status line: starts with HTTP/1.
          hdr |-> 10,    \* any other line of letters
          len1 |-> 17,   \* Content-Length: 1
          len2 |-> 17,   \* Content-Length: 2
          byte |-> 1,    \* one byte, no letter and no digit
          long |-> 300]  \* a line that does not fit the parser's buffer
Symbols == DOMAIN Bytes \cup {"eol"}
ContentLength == [len1 |-> 1, len2 |-> 2]

PatternSize == 7         \* httpPattern, "HTTP/1."
maxWaitUntilEndLine == 300

SizeOf(line) ==
    LET upTo[i \in 0 .. Len(line)] == IF i = 0 THEN 0 ELSE upTo[i - 1] + Bytes[line[i]]
    IN  upTo[Len(line)]
TooShort(line) == SizeOf(line) < PatternSize
Declares(line) == Len(line) = 1 /\ line[1] \in DOMAIN ContentLength
IsStatus(line) == line[1] = "resp"
IsRequest(line) == Last(line) = "req"

(* StreamTcpLayer; file is where the request line that gives extractionName *)
(* its value begins.                                                       *)
NoLayer == [name |-> <<>>, file |-> 0, size |-> 0, location |-> 0]

-----------------------------------------------------------------------------
(* The locals of ParsePayload.  skip is how much of a body startPtr has    *)
(* still to jump over; summary has the request lines handed over for it.   *)
Beginning ==
    [outcome |-> "run", buffer |-> <<>>, lineAt |-> 1, wasEndline |-> FALSE, spaces |-> 0,
     identified |-> FALSE, layer |-> NoLayer, layers |-> <<>>, summary |-> <<>>, skip |-> 0]

PushLayer(s) ==
    [s EXCEPT !.layers = Append(@, s.layer), !.layer = NoLayer, !.identified = FALSE]

(* A blank line ends the head.  The flags of the line end are not reset:   *)
(* the first byte after the body is taken for the first byte of a line.    *)
TakeBody(s, i) ==
    LET named == IF s.layers # <<>> /\ Last(s.layers).file # 0
                 THEN [s.layer EXCEPT !.file = Last(s.layers).file, !.location = i]
                 ELSE [s.layer EXCEPT !.location = i]
    IN  [PushLayer([s EXCEPT !.layer = named]) EXCEPT !.skip = s.layer.size - 1, !.buffer = <<>>]

AtOneEndline(s) ==
    s.wasEndline /\ s.spaces >= 2 /\ s.identified
AtBlankLine(s) == s.wasEndline /\ s.spaces >= 4 /\ s.identified

(* A line has ended: what it says of the head it belongs to, or which head *)
(* it begins.                                                              *)
ReadLine(s) ==
    CASE s.identified /\ Declares(s.buffer) ->
            [s EXCEPT !.layer.size = ContentLength[s.buffer[1]]]
      [] s.identified /\ ~Declares(s.buffer) -> s
      [] ~s.identified /\ TooShort(s.buffer) -> [s EXCEPT !.outcome = "broken off"]
      [] ~s.identified /\ ~TooShort(s.buffer) /\ IsStatus(s.buffer) ->
            [s EXCEPT !.identified = TRUE, !.layer.name = s.buffer]
      [] ~s.identified /\ ~TooShort(s.buffer) /\ ~IsStatus(s.buffer) /\ IsRequest(s.buffer) ->
            [s EXCEPT !.identified = TRUE, !.layer.name = s.buffer, !.layer.file = s.lineAt,
                      !.summary = Append(@, s.lineAt)]
      [] OTHER -> s

Store(s, c) ==
    IF SizeOf(s.buffer) + Bytes[c] >= maxWaitUntilEndLine
    THEN [s EXCEPT !.outcome = "not http"]
    ELSE [s EXCEPT !.buffer = Append(@, c)]

(* The first byte of a line; the line before it is in the buffer.          *)
NextLine(s, c, i) ==
    LET r == ReadLine(IF AtBlankLine(s) THEN PushLayer(s) ELSE s)
    IN  IF r.outcome # "run" THEN r
        ELSE Store([r EXCEPT !.buffer = <<>>, !.lineAt = i, !.wasEndline = FALSE, !.spaces = 0], c)

Step(s, c, i) ==
    CASE s.outcome # "run" -> s
      [] s.outcome = "run" /\ s.skip > 0 -> [s EXCEPT !.skip = @ - 1]
      [] s.outcome = "run" /\ s.skip = 0 /\ c = "eol" ->
            [s EXCEPT !.wasEndline = TRUE, !.spaces = @ + 2]
      [] s.outcome = "run" /\ s.skip = 0 /\ c # "eol" ->
            CASE AtBlankLine(s) /\ s.layer.size > 0 -> TakeBody(s, i)
              [] s.wasEndline /\ ~(AtBlankLine(s) /\ s.layer.size > 0) -> NextLine(s, c, i)
              [] ~s.wasEndline -> Store(s, c)

(* The loop over the bytes, after each of them.                            *)
Parsed(payload) ==
    LET after[i \in 0 .. Len(payload)] ==
            IF i = 0 THEN Beginning ELSE Step(after[i - 1], payload[i], i)
    IN  after

StartsWithLetters(payload) == payload # <<>> /\ payload[1] \notin {"byte", "eol"}

(* What a connection keeps of it: the parser or nullptr, the name set when *)
(* the end was reached, the layers, which stay when the answer is nullptr. *)
ParsePayload(payload) ==
    IF ~StartsWithLetters(payload)
    THEN [found |-> FALSE, named |-> FALSE, layers |-> <<>>, summary |-> <<>>]
    ELSE LET end == Parsed(payload)[Len(payload)]
         IN  [found |-> end.outcome # "not http", named |-> end.outcome = "run",
              layers |-> end.layers, summary |-> end.summary]
===============================================================================
