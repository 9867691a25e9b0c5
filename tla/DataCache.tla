------------------------------ MODULE DataCache ------------------------------
(***************************************************************************)
(* The file cache every viewer and every plugin reads through              *)
(* (GViewCore/src/Utils/DataCache.cpp): one window of the file, kept in    *)
(* one buffer that each miss overwrites.                                   *)
(*                                                                         *)
(* A byte of the file is named by its offset, so a buffer holds offsets,   *)
(* and Unread stands for memory that holds no byte of the file.  Get       *)
(* answers with a pointer into the buffer, which is what view is: the      *)
(* bytes it shows are those the buffer holds when somebody looks.          *)
(***************************************************************************)
EXTENDS Integers, Sequences

CONSTANTS
    Page,           \* the step of a cache size, 0x10000 in the code
    MaxCacheSize,   \* MAX_CACHE_SIZE
    Word32,         \* 2^32: the number of values of a uint32
    Word64,         \* 2^64: the number of values of a uint64
    MaxFileSize     \* bound: the largest file considered

ASSUME SizesAssumption ==
    /\ Page \in Nat \ {0, 1}
    /\ MaxCacheSize \in Nat \ {0, 1}      \* half a buffer holds a byte
    /\ Word32 \in Nat
    /\ Word64 \in Nat
    /\ MaxCacheSize < Word32
    /\ Word32 <= Word64
    /\ MaxFileSize \in Nat
    /\ MaxFileSize + Word32 <= Word64    \* no file comes near 2^64 bytes
    /\ Word64 % Word32 = 0
    /\ Word32 % Page = 0

VARIABLES
    opened,     \* fileObj is set
    fileSize,   \* size of the file behind the cache
    cacheSize,  \* length of the buffer, 0 before Init
    start,      \* file offset of the first byte of the window
    end,        \* file offset after the last byte of the window
    cache,      \* the buffer: index |-> file offset of the byte it holds
    view,       \* what the last Get returned: [valid, at, len]
    request,    \* the last call: [op, offset, size, fail]
    phase,      \* "idle", in the loop of a call ("copying", "writing"),
                \* or "returned": the caller looks at what it got
    copied,     \* bytes CopyObject, CopyToBuffer or WriteTo has produced
    success,    \* the last call delivered something
    io          \* how the last access to the file object ended

vars == <<opened, fileSize, cacheSize, start, end, cache, view, request, phase,
          copied, success, io>>
window == <<start, end, cache>>

Unread == -1
UInt32 == 0 .. Word32 - 1
UInt64 == 0 .. Word64 - 1
Bytes  == UInt64 \cup {Unread}
NoView == [valid |-> FALSE, at |-> 0, len |-> 0]
NoRequest == [op |-> "none", offset |-> 0, size |-> 0, fail |-> FALSE]
Requests == [op : {"none", "get", "object", "copy", "write"},
             offset : UInt64, size : UInt32, fail : BOOLEAN]

Add64(a, b) == (a + b) % Word64
Lesser(a, b) == IF a <= b THEN a ELSE b

TypeOK ==
    /\ opened \in BOOLEAN
    /\ fileSize \in 0 .. MaxFileSize
    /\ cacheSize \in 0 .. MaxCacheSize
    /\ start \in 0 .. MaxFileSize
    /\ end \in 0 .. MaxFileSize
    /\ cache \in [0 .. cacheSize - 1 -> Bytes]
    /\ view \in [valid : BOOLEAN, at : UInt64, len : UInt32]
    /\ request \in Requests
    /\ phase \in {"idle", "copying", "writing", "returned"}
    /\ copied \in Seq(Bytes)
    /\ success \in BOOLEAN
    /\ io \in {"none", "read", "failed"}

(* What a reader of the pointer at, len sees in the buffer right now.      *)
Peek(i) == IF i \in DOMAIN cache THEN cache[i] ELSE Unread
Shown(v) == [i \in 1 .. v.len |-> Peek(v.at + i - 1)]

-----------------------------------------------------------------------------
Init ==
    /\ opened = FALSE
    /\ fileSize = 0
    /\ cacheSize = 0
    /\ start = 0
    /\ end = 0
    /\ cache = [i \in 0 .. -1 |-> Unread]
    /\ view = NoView
    /\ request = NoRequest
    /\ phase = "idle"
    /\ copied = <<>>
    /\ success = FALSE
    /\ io = "none"

(* (_cacheSize | 0xFFFF) + 1 in 32 bits, a wrap to 0 meaning the maximum.  *)
RoundedCacheSize(n) ==
    LET rounded == ((n \div Page + 1) * Page) % Word32
    IN  IF rounded = 0 THEN MaxCacheSize ELSE Lesser(rounded, MaxCacheSize)

(* DataCache::Init, which only the first call gets through.                *)
Open(n, size) ==
    /\ phase = "idle"
    /\ cacheSize = 0
    /\ opened' = TRUE
    /\ fileSize' = size
    /\ cacheSize' = RoundedCacheSize(n)
    /\ cache' = [i \in 0 .. RoundedCacheSize(n) - 1 |-> Unread]
    /\ start' = 0
    /\ end' = 0
    /\ UNCHANGED <<view, request, phase, copied, success, io>>

-----------------------------------------------------------------------------
(* DataCache::Get, one action per way out of it.                           *)

Point(o, n) ==
    view' = [valid |-> TRUE, at |-> (o - start') % Word64, len |-> n]

FetchRefused(n) ==
    /\ ~opened \/ n = 0
    /\ view' = NoView
    /\ io' = "none"
    /\ UNCHANGED window

IsCachedOneMore(o, n) == o >= start /\ Add64(o, n) <= end + 1
IsCached(o, n) == o >= start /\ Add64(o, n) <= end
AtTheEnd(o) == o >= start /\ end = fileSize

FetchHit(o, n) ==
    /\ opened /\ n > 0
    /\ IsCached(o, n)
    /\ UNCHANGED window
    /\ Point(o, n)
    /\ io' = "none"

FetchTail(o, n, fail) ==
    /\ opened /\ n > 0
    /\ ~IsCached(o, n)
    /\ AtTheEnd(o)
    /\ UNCHANGED window
    /\ IF fail THEN view' = NoView ELSE Point(o, (end - o) % Word32)
    /\ io' = "none"

IsMiss(o, n) ==
    /\ opened /\ n > 0
    /\ ~IsCached(o, n)
    /\ ~AtTheEnd(o)

FetchOutside(o, n) ==
    /\ IsMiss(o, n)
    /\ o >= fileSize
    /\ view' = NoView
    /\ io' = "none"
    /\ UNCHANGED window

(* The window a miss asks for: the whole file when it fits, else a full    *)
(* buffer that ends where the request does.                                *)
WantedUncapped(o, n) == IF Add64(o, n) > fileSize THEN fileSize - o ELSE n
Wanted(o, n) == Lesser(IF Add64(o, n) > fileSize THEN fileSize - o ELSE n, cacheSize)
NewStartUnguarded(o, n) ==
    IF fileSize <= cacheSize THEN 0
    ELSE (o - (cacheSize - Wanted(o, n))) % Word64
NewStart(o, n) ==
    LET diff == cacheSize - Wanted(o, n)
    IN  IF fileSize <= cacheSize \/ diff > o THEN 0 ELSE o - diff
NewEnd(o, n) == Lesser(NewStart(o, n) + cacheSize, fileSize)

(* fileObj->SetCurrentPos failed: the old window stays.                    *)
FetchSeekFails(o, n) ==
    /\ IsMiss(o, n)
    /\ o < fileSize
    /\ view' = NoView
    /\ io' = "failed"
    /\ UNCHANGED window

GiveUpNothing == UNCHANGED <<start, end>>
GiveUpWindow == start' = 0 /\ end' = 0

(* fileObj->Read of k bytes from file offset b into the buffer.            *)
ReadInto(b, k) ==
    [i \in 0 .. cacheSize - 1 |-> IF i < k THEN b + i ELSE cache[i]]

(* fileObj->Read failed after some bytes: the window is given up.          *)
FetchReadFails(o, n) ==
    /\ IsMiss(o, n)
    /\ o < fileSize
    /\ \E k \in 0 .. NewEnd(o, n) - NewStart(o, n) :
           cache' = ReadInto(NewStart(o, n), k)
    /\ GiveUpWindow
    /\ view' = NoView
    /\ io' = "failed"

FetchRefill(o, n, fail) ==
    /\ IsMiss(o, n)
    /\ o < fileSize
    /\ start' = NewStart(o, n)
    /\ end' = NewEnd(o, n)
    /\ cache' = ReadInto(NewStart(o, n), NewEnd(o, n) - NewStart(o, n))
    /\ IF Add64(o, n) <= end'
       THEN Point(o, n)
       ELSE IF fail THEN view' = NoView ELSE Point(o, (end' - o) % Word32)
    /\ io' = "read"

Fetch(o, n, fail) ==
    \/ FetchRefused(n)
    \/ FetchHit(o, n)
    \/ FetchTail(o, n, fail)
    \/ FetchOutside(o, n)
    \/ FetchSeekFails(o, n)
    \/ FetchReadFails(o, n)
    \/ FetchRefill(o, n, fail)

-----------------------------------------------------------------------------
Call(op, o, n, fail) ==
    /\ phase = "idle"
    /\ request' = [op |-> op, offset |-> o, size |-> n, fail |-> fail]
    /\ UNCHANGED <<opened, fileSize, cacheSize>>

Get(o, n, fail) ==
    /\ Call("get", o, n, fail)
    /\ Fetch(o, n, fail)
    /\ success' = view'.valid
    /\ copied' = <<>>
    /\ phase' = "returned"

CopyObject(o, n) ==
    /\ Call("object", o, n, TRUE)
    /\ Fetch(o, n, TRUE)
    /\ success' = view'.valid
    /\ copied' = Shown(view)'
    /\ phase' = "returned"

(* CopyToBuffer: the checks before its loop.                               *)
CopyIsRefused(o, n, fail) ==
    \/ n = 0
    \/ o > fileSize
    \/ fail /\ Add64(o, n) > fileSize

CopyToBuffer(o, n, fail) ==
    /\ Call("copy", o, n, fail)
    /\ phase' = IF CopyIsRefused(o, n, fail) THEN "returned" ELSE "copying"
    /\ success' = FALSE
    /\ copied' = <<>>
    /\ view' = NoView
    /\ io' = "none"
    /\ UNCHANGED window

WriteTo(o, n) ==
    /\ Call("write", o, n, TRUE)
    /\ \/ phase' = IF n = 0 THEN "returned" ELSE "writing"
       \/ phase' = "returned" /\ n > 0   \* output->SetSize or SetCurrentPos failed
    /\ success' = (n = 0)
    /\ copied' = <<>>
    /\ view' = NoView
    /\ io' = "none"
    /\ UNCHANGED window

(* Where the loop of CopyToBuffer or WriteTo stands: the offset it reads   *)
(* from, what is left to read and how much of it the next turn asks for.   *)
Position == Add64(request.offset, Len(copied))
Left     == request.size - Len(copied)
ToRead   == Lesser(cacheSize \div 2, Left)

Finish(ok, bytes) ==
    /\ phase' = "returned"
    /\ success' = ok
    /\ copied' = bytes

(* The loop goes on with the bytes this turn copied, or ends with them.    *)
Advance ==
    /\ copied' = copied \o Shown(view)'
    /\ IF Left = ToRead
       THEN phase' = "returned" /\ success' = TRUE
       ELSE UNCHANGED <<phase, success>>

(* A short or empty chunk ends CopyToBuffer: with nothing for a caller who *)
(* insists, else with what has been read.                                  *)
CopyEndsTrimmed == Finish(TRUE, copied \o Shown(view)')
CopyEnds ==
    IF request.fail
    THEN Finish(FALSE, <<>>)
    ELSE Finish(TRUE, copied \o Shown(view)')

CopyChunk ==
    /\ phase = "copying"
    /\ Fetch(Position, ToRead, FALSE)
    /\ \/ view'.len = ToRead /\ view'.len > 0 /\ Advance
       \/ (view'.len # ToRead \/ view'.len = 0) /\ CopyEnds
    /\ UNCHANGED <<opened, fileSize, cacheSize, request>>

WriteChunk ==
    /\ phase = "writing"
    /\ Fetch(Position, ToRead, TRUE)
    /\ \/ view'.valid /\ Advance
       \/ Finish(FALSE, copied)          \* no bytes, or output->Write failed
    /\ UNCHANGED <<opened, fileSize, cacheSize, request>>

(* The caller has used what it got before anybody calls again.             *)
Consume ==
    /\ phase = "returned"
    /\ phase' = "idle"
    /\ request' = NoRequest
    /\ view' = NoView
    /\ copied' = <<>>
    /\ success' = FALSE
    /\ io' = "none"
    /\ UNCHANGED <<opened, fileSize, cacheSize, start, end, cache>>

-----------------------------------------------------------------------------
Next ==
    \/ \E n \in UInt32, size \in 0 .. MaxFileSize : Open(n, size)
    \/ \E o \in UInt64, n \in UInt32, fail \in BOOLEAN : Get(o, n, fail)
    \/ \E o \in UInt64, n \in UInt32 : CopyObject(o, n)
    \/ \E o \in UInt64, n \in UInt32, fail \in BOOLEAN : CopyToBuffer(o, n, fail)
    \/ \E o \in UInt64, n \in UInt32 : WriteTo(o, n)
    \/ CopyChunk
    \/ WriteChunk
    \/ Consume

Spec == Init /\ [][Next]_vars

(* A loop of CopyToBuffer or WriteTo runs on the calling thread: once      *)
(* entered it takes its next turn.                                         *)
FairSpec == Spec /\ WF_vars(CopyChunk) /\ WF_vars(WriteChunk)

-----------------------------------------------------------------------------
(* The bytes of the file from offset o on, k of them.                      *)
Slice(o, k) == [i \in 1 .. k |-> o + i - 1]

(* What is in the file of the n bytes at o, and how much of that one call  *)
(* of Get can deliver: never more than the buffer holds.                   *)
InFile(o, n) == Lesser(n, fileSize - o)
Deliverable(o, n) == Lesser(InFile(o, n), cacheSize)

(* The window lies in the file and in the buffer, and the buffer holds the *)
(* bytes of the file the window names: what every hit relies on, through   *)
(* refills at any position and accesses that fail half way.                *)
Coherent ==
    /\ start <= end
    /\ end <= fileSize
    /\ end - start <= cacheSize
    /\ \A i \in 0 .. end - start - 1 : cache[i] = start + i

(* What Get answers to a request inside the file does not depend on what   *)
(* was read before it: the bytes at the offset asked, as many as the file  *)
(* and the buffer allow, or nothing, and then because the file could not   *)
(* be read or because the caller insisted on more than there is.  The      *)
(* pointer and its length lie in the window: for such a request none of    *)
(* the unsigned subtractions that make them wraps around.                  *)
GetIsExact ==
    LET o == request.offset
        n == request.size
    IN  phase = "returned" /\ request.op \in {"get", "object"} /\ opened
            /\ o < fileSize /\ n > 0
        => IF view.valid
           THEN /\ view.at + view.len <= end - start
                /\ Shown(view) = Slice(o, Deliverable(o, n))
                /\ request.fail => Deliverable(o, n) = n
           ELSE io = "failed" \/ (request.fail /\ Deliverable(o, n) < n)

(* CopyToBuffer and WriteTo put their chunks together to the bytes at the  *)
(* offset asked, with no gap and no repetition whatever window each chunk  *)
(* comes from.  A caller of CopyToBuffer that insists gets all of them or  *)
(* none; one that does not gets fewer than the file has only if the file   *)
(* could not be read.  WriteTo reports success only when the output holds  *)
(* exactly the bytes asked, all of them in the file.                       *)
TransfersAreExact ==
    LET o == request.offset
        n == request.size
    IN  /\ request.op = "copy" =>
              /\ copied = Slice(o, Len(copied))
              /\ phase = "returned" /\ success =>
                    /\ Len(copied) <= InFile(o, n)
                    /\ request.fail => Len(copied) = n
                    /\ Len(copied) < InFile(o, n) => ~opened \/ io = "failed"
        /\ request.op = "write" /\ phase = "returned" /\ success /\ o <= fileSize /\ n > 0 =>
              /\ o + n <= fileSize
              /\ copied = Slice(o, n)
=============================================================================
