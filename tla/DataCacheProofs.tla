--------------------------- MODULE DataCacheProofs ---------------------------
(***************************************************************************)
(* DataCache for every cache size, file size and word width: its types,    *)
(* the coherence of its window, what its loops copy, and that it is a file *)
(* read directly.                                                          *)
(***************************************************************************)
EXTENDS CachedReader, SequenceTheorems, TLAPS

(* A remainder lies below its divisor, for a negative dividend too: what   *)
(* the wrap-around of unsigned arithmetic relies on.                       *)
LEMMA RemainderBounds ==
    ASSUME NEW a \in Int, NEW b \in Nat \ {0}
    PROVE  a % b \in 0 .. b - 1
OBVIOUS

LEMMA WordBounds ==
    /\ Word32 \in Nat \ {0}
    /\ Word64 \in Nat \ {0}
    /\ MaxFileSize < Word64
BY SizesAssumption

(* The buffer allocated by Init has a size between 1 and the maximum.      *)
LEMMA RoundedBounds ==
    ASSUME NEW n \in UInt32
    PROVE  RoundedCacheSize(n) \in 1 .. MaxCacheSize
<1> DEFINE raw == (n \div Page + 1) * Page
<1>1. n \div Page \in Nat
  BY SizesAssumption DEF UInt32
<1>2. raw \in Nat
  BY <1>1, SizesAssumption
<1>3. raw % Word32 \in 0 .. Word32 - 1
  <2> HIDE DEF raw
  <2> QED
    BY <1>2, WordBounds, RemainderBounds
<1> QED
  BY <1>3, SizesAssumption DEF RoundedCacheSize, Lesser

(* Where a miss puts the window: around the offset asked, inside the file, *)
(* and no longer than the buffer.                                          *)
LEMMA NewWindowBounds ==
    ASSUME TypeOK, NEW o \in UInt64, NEW n \in Nat \ {0}, n < Word32,
           o < fileSize, cacheSize > 0
    PROVE  /\ NewStart(o, n) \in 0 .. o
           /\ NewEnd(o, n) \in NewStart(o, n) .. fileSize
           /\ o < NewEnd(o, n)
           /\ NewEnd(o, n) - NewStart(o, n) <= cacheSize
           /\ Add64(o, n) = o + n
           /\ Lesser(o + n, NewEnd(o, n)) - o = Deliverable(o, n)
<1>1. Add64(o, n) = o + n
  <2>1. o + n \in 0 .. Word64 - 1
    BY SizesAssumption DEF TypeOK, UInt64
  <2> QED
    BY <2>1, WordBounds DEF Add64
<1>2. Wanted(o, n) = Deliverable(o, n) /\ Wanted(o, n) \in 1 .. cacheSize
  BY <1>1, SizesAssumption DEF Wanted, Deliverable, InFile, Lesser, TypeOK, UInt64
<1>3. NewStart(o, n) \in 0 .. o
  BY <1>2 DEF NewStart, TypeOK, UInt64
<1>4. NewEnd(o, n) \in NewStart(o, n) .. fileSize /\ o < NewEnd(o, n)
  BY <1>2, <1>3 DEF NewStart, NewEnd, Lesser, TypeOK, UInt64
<1>5. NewEnd(o, n) - NewStart(o, n) <= cacheSize
  BY <1>3 DEF NewEnd, Lesser, TypeOK, UInt64
<1>6. Lesser(o + n, NewEnd(o, n)) - o = Deliverable(o, n)
  BY <1>1, <1>2, <1>3 DEF NewStart, NewEnd, Deliverable, InFile, Lesser, TypeOK, UInt64
<1> QED
  BY <1>1, <1>3, <1>4, <1>5, <1>6

-----------------------------------------------------------------------------
(* A pointer into the buffer is typed for any offset and any length that   *)
(* fits a uint32.                                                          *)
LEMMA PointTypes ==
    ASSUME NEW o \in UInt64, NEW n \in UInt32, start' \in Nat, Point(o, n)
    PROVE  view' \in [valid : BOOLEAN, at : UInt64, len : UInt32]
<1>1. (o - start') % Word64 \in UInt64
  <2>1. o - start' \in Int
    BY DEF UInt64
  <2> QED
    BY <2>1, WordBounds, RemainderBounds DEF UInt64
<1> QED
  BY <1>1 DEF Point

LEMMA NoViewTypes == NoView \in [valid : BOOLEAN, at : UInt64, len : UInt32]
BY WordBounds DEF NoView, UInt64, UInt32

(* The part of TypeOK that Get writes.                                     *)
FetchedOK ==
    /\ start \in 0 .. MaxFileSize
    /\ end \in 0 .. MaxFileSize
    /\ cache \in [0 .. cacheSize - 1 -> Bytes]
    /\ view \in [valid : BOOLEAN, at : UInt64, len : UInt32]
    /\ io \in {"none", "read", "failed"}

(* Reading bytes of the file into the buffer leaves it a buffer.           *)
LEMMA ReadIntoTypes ==
    ASSUME TypeOK, NEW b \in Nat, NEW k \in Nat, b + k <= fileSize
    PROVE  ReadInto(b, k) \in [0 .. cacheSize - 1 -> Bytes]
BY SizesAssumption DEF ReadInto, TypeOK, Bytes, UInt64

LEMMA FetchTypes ==
    ASSUME TypeOK, NEW o \in UInt64, NEW n \in Int, n < Word32, NEW fail \in BOOLEAN,
           Fetch(o, n, fail), cacheSize' = cacheSize,
           opened => cacheSize > 0
    PROVE  FetchedOK'
<1> USE DEF FetchedOK
<1>1. CASE FetchRefused(n)
  BY <1>1, NoViewTypes DEF FetchRefused, TypeOK, window
<1>2. CASE FetchHit(o, n)
  <2>1. n \in UInt32 /\ start' \in Nat
    BY <1>2, WordBounds, SizesAssumption DEF FetchHit, UInt32, TypeOK, window
  <2> QED
    BY <1>2, <2>1, PointTypes DEF FetchHit, TypeOK, window
<1>3. CASE FetchTail(o, n, fail)
  <2>1. (end - o) % Word32 \in UInt32
    <3>1. end - o \in Int
      BY SizesAssumption DEF TypeOK, UInt64
    <3> QED
      BY <3>1, WordBounds, RemainderBounds DEF UInt32
  <2>2. start' \in Nat
    BY <1>3 DEF FetchTail, TypeOK, window
  <2> QED
    BY <1>3, <2>1, <2>2, PointTypes, NoViewTypes DEF FetchTail, TypeOK, window
<1>4. CASE FetchOutside(o, n)
  BY <1>4, NoViewTypes DEF FetchOutside, TypeOK, window
<1>5. CASE FetchSeekFails(o, n)
  BY <1>5, NoViewTypes DEF FetchSeekFails, TypeOK, window
<1>6. CASE FetchReadFails(o, n)
  <2>1. n \in Nat \ {0} /\ o < fileSize /\ cacheSize > 0
    BY <1>6 DEF FetchReadFails, IsMiss
  <2>2. PICK k \in 0 .. NewEnd(o, n) - NewStart(o, n) :
            cache' = ReadInto(NewStart(o, n), k)
    BY <1>6 DEF FetchReadFails
  <2>3. /\ NewStart(o, n) \in Nat
        /\ k \in Nat
        /\ NewStart(o, n) + k <= fileSize
    BY <2>1, <2>2, NewWindowBounds DEF TypeOK, UInt64
  <2>4. cache' \in [0 .. cacheSize - 1 -> Bytes]
    BY <2>2, <2>3, ReadIntoTypes
  <2> QED
    BY <1>6, <2>4, NoViewTypes, SizesAssumption DEF FetchReadFails, GiveUpWindow
<1>7. CASE FetchRefill(o, n, fail)
  <2>1. n \in Nat \ {0} /\ o < fileSize /\ cacheSize > 0
    BY <1>7 DEF FetchRefill, IsMiss
  <2>2. /\ NewStart(o, n) \in 0 .. o
        /\ NewEnd(o, n) \in NewStart(o, n) .. fileSize
    BY <2>1, NewWindowBounds
  <2>3. start' \in 0 .. MaxFileSize /\ end' \in 0 .. MaxFileSize
    BY <1>7, <2>2, SizesAssumption DEF FetchRefill, TypeOK, UInt64
  <2>4. cache' \in [0 .. cacheSize - 1 -> Bytes]
    <3>1. /\ NewStart(o, n) \in Nat
          /\ NewEnd(o, n) - NewStart(o, n) \in Nat
          /\ NewStart(o, n) + (NewEnd(o, n) - NewStart(o, n)) <= fileSize
      BY <2>2 DEF TypeOK, UInt64
    <3>2. ReadInto(NewStart(o, n), NewEnd(o, n) - NewStart(o, n))
              \in [0 .. cacheSize - 1 -> Bytes]
      BY <3>1, ReadIntoTypes
    <3> QED
      BY <1>7, <3>2 DEF FetchRefill
  <2>5. (end' - o) % Word32 \in UInt32
    <3>1. end' - o \in Int
      BY <2>3, SizesAssumption DEF UInt64
    <3> QED
      BY <3>1, WordBounds, RemainderBounds DEF UInt32
  <2>6. n \in UInt32
    BY <2>1, WordBounds DEF UInt32
  <2>7. start' \in Nat
    BY <2>3
  <2>8. view' \in [valid : BOOLEAN, at : UInt64, len : UInt32]
    <3>1. CASE Point(o, n)
      BY <2>6, <2>7, <3>1, PointTypes
    <3>2. CASE Point(o, (end' - o) % Word32)
      BY <2>5, <2>7, <3>2, PointTypes
    <3> QED
      BY <1>7, <3>1, <3>2, NoViewTypes DEF FetchRefill
  <2> QED
    BY <1>7, <2>3, <2>4, <2>8 DEF FetchRefill
<1> QED
  BY <1>1, <1>2, <1>3, <1>4, <1>5, <1>6, <1>7 DEF Fetch

(* Get keeps the window coherent, whichever way it ends.                   *)
LEMMA FetchCoherent ==
    ASSUME TypeOK, Coherent, NEW o \in UInt64, NEW n \in Int, n < Word32,
           NEW fail \in BOOLEAN, Fetch(o, n, fail),
           fileSize' = fileSize, cacheSize' = cacheSize, opened => cacheSize > 0
    PROVE  Coherent'
<1>1. CASE UNCHANGED window
  BY <1>1 DEF Coherent, window
<1>2. CASE FetchReadFails(o, n)
  BY <1>2 DEF FetchReadFails, GiveUpWindow, Coherent, TypeOK
<1>3. CASE FetchRefill(o, n, fail)
  <2>1. n \in Nat \ {0} /\ o < fileSize /\ cacheSize > 0
    BY <1>3 DEF FetchRefill, IsMiss
  <2> DEFINE s == NewStart(o, n)
             e == NewEnd(o, n)
  <2>2. start' = s /\ end' = e /\ cache' = ReadInto(s, e - s)
    BY <1>3 DEF FetchRefill
  <2>3. s \in Int /\ e \in Int /\ s <= e /\ e <= fileSize /\ e - s <= cacheSize
    BY <2>1, NewWindowBounds, SizesAssumption DEF TypeOK, UInt64
  <2>4. cacheSize \in Int /\ fileSize \in Int
    BY SizesAssumption DEF TypeOK
  <2> HIDE DEF s, e
  <2>5. ASSUME NEW i \in 0 .. e - s - 1
        PROVE  ReadInto(s, e - s)[i] = s + i
    BY <2>3, <2>4 DEF ReadInto
  <2> QED
    BY <2>2, <2>3, <2>4, <2>5 DEF Coherent
<1> QED
  BY <1>1, <1>2, <1>3 DEF Fetch, FetchRefused, FetchHit, FetchTail, FetchOutside,
     FetchSeekFails

-----------------------------------------------------------------------------
(* The cache has a buffer as soon as it has a file.                        *)
WindowInv ==
    /\ TypeOK
    /\ Coherent
    /\ opened => cacheSize > 0

(* What a view shows is a sequence of bytes.                               *)
LEMMA ShownTypes ==
    ASSUME cacheSize' \in 0 .. MaxCacheSize,
           cache' \in [0 .. cacheSize' - 1 -> Bytes],
           view' \in [valid : BOOLEAN, at : UInt64, len : UInt32]
    PROVE  Shown(view)' \in Seq(Bytes)
<1>1. view'.len \in Nat
  BY WordBounds DEF UInt32
<1>2. ASSUME NEW i \in 1 .. view'.len
      PROVE  Peek(view.at + i - 1)' \in Bytes
  BY DEF Peek, Bytes, Unread
<1>3. Shown(view)' \in [1 .. view'.len -> Bytes]
  BY <1>2 DEF Shown
<1> QED
  BY <1>1, <1>3, SeqDef

LEMMA LoopArguments ==
    ASSUME TypeOK
    PROVE  /\ Position \in UInt64
           /\ ToRead \in Int
           /\ ToRead < Word32
<1>1. request.offset \in Nat /\ request.size \in Nat /\ Len(copied) \in Nat
  <2>1. request \in Requests /\ copied \in Seq(Bytes)
    BY DEF TypeOK
  <2> QED
    BY <2>1, WordBounds DEF Requests, UInt64, UInt32
<1>2. Position \in UInt64
  <2>1. request.offset + Len(copied) \in Int
    BY <1>1
  <2> QED
    BY <2>1, WordBounds, RemainderBounds DEF Position, Add64, UInt64
<1>3. ToRead \in Int /\ ToRead < Word32
  <2>1. cacheSize \in Nat /\ cacheSize < Word32
    BY SizesAssumption DEF TypeOK
  <2>2. cacheSize \div 2 \in Nat /\ cacheSize \div 2 <= cacheSize
    BY <2>1
  <2>3. Left \in Int
    BY <1>1 DEF Left
  <2>4. Word32 \in Nat
    BY WordBounds
  <2> QED
    BY <2>1, <2>2, <2>3, <2>4 DEF ToRead, Lesser
<1> QED
  BY <1>2, <1>3

LEMMA CallTypes ==
    ASSUME TypeOK, NEW op \in {"get", "object", "copy", "write"},
           NEW o \in UInt64, NEW n \in UInt32, NEW fail \in BOOLEAN,
           Call(op, o, n, fail)
    PROVE  /\ request' \in Requests
           /\ opened' \in BOOLEAN /\ fileSize' \in 0 .. MaxFileSize
           /\ cacheSize' \in 0 .. MaxCacheSize
           /\ cacheSize' = cacheSize
BY DEF Call, Requests, TypeOK

LEMMA InitInv == Init => WindowInv
<1> SUFFICES ASSUME Init PROVE WindowInv
  OBVIOUS
<1>1. NoRequest \in Requests
  BY WordBounds DEF NoRequest, Requests, UInt64, UInt32
<1>2. cache \in [0 .. cacheSize - 1 -> Bytes]
  BY DEF Init
<1>3. copied \in Seq(Bytes)
  BY DEF Init
<1>4. /\ fileSize \in 0 .. MaxFileSize
      /\ cacheSize \in 0 .. MaxCacheSize
      /\ start \in 0 .. MaxFileSize
      /\ end \in 0 .. MaxFileSize
  BY SizesAssumption DEF Init
<1>5. TypeOK
  BY <1>1, <1>2, <1>3, <1>4, NoViewTypes DEF Init, TypeOK
<1> QED
  BY <1>5 DEF Init, WindowInv, Coherent

LEMMA TypeStep == WindowInv /\ [Next]_vars => TypeOK'
<1> SUFFICES ASSUME WindowInv, [Next]_vars
             PROVE  TypeOK'
  OBVIOUS
<1>a. TypeOK /\ (opened => cacheSize > 0)
  BY DEF WindowInv
<1>b. << >> \in Seq(Bytes)
  OBVIOUS
<1>1. ASSUME NEW n \in UInt32, NEW size \in 0 .. MaxFileSize, Open(n, size)
      PROVE  TypeOK'
  <2>1. RoundedCacheSize(n) \in 1 .. MaxCacheSize
    BY RoundedBounds
  <2> QED
    BY <1>a, <1>1, <2>1, SizesAssumption DEF Open, TypeOK, Bytes
<1>2. ASSUME NEW o \in UInt64, NEW n \in UInt32, NEW fail \in BOOLEAN, Get(o, n, fail)
      PROVE  TypeOK'
  <2>1. n \in Int /\ n < Word32
    BY WordBounds DEF UInt32
  <2>2. FetchedOK'
    BY <1>a, <1>2, <2>1, FetchTypes DEF Get, Call
  <2> QED
    BY <1>a, <1>b, <1>2, <2>2, CallTypes DEF Get, TypeOK, FetchedOK
<1>3. ASSUME NEW o \in UInt64, NEW n \in UInt32, CopyObject(o, n)
      PROVE  TypeOK'
  <2>1. n \in Int /\ n < Word32
    BY WordBounds DEF UInt32
  <2>2. FetchedOK'
    BY <1>a, <1>3, <2>1, FetchTypes DEF CopyObject, Call
  <2>3. copied' \in Seq(Bytes)
    BY <1>a, <1>3, <2>2, ShownTypes DEF CopyObject, Call, TypeOK, FetchedOK
  <2> QED
    BY <1>a, <1>3, <2>2, <2>3, CallTypes DEF CopyObject, TypeOK, FetchedOK
<1>4. ASSUME NEW o \in UInt64, NEW n \in UInt32, NEW fail \in BOOLEAN,
             CopyToBuffer(o, n, fail)
      PROVE  TypeOK'
  <2>1. /\ request' \in Requests
        /\ opened' \in BOOLEAN /\ fileSize' \in 0 .. MaxFileSize
        /\ cacheSize' \in 0 .. MaxCacheSize
        /\ cacheSize' = cacheSize
    BY <1>a, <1>4, CallTypes DEF CopyToBuffer
  <2> QED
    BY <1>a, <1>b, <1>4, <2>1, NoViewTypes DEF CopyToBuffer, TypeOK, window
<1>5. ASSUME NEW o \in UInt64, NEW n \in UInt32, WriteTo(o, n)
      PROVE  TypeOK'
  BY <1>a, <1>b, <1>5, CallTypes, NoViewTypes DEF WriteTo, TypeOK, window
<1>6. ASSUME FetchedOK',
             phase' \in {"copying", "writing", "returned"},
             success' \in BOOLEAN,
             copied' \in Seq(Bytes),
             UNCHANGED <<opened, fileSize, cacheSize, request>>
      PROVE  TypeOK'
  BY <1>a, <1>6 DEF TypeOK, FetchedOK
<1>7. ASSUME CopyChunk PROVE TypeOK'
  <2>1. FetchedOK'
    BY <1>a, <1>7, FetchTypes, LoopArguments DEF CopyChunk
  <2>2. Shown(view)' \in Seq(Bytes)
    BY <1>a, <1>7, <2>1, ShownTypes DEF CopyChunk, TypeOK, FetchedOK
  <2>3. copied \o Shown(view)' \in Seq(Bytes)
    BY <1>a, <2>2, ConcatProperties DEF TypeOK
  <2> QED
    BY <1>a, <1>b, <1>6, <1>7, <2>1, <2>3
       DEF CopyChunk, Advance, CopyEnds, Finish, TypeOK
<1>8. ASSUME WriteChunk PROVE TypeOK'
  <2>1. FetchedOK'
    BY <1>a, <1>8, FetchTypes, LoopArguments DEF WriteChunk
  <2>2. Shown(view)' \in Seq(Bytes)
    BY <1>a, <1>8, <2>1, ShownTypes DEF WriteChunk, TypeOK, FetchedOK
  <2>3. copied \o Shown(view)' \in Seq(Bytes)
    BY <1>a, <2>2, ConcatProperties DEF TypeOK
  <2> QED
    BY <1>a, <1>6, <1>8, <2>1, <2>3 DEF WriteChunk, Advance, Finish, TypeOK
<1>9. ASSUME Consume PROVE TypeOK'
  <2>1. NoRequest \in Requests
    BY WordBounds DEF NoRequest, Requests, UInt64, UInt32
  <2> QED
    BY <1>a, <1>b, <1>9, <2>1, NoViewTypes DEF Consume, TypeOK
<1>10. CASE UNCHANGED vars
  BY <1>a, <1>10 DEF vars, TypeOK
<1> QED
  BY <1>1, <1>2, <1>3, <1>4, <1>5, <1>7, <1>8, <1>9, <1>10 DEF Next

LEMMA CoherentStep == WindowInv /\ [Next]_vars => Coherent'
<1> SUFFICES ASSUME WindowInv, [Next]_vars
             PROVE  Coherent'
  OBVIOUS
<1>a. TypeOK /\ Coherent /\ (opened => cacheSize > 0)
  BY DEF WindowInv
<1>b. ASSUME UNCHANGED <<fileSize, cacheSize, start, end, cache>>
      PROVE  Coherent'
  BY <1>a, <1>b DEF Coherent
<1>1. ASSUME NEW n \in UInt32, NEW size \in 0 .. MaxFileSize, Open(n, size)
      PROVE  Coherent'
  <2>1. RoundedCacheSize(n) \in Nat
    BY RoundedBounds, SizesAssumption
  <2>2. size \in Nat
    BY SizesAssumption
  <2> QED
    BY <1>1, <2>1, <2>2 DEF Open, Coherent
<1>2. ASSUME NEW o \in UInt64, NEW n \in UInt32, NEW fail \in BOOLEAN,
             Get(o, n, fail) \/ (CopyObject(o, n) /\ fail = TRUE)
      PROVE  Coherent'
  <2>1. n \in Int /\ n < Word32
    BY WordBounds DEF UInt32
  <2> QED
    BY <1>a, <1>2, <2>1, FetchCoherent DEF Get, CopyObject, Call
<1>3. ASSUME NEW o \in UInt64, NEW n \in UInt32, NEW fail \in BOOLEAN,
             CopyToBuffer(o, n, fail) \/ WriteTo(o, n)
      PROVE  Coherent'
  BY <1>b, <1>3 DEF CopyToBuffer, WriteTo, Call, window
<1>4. ASSUME CopyChunk \/ WriteChunk
      PROVE  Coherent'
  BY <1>a, <1>4, FetchCoherent, LoopArguments DEF CopyChunk, WriteChunk
<1>5. ASSUME Consume \/ UNCHANGED vars
      PROVE  Coherent'
  BY <1>b, <1>5 DEF Consume, vars
<1> QED
  BY <1>1, <1>2, <1>3, <1>4, <1>5 DEF Next

LEMMA WindowStep == WindowInv /\ [Next]_vars => WindowInv'
<1>1. WindowInv /\ [Next]_vars => (opened => cacheSize > 0)'
  <2> SUFFICES ASSUME WindowInv, [Next]_vars
               PROVE  (opened => cacheSize > 0)'
    OBVIOUS
  <2>1. ASSUME NEW n \in UInt32, NEW size \in 0 .. MaxFileSize, Open(n, size)
        PROVE  cacheSize' > 0
    <3>1. RoundedCacheSize(n) > 0
      BY RoundedBounds, SizesAssumption
    <3> QED
      BY <2>1, <3>1 DEF Open
  <2> QED
    BY <2>1 DEF WindowInv, Next, Get, CopyObject, CopyToBuffer, WriteTo, Call,
       CopyChunk, WriteChunk, Consume, vars
<1> QED
  BY <1>1, TypeStep, CoherentStep DEF WindowInv

LEMMA WindowInvariant == Spec => []WindowInv
BY InitInv, WindowStep, PTL DEF Spec

(* The variables keep their types: window bounds inside the largest file,  *)
(* lengths within 32 bits and places within 64, also where a subtraction   *)
(* of Get does wrap around: for an offset behind the end of the file.      *)
(* AlwaysExact says that for an offset inside the file none does.          *)
THEOREM TypeCorrect == Spec => []TypeOK
<1>1. WindowInv => TypeOK
  BY DEF WindowInv
<1> QED
  BY <1>1, WindowInvariant, PTL

(* The buffer always holds the bytes of the file its window names.         *)
THEOREM AlwaysCoherent == Spec => []Coherent
<1>1. WindowInv => Coherent
  BY DEF WindowInv
<1> QED
  BY <1>1, WindowInvariant, PTL

-----------------------------------------------------------------------------
(* A value below the divisor is its own remainder.                         *)
LEMMA RemainderOfSmall ==
    ASSUME NEW b \in Nat \ {0}, NEW a \in 0 .. b - 1
    PROVE  a % b = a
OBVIOUS

(* Inside the file the end of a request does not wrap around, and Get can  *)
(* deliver at least one byte.                                              *)
LEMMA InsideTheFile ==
    ASSUME TypeOK, NEW o \in UInt64, NEW n \in Nat \ {0}, n < Word32,
           o < fileSize, cacheSize > 0
    PROVE  /\ Add64(o, n) = o + n
           /\ Deliverable(o, n) \in 1 .. n
           /\ Deliverable(o, n) <= cacheSize
           /\ Deliverable(o, n) <= fileSize - o
           /\ Deliverable(o, n) \in UInt32
<1>1. Add64(o, n) = o + n
  BY NewWindowBounds
<1> QED
  BY <1>1, SizesAssumption DEF Deliverable, InFile, Lesser, TypeOK, UInt64, UInt32

(* A pointer made for a place s inside the window.                         *)
LEMMA PointInWindow ==
    ASSUME NEW o \in UInt64, NEW s \in 0 .. o, NEW k \in UInt32,
           start' = s, Point(o, k)
    PROVE  view' = [valid |-> TRUE, at |-> o - s, len |-> k]
<1>1. o - s \in 0 .. Word64 - 1
  BY WordBounds DEF UInt64
<1>2. (o - s) % Word64 = o - s
  BY <1>1, WordBounds, RemainderOfSmall
<1> QED
  BY <1>2 DEF Point

(* What Get returns for a request inside the file, in terms of the window  *)
(* it leaves.                                                              *)
LEMMA FetchExact ==
    ASSUME TypeOK, Coherent, NEW o \in UInt64, NEW n \in Nat \ {0}, n < Word32,
           NEW fail \in BOOLEAN, Fetch(o, n, fail), opened, cacheSize > 0,
           o < fileSize
    PROVE  IF view'.valid
           THEN /\ \E s \in 0 .. o :
                     /\ start' = s
                     /\ \E e \in Int : end' = e /\ o + Deliverable(o, n) <= e
                     /\ view' = [valid |-> TRUE, at |-> o - s,
                                 len |-> Deliverable(o, n)]
                /\ fail => Deliverable(o, n) = n
           ELSE io' = "failed" \/ (fail /\ Deliverable(o, n) < n)
<1> DEFINE d == Deliverable(o, n)
<1>a. /\ Add64(o, n) = o + n
      /\ d \in 1 .. n /\ d \in UInt32
  BY InsideTheFile
<1>b. /\ fileSize \in Int /\ cacheSize \in Int /\ start \in Nat /\ end \in Int
      /\ o \in Nat /\ cacheSize < Word32 /\ Word32 \in Nat \ {0}
  BY SizesAssumption DEF TypeOK, UInt64
<1>c. NoView.valid = FALSE
  BY DEF NoView
<1>1. CASE FetchHit(o, n)
  <2>1. start \in 0 .. o /\ o + n <= end
    BY <1>1, <1>a, <1>b DEF FetchHit, IsCached
  <2>2. d = n
    BY <1>b, <2>1 DEF Deliverable, InFile, Lesser, Coherent
  <2>3. start' = start /\ end' = end /\ Point(o, n)
    BY <1>1 DEF FetchHit, window
  <2>4. view' = [valid |-> TRUE, at |-> o - start, len |-> d]
    BY <1>a, <2>1, <2>2, <2>3, PointInWindow
  <2> QED
    BY <1>b, <2>1, <2>2, <2>3, <2>4
<1>2. CASE FetchTail(o, n, fail)
  <2>1. start \in 0 .. o /\ end = fileSize /\ ~(o + n <= end)
    BY <1>2, <1>a, <1>b DEF FetchTail, IsCached, AtTheEnd
  <2>2. d = end - o /\ d < n /\ end - o \in 0 .. Word32 - 1
    BY <1>b, <2>1 DEF Deliverable, InFile, Lesser, Coherent
  <2>3. (end - o) % Word32 = d
    BY <1>b, <2>2, RemainderOfSmall
  <2>4. start' = start /\ end' = end
    BY <1>2 DEF FetchTail, window
  <2>5. CASE fail
    BY <1>2, <1>c, <2>2, <2>5 DEF FetchTail
  <2>6. CASE ~fail
    <3>1. view' = [valid |-> TRUE, at |-> o - start, len |-> d]
      BY <1>2, <1>a, <2>1, <2>3, <2>4, <2>6, PointInWindow DEF FetchTail
    <3>2. o + d <= end
      BY <1>b, <2>2
    <3> QED
      BY <1>b, <2>1, <2>4, <2>6, <3>1, <3>2
  <2> QED
    BY <2>5, <2>6
<1>3. CASE FetchSeekFails(o, n) \/ FetchReadFails(o, n)
  BY <1>3, <1>c DEF FetchSeekFails, FetchReadFails
<1>4. CASE FetchRefill(o, n, fail)
  <2> DEFINE s == NewStart(o, n)
             e == NewEnd(o, n)
  <2>1. /\ s \in 0 .. o /\ e \in Int /\ o < e /\ e <= fileSize
        /\ e - s <= cacheSize /\ Lesser(o + n, e) - o = d
    BY <1>b, NewWindowBounds
  <2>2. start' = s /\ end' = e
    BY <1>4 DEF FetchRefill
  <2>3. IF o + n <= e THEN Point(o, n)
        ELSE IF fail THEN view' = NoView ELSE Point(o, (e - o) % Word32)
    BY <1>4, <1>a DEF FetchRefill
  <2> HIDE DEF s, e
  <2>4. CASE o + n <= e
    <3>1. d = n
      BY <1>b, <2>1, <2>4 DEF Lesser
    <3>2. view' = [valid |-> TRUE, at |-> o - s, len |-> d]
      BY <1>a, <2>1, <2>2, <2>3, <2>4, <3>1, PointInWindow
    <3> QED
      BY <2>1, <2>2, <2>4, <3>1, <3>2
  <2>5. CASE ~(o + n <= e)
    <3>1. d = e - o /\ d < n /\ e - o \in 0 .. Word32 - 1
      BY <1>b, <2>1, <2>5 DEF Lesser
    <3>2. (e - o) % Word32 = d
      BY <1>b, <3>1, RemainderOfSmall
    <3>3. CASE fail
      BY <1>c, <2>3, <2>5, <3>1, <3>3
    <3>4. CASE ~fail
      <4>1. view' = [valid |-> TRUE, at |-> o - s, len |-> d]
        BY <1>a, <2>1, <2>2, <2>3, <2>5, <3>2, <3>4, PointInWindow
      <4>2. o + d <= e
        BY <1>b, <2>1, <3>1
      <4> QED
        BY <2>1, <2>2, <3>4, <4>1, <4>2
    <3> QED
      BY <3>3, <3>4
  <2> QED
    BY <2>4, <2>5
<1>5. ~FetchRefused(n) /\ ~FetchOutside(o, n)
  BY <1>b DEF FetchRefused, FetchOutside
<1> QED
  BY <1>1, <1>2, <1>3, <1>4, <1>5 DEF Fetch

LEMMA PlaceInWindow ==
    ASSUME NEW o \in Nat, NEW s \in 0 .. o, NEW e \in Int, NEW d \in Nat,
           NEW c \in Nat, NEW i \in 1 .. d, o + d <= e, e - s <= c
    PROVE  /\ o - s + i - 1 \in 0 .. e - s - 1 /\ o - s + i - 1 \in 0 .. c - 1
           /\ s + (o - s + i - 1) = o + i - 1
OBVIOUS

(* A view inside a coherent window shows the bytes of the file at the      *)
(* place it was made for.                                                  *)
LEMMA ViewShowsSlice ==
    ASSUME Coherent', cacheSize' \in Nat, cache' \in [0 .. cacheSize' - 1 -> Bytes],
           NEW o \in Nat, NEW s \in 0 .. o, NEW e \in Int, NEW d \in Nat,
           start' = s, end' = e, o + d <= e,
           view' = [valid |-> TRUE, at |-> o - s, len |-> d]
    PROVE  Shown(view)' = Slice(o, d)
<1>1. PICK c \in Nat : cacheSize' = c
  OBVIOUS
<1>2. e - s <= c /\ \A i \in 0 .. e - s - 1 : cache'[i] = s + i
  BY <1>1 DEF Coherent
<1>3. ASSUME NEW i \in 1 .. d
      PROVE  Peek(view.at + i - 1)' = o + i - 1
  <2>1. /\ o - s + i - 1 \in 0 .. e - s - 1 /\ o - s + i - 1 \in 0 .. c - 1
        /\ s + (o - s + i - 1) = o + i - 1
    BY <1>2, PlaceInWindow
  <2>2. cache'[o - s + i - 1] = o + i - 1
    BY <1>2, <2>1
  <2>3. o - s + i - 1 \in DOMAIN cache'
    BY <1>1, <2>1
  <2>4. view'.at = o - s
    OBVIOUS
  <2> QED
    BY <2>2, <2>3, <2>4 DEF Peek
<1>4. view'.len = d
  OBVIOUS
<1> QED
  BY <1>3, <1>4 DEF Shown, Slice

(* Each loop belongs to its call.                                          *)
LoopOps ==
    /\ phase = "copying" => request.op = "copy"
    /\ phase = "writing" => request.op = "write"

LEMMA ExactStep == WindowInv /\ LoopOps /\ GetIsExact /\ [Next]_vars => GetIsExact'
<1> SUFFICES ASSUME WindowInv, LoopOps, GetIsExact, [Next]_vars
             PROVE  GetIsExact'
  OBVIOUS
<1>a. TypeOK /\ Coherent /\ (opened => cacheSize > 0)
  BY DEF WindowInv
<1>b. Coherent' /\ TypeOK'
  BY CoherentStep, TypeStep
<1>1. ASSUME NEW o \in UInt64, NEW n \in UInt32, NEW fail \in BOOLEAN,
             NEW op \in {"get", "object"},
             Call(op, o, n, fail), Fetch(o, n, fail)
      PROVE  GetIsExact'
  <2> SUFFICES ASSUME opened, o < fileSize, n > 0
               PROVE  IF view'.valid
                      THEN /\ view'.at + view'.len <= end' - start'
                           /\ Shown(view)' = Slice(o, Deliverable(o, n))
                           /\ fail => Deliverable(o, n) = n
                      ELSE io' = "failed" \/ (fail /\ Deliverable(o, n) < n)
    BY <1>1 DEF GetIsExact, Call, Deliverable, InFile
  <2>1. n \in Nat \ {0} /\ n < Word32
    BY WordBounds DEF UInt32
  <2>2. IF view'.valid
        THEN /\ \E s \in 0 .. o :
                  /\ start' = s
                  /\ \E e \in Int : end' = e /\ o + Deliverable(o, n) <= e
                  /\ view' = [valid |-> TRUE, at |-> o - s,
                              len |-> Deliverable(o, n)]
             /\ fail => Deliverable(o, n) = n
        ELSE io' = "failed" \/ (fail /\ Deliverable(o, n) < n)
    BY <1>a, <1>1, <2>1, FetchExact
  <2>3. ASSUME view'.valid
        PROVE  /\ view'.at + view'.len <= end' - start'
               /\ Shown(view)' = Slice(o, Deliverable(o, n))
    <3>1. PICK s \in 0 .. o, e \in Int :
             /\ start' = s
             /\ end' = e /\ o + Deliverable(o, n) <= e
             /\ view' = [valid |-> TRUE, at |-> o - s, len |-> Deliverable(o, n)]
      BY <2>2, <2>3
    <3>2. o \in Nat /\ Deliverable(o, n) \in Nat
      <4>1. Deliverable(o, n) \in 1 .. n
        BY <1>a, <2>1, InsideTheFile
      <4> QED
        BY <2>1, <4>1, WordBounds DEF UInt64
    <3>3. cacheSize' \in Nat /\ cache' \in [0 .. cacheSize' - 1 -> Bytes]
      <4>1. cacheSize' \in 0 .. MaxCacheSize /\ cache' \in [0 .. cacheSize' - 1 -> Bytes]
        BY <1>b DEF TypeOK
      <4>2. cacheSize' \in Nat
        BY <4>1, SizesAssumption
      <4> QED
        BY <4>1, <4>2
    <3>4. view'.at + view'.len <= end' - start'
      <4>1. view'.at = o - s /\ view'.len = Deliverable(o, n) /\ start' = s /\ end' = e
        BY <3>1
      <4> QED
        BY <3>1, <3>2, <4>1
    <3> QED
      BY <1>b, <3>1, <3>2, <3>3, <3>4, ViewShowsSlice
  <2> QED
    BY <2>2, <2>3
<1>2. ASSUME NEW o \in UInt64, NEW n \in UInt32, NEW fail \in BOOLEAN, Get(o, n, fail)
      PROVE  GetIsExact'
  BY <1>1, <1>2 DEF Get
<1>3. ASSUME NEW o \in UInt64, NEW n \in UInt32, CopyObject(o, n)
      PROVE  GetIsExact'
  BY <1>1, <1>3 DEF CopyObject
<1>4. ASSUME request'.op \notin {"get", "object"} \/ phase' # "returned"
      PROVE  GetIsExact'
  BY <1>4 DEF GetIsExact
<1>5. ASSUME NEW o \in UInt64, NEW n \in UInt32, NEW fail \in BOOLEAN,
             CopyToBuffer(o, n, fail)
      PROVE  GetIsExact'
  BY <1>4, <1>5 DEF CopyToBuffer, Call
<1>10. ASSUME NEW o \in UInt64, NEW n \in UInt32, WriteTo(o, n)
       PROVE  GetIsExact'
  BY <1>4, <1>10 DEF WriteTo, Call
<1>6. ASSUME CopyChunk \/ WriteChunk
      PROVE  GetIsExact'
  BY <1>4, <1>6 DEF CopyChunk, WriteChunk, LoopOps
<1>7. ASSUME NEW n \in UInt32, NEW size \in 0 .. MaxFileSize, Open(n, size)
      PROVE  GetIsExact'
  BY <1>4, <1>7 DEF Open
<1>9. ASSUME Consume PROVE GetIsExact'
  BY <1>4, <1>9 DEF Consume
<1>8. CASE UNCHANGED vars
  <2>1. Shown(view)' = Shown(view)
    BY <1>8 DEF vars, Shown, Peek
  <2> QED
    BY <1>8, <2>1 DEF vars, GetIsExact, Deliverable, InFile
<1> QED
  BY <1>2, <1>3, <1>5, <1>6, <1>7, <1>8, <1>9, <1>10 DEF Next

LEMMA LoopOpsStep == LoopOps /\ [Next]_vars => LoopOps'
<1> SUFFICES ASSUME LoopOps, [Next]_vars
             PROVE  LoopOps'
  OBVIOUS
<1>1. ASSUME phase' \in {"idle", "returned"} PROVE LoopOps'
  BY <1>1 DEF LoopOps
<1>2. ASSUME NEW n \in UInt32, NEW size \in 0 .. MaxFileSize, Open(n, size)
      PROVE  LoopOps'
  BY <1>2 DEF Open, LoopOps
<1>3. ASSUME NEW o \in UInt64, NEW n \in UInt32, NEW fail \in BOOLEAN, Get(o, n, fail)
      PROVE  LoopOps'
  BY <1>1, <1>3 DEF Get
<1>4. ASSUME NEW o \in UInt64, NEW n \in UInt32, CopyObject(o, n)
      PROVE  LoopOps'
  BY <1>1, <1>4 DEF CopyObject
<1>5. ASSUME NEW o \in UInt64, NEW n \in UInt32, NEW fail \in BOOLEAN,
             CopyToBuffer(o, n, fail)
      PROVE  LoopOps'
  BY <1>5 DEF CopyToBuffer, Call, LoopOps
<1>6. ASSUME NEW o \in UInt64, NEW n \in UInt32, WriteTo(o, n)
      PROVE  LoopOps'
  BY <1>6 DEF WriteTo, Call, LoopOps
<1>7. ASSUME UNCHANGED request, phase' = phase \/ phase' = "returned"
      PROVE  LoopOps'
  BY <1>7 DEF LoopOps
<1>8. ASSUME CopyChunk \/ WriteChunk PROVE LoopOps'
  BY <1>7, <1>8 DEF CopyChunk, WriteChunk, Advance, CopyEnds, Finish
<1>9. ASSUME Consume \/ UNCHANGED vars PROVE LoopOps'
  BY <1>1, <1>7, <1>9 DEF Consume, vars
<1> QED
  BY <1>2, <1>3, <1>4, <1>5, <1>6, <1>8, <1>9 DEF Next

(* Get's answer inside the file depends on the file and the request only:  *)
(* the bytes asked for, as many as there are and the buffer holds, through *)
(* a pointer and a length that lie in the window.                          *)
THEOREM AlwaysExact == Spec => []GetIsExact
<1>1. Init => LoopOps /\ GetIsExact
  BY DEF Init, LoopOps, GetIsExact
<1> QED
  BY <1>1, InitInv, WindowStep, ExactStep, LoopOpsStep, PTL DEF Spec

-----------------------------------------------------------------------------
(* CopyToBuffer and WriteTo: the chunks of a loop, each read through a     *)
(* window of its own, are together the bytes at the offset asked.          *)

(* A buffer is long enough to be halved.                                   *)

LEMMA MultipleOf ==
    ASSUME NEW p \in Nat \ {0}, NEW j \in Int, j * p >= 0
    PROVE  j * p = 0 \/ j * p >= p
<1>1. CASE j <= 0
  <2>1. j * p <= 0
    BY <1>1
  <2> QED
    BY <2>1
<1>2. CASE j >= 1
  <2>1. (j - 1) * p >= 0
    BY <1>2
  <2>2. j * p = (j - 1) * p + p
    OBVIOUS
  <2> QED
    BY <2>1, <2>2
<1> QED
  BY <1>1, <1>2

LEMMA Division ==
    ASSUME NEW a \in Int, NEW w \in Nat \ {0}
    PROVE  a \div w \in Int /\ a % w \in 0 .. w - 1 /\ a % w = a - w * (a \div w)
<1>1. a \div w \in Int
  OBVIOUS
<1>2. a % w \in 0 .. w - 1
  BY RemainderBounds
<1>3. a % w = a - w * (a \div w)
  OBVIOUS
<1> QED
  BY <1>1, <1>2, <1>3

LEMMA Distribute ==
    ASSUME NEW a \in Int, NEW b \in Int, NEW c \in Int
    PROVE  (a - b) * c = a * c - b * c
OBVIOUS

LEMMA RemainderOfMultiple ==
    ASSUME NEW p \in Nat \ {0}, NEW k \in Nat, NEW w \in Nat \ {0}, w % p = 0
    PROVE  (k * p) % w = 0 \/ (k * p) % w >= p
<1> DEFINE m == w \div p
           q == (k * p) \div w
           r == (k * p) % w
<1>1. m \in Int /\ w = m * p
  OBVIOUS
<1>2. k * p \in Int
  OBVIOUS
<1>3. q \in Int /\ r \in 0 .. w - 1 /\ r = k * p - w * q
  BY <1>2, Division
<1> HIDE DEF m, q, r
<1>4. r = (k - m * q) * p
  <2>1. r = k * p - (m * p) * q
    BY <1>1, <1>3
  <2>2. (m * p) * q = (m * q) * p
    BY <1>1, <1>3
  <2>3. (k - m * q) * p = k * p - (m * q) * p
    <3>1. m * q \in Int
      BY <1>1, <1>3
    <3> QED
      BY <3>1, Distribute
  <2>4. (m * p) * q \in Int
    BY <1>1, <1>3
  <2> QED
    BY <1>2, <1>3, <2>1, <2>2, <2>3, <2>4
<1>5. k - m * q \in Int
  BY <1>1, <1>3
<1>6. r = 0 \/ r >= p
  BY <1>3, <1>4, <1>5, MultipleOf
<1> QED
  BY <1>6 DEF r

(* The buffer allocated by Init has at least two bytes: a turn of a loop   *)
(* asks for one byte or more.                                              *)
LEMMA RoundedHalves ==
    ASSUME NEW n \in UInt32
    PROVE  RoundedCacheSize(n) >= 2
<1> DEFINE k == n \div Page + 1
<1>1. k \in Nat
  BY SizesAssumption DEF UInt32
<1>2. (k * Page) % Word32 = 0 \/ (k * Page) % Word32 >= Page
  <2> HIDE DEF k
  <2> QED
    BY <1>1, SizesAssumption, WordBounds, RemainderOfMultiple
<1>3. (k * Page) % Word32 \in Int
  <2>1. k * Page \in Int
    BY <1>1, SizesAssumption
  <2> HIDE DEF k
  <2> QED
    BY <2>1, WordBounds, RemainderBounds
<1>4. RoundedCacheSize(n) = IF (k * Page) % Word32 = 0 THEN MaxCacheSize
                            ELSE Lesser((k * Page) % Word32, MaxCacheSize)
  BY DEF RoundedCacheSize
<1> HIDE DEF k
<1> QED
  BY <1>2, <1>3, <1>4, SizesAssumption DEF Lesser

Halves == opened => cacheSize >= 2

LEMMA HalvesStep == Halves /\ [Next]_vars => Halves'
<1> SUFFICES ASSUME Halves, [Next]_vars
             PROVE  Halves'
  OBVIOUS
<1>1. ASSUME NEW n \in UInt32, NEW size \in 0 .. MaxFileSize, Open(n, size)
      PROVE  Halves'
  BY <1>1, RoundedHalves DEF Open, Halves
<1> QED
  BY <1>1 DEF Halves, Next, Get, CopyObject, CopyToBuffer, WriteTo, Call,
     CopyChunk, WriteChunk, Consume, vars

-----------------------------------------------------------------------------
(* Slices of the file.                                                     *)

LEMMA SliceLength ==
    ASSUME NEW o \in Nat, NEW k \in Nat
    PROVE  Slice(o, k) \in Seq(Nat) /\ Len(Slice(o, k)) = k
<1>1. Slice(o, k) \in [1 .. k -> Nat]
  BY DEF Slice
<1>2. Slice(o, k) \in Seq(Nat)
  BY <1>1, SeqDef
<1> QED
  BY <1>1, <1>2, LenProperties

LEMMA SlicesJoin ==
    ASSUME NEW o \in Nat, NEW c \in Nat, NEW d \in Nat
    PROVE  Slice(o, c) \o Slice(o + c, d) = Slice(o, c + d)
<1> DEFINE a == Slice(o, c)
           b == Slice(o + c, d)
           ab == Slice(o, c + d)
<1>1. /\ a \in Seq(Nat) /\ Len(a) = c /\ b \in Seq(Nat) /\ Len(b) = d
      /\ ab \in Seq(Nat) /\ Len(ab) = c + d
  <2>1. o + c \in Nat /\ c + d \in Nat
    OBVIOUS
  <2> QED
    BY <2>1, SliceLength
<1>2. \A i \in 1 .. c : a[i] = o + i - 1
  BY DEF Slice
<1>3. \A i \in 1 .. d : b[i] = o + c + i - 1
  BY DEF Slice
<1>4. \A i \in 1 .. c + d : ab[i] = o + i - 1
  BY DEF Slice
<1> HIDE DEF a, b, ab
<1>5. a \o b \in Seq(Nat) /\ Len(a \o b) = c + d
  BY <1>1, ConcatProperties
<1>6. ASSUME NEW i \in 1 .. c + d
      PROVE  (a \o b)[i] = ab[i]
  <2>1. (a \o b)[i] = IF i <= c THEN a[i] ELSE b[i - c]
    BY <1>1, ConcatProperties
  <2>2. CASE i <= c
    BY <1>2, <1>4, <2>1, <2>2
  <2>3. CASE ~(i <= c)
    <3>1. i - c \in 1 .. d
      BY <2>3
    <3> QED
      BY <1>3, <1>4, <2>1, <2>3, <3>1
  <2> QED
    BY <2>2, <2>3
<1>7. a \o b = ab
  BY <1>1, <1>5, <1>6, SeqEqual
<1> QED
  BY <1>7 DEF a, b, ab

-----------------------------------------------------------------------------
(* One chunk: what Get answers a turn of a loop.                           *)

LEMMA NothingShown ==
    ASSUME view'.len = 0
    PROVE  Shown(view)' = Slice(0, 0) /\ \A o \in Nat : Shown(view)' = Slice(o, 0)
<1>1. Shown(view)' = [i \in 1 .. 0 |-> Peek(view.at + i - 1)']
  BY DEF Shown
<1>2. ASSUME NEW o \in Nat
      PROVE  Shown(view)' = Slice(o, 0)
  BY <1>1, <1>2 DEF Slice
<1> QED
  BY <1>2

(* A call that is not answered leaves no pointer.                          *)
LEMMA InvalidIsNoView ==
    ASSUME NEW o, NEW n, NEW fail \in BOOLEAN, Fetch(o, n, fail), ~view'.valid
    PROVE  view' = NoView
BY DEF Fetch, FetchRefused, FetchHit, FetchTail, FetchOutside, FetchSeekFails,
   FetchReadFails, FetchRefill, Point

(* At the end of the file there is nothing to show, and nothing at all for *)
(* a caller who insists.                                                   *)
LEMMA FetchAtTheEnd ==
    ASSUME TypeOK, Coherent, NEW n \in Nat, n < Word32, NEW fail \in BOOLEAN,
           Fetch(fileSize, n, fail)
    PROVE  view'.len = 0 /\ (fail => ~view'.valid)
<1>a. /\ fileSize \in Nat /\ fileSize + n < Word64 /\ end \in Nat /\ end <= fileSize
  BY SizesAssumption DEF TypeOK, Coherent
<1>b. Add64(fileSize, n) = fileSize + n
  BY <1>a, WordBounds, RemainderOfSmall DEF Add64
<1>c. NoView.len = 0 /\ ~NoView.valid
  BY DEF NoView
<1>1. ~FetchHit(fileSize, n)
  BY <1>a, <1>b DEF FetchHit, IsCached
<1>2. CASE FetchTail(fileSize, n, fail)
  <2>1. (end - fileSize) % Word32 = 0
    <3>1. end - fileSize = 0
      BY <1>2, <1>a DEF FetchTail, AtTheEnd
    <3> QED
      BY <3>1, WordBounds, RemainderOfSmall
  <2> QED
    BY <1>2, <1>c, <2>1 DEF FetchTail, Point
<1>3. ~FetchSeekFails(fileSize, n) /\ ~FetchReadFails(fileSize, n) /\ ~FetchRefill(fileSize, n, fail)
  BY <1>a DEF FetchSeekFails, FetchReadFails, FetchRefill
<1>4. CASE FetchRefused(n) \/ FetchOutside(fileSize, n)
  BY <1>4, <1>c DEF FetchRefused, FetchOutside
<1> QED
  BY <1>1, <1>2, <1>3, <1>4 DEF Fetch

(* A chunk of n bytes asked for at p is the d bytes there: n of them, or   *)
(* all the file still has; fewer only if the file could not be read.       *)
ChunkIs(p, n, d, fail) ==
    /\ view'.len = d
    /\ Shown(view)' = Slice(p, d)
    /\ p + d <= fileSize
    /\ view'.valid /\ fail => d = n
    /\ ~fail /\ opened /\ d < n /\ p + d < fileSize => io' = "failed"

LEMMA ChunkExact ==
    ASSUME TypeOK, Coherent, TypeOK', Coherent', Halves,
           NEW p \in 0 .. fileSize, NEW n \in Nat, n < Word32, n <= cacheSize, NEW fail \in BOOLEAN,
           opened => n > 0, Fetch(p, n, fail)
    PROVE  \E d \in 0 .. n : ChunkIs(p, n, d, fail)
<1>a. fileSize \in Nat /\ p \in Nat /\ p \in UInt64
  BY WordBounds, SizesAssumption DEF TypeOK, UInt64
<1>b. NoView.len = 0 /\ ~NoView.valid
  BY DEF NoView
<1>1. ASSUME view'.len = 0, fail => ~view'.valid,
             ~fail /\ opened /\ p < fileSize => io' = "failed"
      PROVE  ChunkIs(p, n, 0, fail)
  BY <1>1, <1>a, NothingShown DEF ChunkIs
<1>2. CASE p = fileSize
  <2>1. view'.len = 0 /\ (fail => ~view'.valid)
    BY <1>2, FetchAtTheEnd
  <2> QED
    BY <1>1, <1>2, <1>a, <2>1
<1>3. CASE ~opened
  <2>1. view' = NoView
    BY <1>3 DEF Fetch, FetchRefused, FetchHit, FetchTail, FetchOutside, FetchSeekFails,
       FetchReadFails, FetchRefill, IsMiss
  <2> QED
    BY <1>1, <1>3, <1>b, <2>1
<1>4. CASE p < fileSize /\ opened
  <2>1. n \in Nat \ {0} /\ cacheSize > 0 /\ cacheSize \in Nat
    BY <1>4, SizesAssumption DEF Halves, TypeOK
  <2>2. IF view'.valid
        THEN /\ \E s \in 0 .. p :
                  /\ start' = s
                  /\ \E e \in Int : end' = e /\ p + Deliverable(p, n) <= e
                  /\ view' = [valid |-> TRUE, at |-> p - s, len |-> Deliverable(p, n)]
             /\ fail => Deliverable(p, n) = n
        ELSE io' = "failed" \/ (fail /\ Deliverable(p, n) < n)
    BY <1>4, <1>a, <2>1, FetchExact
  <2>3. PICK d \in 1 .. n : d = Deliverable(p, n)
    BY <1>4, <1>a, <2>1, InsideTheFile
  <2>4. d <= fileSize - p /\ (d < n => p + d = fileSize)
    BY <1>a, <2>1, <2>3 DEF Deliverable, InFile, Lesser
  <2>5. CASE view'.valid
    <3>1. PICK s \in 0 .. p, e \in Int :
             /\ start' = s /\ end' = e /\ p + d <= e
             /\ view' = [valid |-> TRUE, at |-> p - s, len |-> d]
      BY <2>2, <2>3, <2>5
    <3>2. cacheSize' \in Nat /\ cache' \in [0 .. cacheSize' - 1 -> Bytes]
      <4>1. cacheSize' \in 0 .. MaxCacheSize /\ cache' \in [0 .. cacheSize' - 1 -> Bytes]
        BY DEF TypeOK
      <4>2. cacheSize' \in Nat
        BY <4>1, SizesAssumption
      <4> QED
        BY <4>1, <4>2
    <3>3. d \in Nat
      BY <2>3
    <3>4. Shown(view)' = Slice(p, d)
      BY <1>a, <3>1, <3>2, <3>3, ViewShowsSlice
    <3>5. view'.len = d
      BY <3>1
    <3>6. p + d <= fileSize /\ (d < n => ~(p + d < fileSize)) /\ (fail => d = n)
      BY <1>a, <2>2, <2>3, <2>4, <2>5
    <3>7. ChunkIs(p, n, d, fail)
      BY <3>4, <3>5, <3>6 DEF ChunkIs
    <3> QED
      BY <2>3, <3>7
  <2>6. CASE ~view'.valid
    <3>1. view' = NoView
      BY <2>6, InvalidIsNoView
    <3> QED
      BY <1>1, <1>b, <2>2, <2>6, <3>1
  <2> QED
    BY <2>5, <2>6
<1> QED
  BY <1>2, <1>3, <1>4, <1>a

-----------------------------------------------------------------------------
(* The loops.                                                              *)

(* What a loop has produced is the bytes at the offset asked; CopyToBuffer *)
(* for a caller who insists loops only over bytes of the file.             *)
CopyInv ==
    /\ request.op = "copy" => copied = Slice(request.offset, Len(copied))
    /\ phase = "copying" =>
          /\ request.offset + Len(copied) <= fileSize
          /\ Len(copied) < request.size
          /\ request.fail => request.offset + request.size <= fileSize
    /\ request.op = "copy" /\ phase = "returned" /\ ~success => copied = <<>>

WriteInv ==
    phase \in {"writing", "returned"} /\ request.op = "write" /\ request.offset <= fileSize =>
        /\ copied = Slice(request.offset, Len(copied))
        /\ request.offset + Len(copied) <= fileSize
        /\ Len(copied) <= request.size
        /\ phase = "writing" => Len(copied) < request.size

TransferInv == CopyInv /\ WriteInv /\ TransfersAreExact

(* A turn of a loop that stands in the file reads a chunk at its place.    *)
LEMMA TurnAsks ==
    ASSUME NEW k \in Nat, NEW left \in Nat \ {0}
    PROVE  /\ Lesser(k \div 2, left) \in 0 .. left
           /\ Lesser(k \div 2, left) <= k
           /\ k >= 2 => Lesser(k \div 2, left) > 0
BY DEF Lesser

TurnIs(o, c, n, fail) ==
    \E t \in 0 .. n - c, d \in Nat :
        /\ t = ToRead /\ n - c = Left /\ d <= t /\ (opened => t > 0)
        /\ ChunkIs(o + c, t, d, fail)
        /\ copied \o Shown(view)' = Slice(o, c + d)

LEMMA TurnExact ==
    ASSUME NEW o \in Nat, NEW c \in Nat, NEW n \in Nat, NEW fail \in BOOLEAN,
           TypeOK, Coherent, TypeOK', Coherent', Halves,
           o = request.offset /\ c = Len(copied) /\ n = request.size,
           c < n /\ o + c <= fileSize /\ copied = Slice(o, c),
           Fetch(Position, ToRead, fail)
    PROVE  TurnIs(o, c, n, fail)
<1> USE DEF TurnIs
<1>a. fileSize \in 0 .. MaxFileSize /\ cacheSize \in Nat
  BY SizesAssumption DEF TypeOK
<1>1. Position = o + c
  <2>1. o + c \in 0 .. Word64 - 1
    BY <1>a, WordBounds, SizesAssumption
  <2> QED
    BY <2>1, WordBounds, RemainderOfSmall DEF Position, Add64
<1>2. PICK t \in 0 .. n - c : t = ToRead /\ n - c = Left /\ t <= cacheSize /\ (opened => t > 0)
  <2>1. n - c \in Nat \ {0} /\ Left = n - c
    BY DEF Left
  <2>2. ToRead = Lesser(cacheSize \div 2, n - c)
    BY <2>1 DEF ToRead
  <2>3. /\ ToRead \in 0 .. n - c
        /\ ToRead <= cacheSize
        /\ cacheSize >= 2 => ToRead > 0
    BY <1>a, <2>1, <2>2, TurnAsks
  <2> QED
    BY <2>1, <2>3 DEF Halves
<1>3. t \in Nat /\ t < Word32
  BY <1>2, LoopArguments
<1>4. o + c \in 0 .. fileSize
  <2>1. o + c \in Nat /\ fileSize \in Int
    BY <1>a, SizesAssumption
  <2> QED
    BY <2>1
<1>5. PICK d \in 0 .. t : ChunkIs(o + c, t, d, fail)
  <2>1. Fetch(o + c, t, fail)
    BY <1>1, <1>2
  <2> QED
    BY <1>2, <1>3, <1>4, <2>1, ChunkExact
<1>6. d \in Nat /\ d <= t
  BY <1>3, <1>5
<1>7. copied \o Shown(view)' = Slice(o, c + d)
  <2>1. Shown(view)' = Slice(o + c, d)
    BY <1>5 DEF ChunkIs
  <2>2. Slice(o, c) \o Slice(o + c, d) = Slice(o, c + d)
    BY <1>6, SlicesJoin
  <2> QED
    BY <2>1, <2>2
<1> QED
  BY <1>2, <1>5, <1>6, <1>7

LEMMA RequestTypes ==
    ASSUME TypeOK
    PROVE  /\ request.offset \in Nat /\ request.size \in Nat /\ request.size < Word32
           /\ request.fail \in BOOLEAN /\ Len(copied) \in Nat /\ fileSize \in Nat
<1>1. request \in Requests /\ copied \in Seq(Bytes) /\ fileSize \in 0 .. MaxFileSize
  BY DEF TypeOK
<1> QED
  BY <1>1, WordBounds, SizesAssumption DEF Requests, UInt64, UInt32

LEMMA CopyTurn ==
    ASSUME WindowInv, WindowInv', Halves, LoopOps, TransferInv, CopyChunk
    PROVE  TransferInv'
<1>a. TypeOK /\ Coherent /\ TypeOK' /\ Coherent'
  BY DEF WindowInv
<1>b. phase = "copying" /\ request.op = "copy"
  BY DEF CopyChunk, LoopOps
<1>c. /\ request' = request /\ fileSize' = fileSize /\ opened' = opened
      /\ Fetch(Position, ToRead, FALSE)
  BY DEF CopyChunk
<1>1. PICK o \in Nat, c \in Nat, n \in Nat, f \in BOOLEAN, z \in Nat :
         /\ o = request.offset /\ c = Len(copied) /\ n = request.size /\ f = request.fail
         /\ z = fileSize
  BY <1>a, RequestTypes
<1>2. c < n /\ o + c <= z /\ copied = Slice(o, c) /\ (f => o + n <= z)
  BY <1>1, <1>b DEF TransferInv, CopyInv
<1>3. PICK t \in 0 .. n - c, d \in Nat :
         /\ t = ToRead /\ n - c = Left /\ d <= t /\ (opened => t > 0)
         /\ ChunkIs(o + c, t, d, FALSE)
         /\ copied \o Shown(view)' = Slice(o, c + d)
  <2>1. c < n /\ o + c <= fileSize /\ copied = Slice(o, c)
    BY <1>1, <1>2
  <2>2. Fetch(Position, ToRead, FALSE)
    BY <1>c
  <2>3. TypeOK /\ Coherent /\ TypeOK' /\ Coherent' /\ Halves
    BY <1>a
  <2>4. o = request.offset /\ c = Len(copied) /\ n = request.size
    BY <1>1
  <2>5. o \in Nat /\ c \in Nat /\ n \in Nat
    BY <1>1
  <2>6. TurnIs(o, c, n, FALSE)
    BY <2>1, <2>2, <2>3, <2>4, <2>5, TurnExact
  <2> QED
    BY <2>6 DEF TurnIs
<1>4. /\ view'.len = d /\ o + c + d <= z
      /\ opened /\ d < t /\ o + c + d < z => io' = "failed"
  BY <1>1, <1>3 DEF ChunkIs
<1>5. Len(Slice(o, c + d)) = c + d /\ Len(Slice(o, 0)) = 0
  BY <1>3, SliceLength
<1>d. /\ request'.op = "copy" /\ request'.offset = o /\ request'.size = n /\ request'.fail = f
      /\ fileSize' = z
  BY <1>1, <1>b, <1>c
<1>6. CASE view'.len = t /\ view'.len > 0 /\ Advance
  <2>1. copied' = Slice(o, c + t) /\ Len(copied') = c + t /\ d = t /\ t > 0
    BY <1>3, <1>4, <1>5, <1>6 DEF Advance
  <2>2. IF t = n - c THEN phase' = "returned" /\ success' ELSE phase' = "copying"
    BY <1>3, <1>6, <1>b DEF Advance
  <2>3. CopyInv'
    <3>1. o + (c + t) <= z /\ (t # n - c => c + t < n)
      BY <1>3, <1>4, <2>1
    <3>2. phase' = "copying" => t # n - c
      BY <2>2
    <3>3. ~(phase' = "returned" /\ ~success')
      BY <2>2
    <3> QED
      BY <1>2, <1>d, <2>1, <3>1, <3>2, <3>3 DEF CopyInv
  <2>4. WriteInv'
    BY <1>d DEF WriteInv
  <2>5. CASE t = n - c
    <3>2. c + t = n /\ n <= z - o
      BY <1>4, <2>1, <2>5
    <3>1. InFile(o, n)' = n /\ Len(copied') = n
      BY <1>d, <2>1, <3>2 DEF InFile, Lesser
    <3> QED
      BY <1>d, <2>1, <2>3, <2>4, <3>1 DEF TransferInv, TransfersAreExact
  <2>6. CASE t # n - c
    BY <1>d, <2>1, <2>2, <2>3, <2>4, <2>6 DEF TransferInv, TransfersAreExact
  <2> QED
    BY <2>5, <2>6
<1>7. CASE (view'.len # t \/ view'.len = 0) /\ CopyEnds
  <2>1. phase' = "returned"
    BY <1>7 DEF CopyEnds, Finish
  <2>2. CASE f
    <3>1. copied' = <<>> /\ success' = FALSE
      BY <1>1, <1>7, <2>2 DEF CopyEnds, Finish
    <3>2. copied' = Slice(o, 0) /\ Len(copied') = 0
      BY <3>1, <1>5 DEF Slice
    <3> QED
      BY <1>1, <1>b, <1>c, <2>1, <3>1, <3>2 DEF TransferInv, TransfersAreExact, CopyInv, WriteInv
  <2>3. CASE ~f
    <3>1. copied' = Slice(o, c + d) /\ Len(copied') = c + d /\ success'
      <4>1. copied' = copied \o Shown(view)' /\ success'
        BY <1>1, <1>7, <2>3 DEF CopyEnds, Finish
      <4> QED
        BY <1>3, <1>5, <4>1
    <3>2. c + d <= n /\ o + c + d <= z
      BY <1>3, <1>4
    <3>3. InFile(o, n)' = IF n <= z - o THEN n ELSE z - o
      BY <1>d DEF InFile, Lesser
    <3>5. c + d <= InFile(o, n)'
      BY <1>1, <3>2, <3>3
    <3>6. c + d < InFile(o, n)' => ~opened' \/ io' = "failed"
      <4>1. SUFFICES ASSUME c + d < InFile(o, n)', opened
                     PROVE  io' = "failed"
        BY <1>c
      <4>2. o + c + d < z
        BY <1>1, <3>3, <4>1
      <4>3. t \in Nat /\ t > 0 /\ (d # t \/ d = 0)
        BY <1>3, <1>4, <1>7, <4>1
      <4>4. d < t
        BY <1>3, <4>3
      <4> QED
        BY <1>4, <4>1, <4>2, <4>4
    <3>4. CopyInv' /\ WriteInv'
      BY <1>d, <2>1, <3>1 DEF CopyInv, WriteInv
    <3> QED
      BY <1>d, <2>3, <3>1, <3>4, <3>5, <3>6 DEF TransferInv, TransfersAreExact
  <2> QED
    BY <2>2, <2>3
<1> QED
  BY <1>3, <1>6, <1>7 DEF CopyChunk

LEMMA WriteTurn ==
    ASSUME WindowInv, WindowInv', Halves, LoopOps, TransferInv, WriteChunk
    PROVE  TransferInv'
<1>a. TypeOK /\ Coherent /\ TypeOK' /\ Coherent'
  BY DEF WindowInv
<1>b. phase = "writing" /\ request.op = "write"
  BY DEF WriteChunk, LoopOps
<1>c. /\ request' = request /\ fileSize' = fileSize /\ opened' = opened
      /\ Fetch(Position, ToRead, TRUE)
  BY DEF WriteChunk
<1>1. PICK o \in Nat, c \in Nat, n \in Nat, z \in Nat :
         o = request.offset /\ c = Len(copied) /\ n = request.size /\ z = fileSize
  BY <1>a, RequestTypes
<1>d. /\ request'.op = "write" /\ request'.offset = o /\ request'.size = n
      /\ fileSize' = z
  BY <1>1, <1>b, <1>c
<1>2. CopyInv'
  BY <1>b, <1>c DEF CopyInv, WriteChunk, Advance, Finish
<1>3. CASE z < o
  BY <1>1, <1>2, <1>3, <1>b, <1>c DEF TransferInv, TransfersAreExact, WriteInv
<1>4. CASE o <= z
  <2>1. c < n /\ o + c <= z /\ copied = Slice(o, c)
    BY <1>1, <1>4, <1>b DEF TransferInv, WriteInv
  <2>2. PICK t \in 0 .. n - c, d \in Nat :
           /\ t = ToRead /\ n - c = Left /\ d <= t
           /\ ChunkIs(o + c, t, d, TRUE)
           /\ copied \o Shown(view)' = Slice(o, c + d)
    <3>1. c < n /\ o + c <= fileSize /\ copied = Slice(o, c)
      BY <1>1, <2>1
    <3>2. Fetch(Position, ToRead, TRUE)
      BY <1>c
    <3>3. TypeOK /\ Coherent /\ TypeOK' /\ Coherent' /\ Halves
      BY <1>a
    <3>4. o = request.offset /\ c = Len(copied) /\ n = request.size
      BY <1>1
    <3>5. o \in Nat /\ c \in Nat /\ n \in Nat
      BY <1>1
    <3>6. TurnIs(o, c, n, TRUE)
      BY <3>1, <3>2, <3>3, <3>4, <3>5, TurnExact
    <3> QED
      BY <3>6 DEF TurnIs
  <2>3. CASE view'.valid /\ Advance
    <3>1. d = t /\ o + c + t <= z
      BY <1>1, <2>2, <2>3 DEF ChunkIs
    <3>2. copied' = Slice(o, c + t) /\ Len(copied') = c + t
      BY <2>2, <2>3, <3>1, SliceLength DEF Advance
    <3>3. IF t = n - c THEN phase' = "returned" ELSE phase' = "writing"
      BY <2>2, <2>3, <1>b DEF Advance
    <3>4. WriteInv'
      BY <1>d, <2>1, <2>2, <3>1, <3>2, <3>3 DEF WriteInv
    <3>5. TransfersAreExact'
      BY <1>d, <2>1, <2>2, <3>1, <3>2, <3>3 DEF TransfersAreExact
    <3> QED
      BY <1>2, <3>4, <3>5 DEF TransferInv
  <2>4. CASE Finish(FALSE, copied)
    BY <1>2, <1>b, <1>c, <2>4 DEF Finish, TransferInv, TransfersAreExact, WriteInv
  <2> QED
    BY <2>3, <2>4 DEF WriteChunk
<1> QED
  BY <1>1, <1>3, <1>4

LEMMA TransferStep ==
    WindowInv /\ Halves /\ LoopOps /\ TransferInv /\ [Next]_vars => TransferInv'
<1> SUFFICES ASSUME WindowInv, Halves, LoopOps, TransferInv, [Next]_vars
             PROVE  TransferInv'
  OBVIOUS
<1>a. WindowInv'
  BY WindowStep
<1>b. TypeOK /\ TypeOK'
  BY <1>a DEF WindowInv
<1> USE DEF TransferInv, CopyInv, WriteInv, TransfersAreExact
<1>1. ASSUME request'.op \notin {"copy", "write"}, phase' \notin {"copying", "writing"}
      PROVE  TransferInv'
  BY <1>1
<1>2. ASSUME NEW o \in UInt64, NEW n \in UInt32, NEW fail \in BOOLEAN, Get(o, n, fail)
      PROVE  TransferInv'
  BY <1>1, <1>2 DEF Get, Call
<1>3. ASSUME NEW o \in UInt64, NEW n \in UInt32, CopyObject(o, n)
      PROVE  TransferInv'
  BY <1>1, <1>3 DEF CopyObject, Call
<1>4. Slice(request.offset, 0)' = <<>> /\ Len(<<>>) = 0
  BY DEF Slice
<1>5. ASSUME NEW o \in UInt64, NEW n \in UInt32, NEW fail \in BOOLEAN,
             CopyToBuffer(o, n, fail)
      PROVE  TransferInv'
  <2>1. /\ request'.op = "copy" /\ request'.offset = o /\ request'.size = n
        /\ request'.fail = fail /\ fileSize' = fileSize
    BY <1>5 DEF CopyToBuffer, Call
  <2>2. copied' = <<>> /\ success' = FALSE
    BY <1>5 DEF CopyToBuffer
  <2>3. phase' = IF CopyIsRefused(o, n, fail) THEN "returned" ELSE "copying"
    BY <1>5 DEF CopyToBuffer
  <2>4. CASE CopyIsRefused(o, n, fail)
    BY <1>4, <2>1, <2>2, <2>3, <2>4
  <2>5. CASE ~CopyIsRefused(o, n, fail)
    <3>1. n > 0 /\ o <= fileSize /\ n \in Nat /\ o \in Nat
      <4>1. n \in Nat /\ o \in Nat /\ fileSize \in Nat
        BY <1>b, WordBounds, SizesAssumption DEF UInt32, UInt64, TypeOK
      <4> QED
        BY <2>5, <4>1 DEF CopyIsRefused
    <3>2. Add64(o, n) = o + n
      <4>1. o + n \in 0 .. Word64 - 1
        BY <1>b, <3>1, SizesAssumption DEF TypeOK, UInt32
      <4> QED
        BY <4>1, WordBounds, RemainderOfSmall DEF Add64
    <3>3. fail => o + n <= fileSize
      BY <1>b, <2>5, <3>1, <3>2, SizesAssumption DEF CopyIsRefused, TypeOK
    <3> QED
      BY <1>4, <2>1, <2>2, <2>3, <2>5, <3>1, <3>3
  <2> QED
    BY <2>4, <2>5
<1>6. ASSUME NEW o \in UInt64, NEW n \in UInt32, WriteTo(o, n)
      PROVE  TransferInv'
  <2>1. /\ request'.op = "write" /\ request'.offset = o /\ request'.size = n
        /\ fileSize' = fileSize
    BY <1>6 DEF WriteTo, Call
  <2>2. /\ copied' = <<>> /\ success' = (n = 0)
        /\ phase' = "returned" \/ (phase' = "writing" /\ n # 0)
    BY <1>6 DEF WriteTo
  <2>3. n \in Nat /\ o \in Nat /\ fileSize \in Nat
    BY <1>b, WordBounds, SizesAssumption DEF UInt32, UInt64, TypeOK
  <2>4. copied' = Slice(o, 0) /\ Len(copied') = 0
    BY <1>4, <2>1, <2>2
  <2>5. success' => n = 0
    BY <2>2
  <2>6. WriteInv' /\ CopyInv'
    BY <2>1, <2>2, <2>3, <2>4
  <2>7. TransfersAreExact'
    BY <2>1, <2>2, <2>5
  <2> QED
    BY <2>6, <2>7
<1>7. ASSUME NEW n \in UInt32, NEW size \in 0 .. MaxFileSize, Open(n, size)
      PROVE  TransferInv'
  <2>1. CASE request.op \notin {"copy", "write"}
    BY <1>1, <1>7, <2>1 DEF Open
  <2> QED
    BY <1>7, <2>1 DEF Open
<1>8. ASSUME Consume PROVE TransferInv'
  BY <1>1, <1>8 DEF Consume, NoRequest
<1>9. CASE UNCHANGED vars
  BY <1>9 DEF vars, InFile
<1> QED
  BY <1>2, <1>3, <1>5, <1>6, <1>7, <1>8, <1>9, <1>a, CopyTurn, WriteTurn DEF Next

(* What CopyToBuffer and WriteTo deliver is the bytes at the offset asked, *)
(* chunk by chunk, and success means all of them.                          *)
THEOREM TransfersExact == Spec => []TransfersAreExact
<1>1. Init => LoopOps /\ Halves /\ TransferInv
  BY DEF Init, LoopOps, Halves, TransferInv, CopyInv, WriteInv, TransfersAreExact, NoRequest
<1>2. TransferInv => TransfersAreExact
  BY DEF TransferInv
<1> QED
  BY <1>1, <1>2, InitInv, WindowStep, HalvesStep, LoopOpsStep, TransferStep, PTL DEF Spec

-----------------------------------------------------------------------------
(* Each step of DataCache is a step or a stutter of FileReader.            *)

(* The bytes r is answered with are those of the file at its offset, no    *)
(* more than it asked and, if it insists, no fewer.                        *)
RightSlice(b, r, size) ==
    \E k \in Nat : /\ b = Slice(r.offset, k) /\ k <= r.size
                   /\ k = 0 \/ r.offset + k <= size
                   /\ r.fail /\ r.op # "write" => k = 0 \/ k = r.size

(* Such bytes are an answer of a file that is read directly.               *)
LEMMA SliceIsAnswer ==
    ASSUME NEW c, c.offset \in Nat, c.size \in Nat, fileSize \in Nat,
           NEW b, RightSlice(b, c, fileSize)
    PROVE  b \in Reader!Answers(c)
<1> DEFINE there == IF c.offset >= fileSize THEN 0
                    ELSE Reader!Smaller(c.size, fileSize - c.offset)
           prefixes == {Reader!Slice(c.offset, j) : j \in 0 .. there}
<1>1. PICK k \in Nat : /\ b = Slice(c.offset, k) /\ k <= c.size
                       /\ k = 0 \/ c.offset + k <= fileSize
                       /\ c.fail /\ c.op # "write" => k = 0 \/ k = c.size
  BY DEF RightSlice
<1>2. k \in 0 .. there
  BY <1>1 DEF Reader!Smaller
<1>3. Reader!Slice(c.offset, k) = Slice(c.offset, k)
  BY DEF Reader!Slice, Slice
<1>4. b \in prefixes
  BY <1>1, <1>2, <1>3
<1>5. Len(b) = k /\ (k = 0 => b = <<>>)
  BY <1>1, SliceLength DEF Slice
<1>6. Reader!Answers(c) = IF c.fail /\ c.op # "write"
                          THEN {<<>>} \cup {p \in prefixes : Len(p) = c.size}
                          ELSE prefixes
  BY DEF Reader!Answers
<1> HIDE DEF prefixes
<1> QED
  BY <1>1, <1>4, <1>5, <1>6

(* What a call has delivered when it returns is an answer if, for an       *)
(* offset in the file, it is a right slice.                                *)
LEMMA DeliversAnswer ==
    ASSUME phase' = "returned", fileSize' = fileSize, fileSize \in Nat,
           request'.offset \in Nat, request'.size \in Nat,
           request'.offset <= fileSize =>
               RightSlice(IF request'.op \in {"get", "object"} THEN Shown(view)' ELSE copied',
                          request', fileSize)
    PROVE  Delivered' \in Reader!Answers(request')
<1>1. PICK r : r = request'
  OBVIOUS
<1>2. r.offset \in Nat /\ r.size \in Nat
  BY <1>1
<1>3. CASE r.offset > fileSize
  <2>1. Delivered' = <<>>
    BY <1>1, <1>3 DEF Delivered
  <2>2. Slice(r.offset, 0) = <<>>
    BY DEF Slice
  <2>3. RightSlice(<<>>, r, fileSize)
    BY <1>2, <2>2 DEF RightSlice
  <2>4. <<>> \in Reader!Answers(r)
    BY <1>2, <2>3, SliceIsAnswer
  <2> QED
    BY <1>1, <2>1, <2>4
<1>4. CASE ~(r.offset > fileSize)
  <2>1. Delivered' = IF r.op \in {"get", "object"} THEN Shown(view)' ELSE copied'
    BY <1>1, <1>4 DEF Delivered
  <2>2. r.offset <= fileSize
    BY <1>2, <1>4
  <2>3. RightSlice(Delivered', r, fileSize)
    BY <1>1, <2>1, <2>2
  <2>4. Delivered' \in Reader!Answers(r)
    BY <1>2, <2>3, SliceIsAnswer
  <2> QED
    BY <1>1, <2>4
<1> QED
  BY <1>3, <1>4

(* Get and CopyObject: outside the file and without a file nothing is      *)
(* shown, inside it what GetIsExact says.                                  *)
LEMMA GetDelivers ==
    ASSUME TypeOK, Coherent, Halves, GetIsExact', phase' = "returned",
           NEW op \in {"get", "object"}, NEW o \in UInt64, NEW n \in UInt32, NEW fail \in BOOLEAN,
           Call(op, o, n, fail), Fetch(o, n, fail)
    PROVE  Delivered' \in Reader!Answers(request')
<1>a. /\ fileSize \in Nat /\ cacheSize \in Nat /\ o \in Nat /\ n \in Nat /\ n < Word32
  BY WordBounds, SizesAssumption DEF TypeOK, UInt32, UInt64
<1>b. /\ fileSize' = fileSize /\ opened' = opened /\ cacheSize' = cacheSize
      /\ request' = [op |-> op, offset |-> o, size |-> n, fail |-> fail]
  BY DEF Call
<1>c. NoView.len = 0
  BY DEF NoView
<1>1. ASSUME view'.len = 0
      PROVE  RightSlice(Shown(view)', request', fileSize)
  BY <1>1, <1>a, <1>b, NothingShown DEF RightSlice
<1>2. CASE ~opened \/ n = 0
  <2>1. view' = NoView
    BY <1>2, <1>a DEF Fetch, FetchRefused, FetchHit, FetchTail, FetchOutside, FetchSeekFails,
       FetchReadFails, FetchRefill, IsMiss
  <2> QED
    BY <1>1, <1>a, <1>b, <1>c, <2>1, DeliversAnswer
<1>3. CASE o = fileSize
  <2>1. view'.len = 0
    BY <1>3, <1>a, FetchAtTheEnd
  <2> QED
    BY <1>1, <1>a, <1>b, <2>1, DeliversAnswer
<1>4. CASE o > fileSize
  BY <1>4, <1>a, <1>b, DeliversAnswer
<1>5. CASE opened /\ n > 0 /\ o < fileSize
  <2>1. n \in Nat \ {0} /\ cacheSize > 0
    BY <1>5, <1>a DEF Halves
  <2>2. PICK d \in 1 .. n : d = Deliverable(o, n) /\ d <= fileSize - o
    BY <1>5, <1>a, <2>1, InsideTheFile
  <2>3. Deliverable(o, n)' = d
    BY <1>b, <2>2 DEF Deliverable, InFile
  <2>4. CASE view'.valid
    <3>1. Shown(view)' = Slice(o, d) /\ (fail => d = n)
      BY <1>5, <1>b, <2>3, <2>4 DEF GetIsExact
    <3>2. d \in Nat /\ d <= n /\ o + d <= fileSize
      BY <1>a, <2>2
    <3>3. RightSlice(Shown(view)', request', fileSize)
      BY <1>b, <3>1, <3>2 DEF RightSlice
    <3> QED
      BY <1>a, <1>b, <3>3, DeliversAnswer
  <2>5. CASE ~view'.valid
    <3>1. view' = NoView
      BY <2>5, InvalidIsNoView
    <3> QED
      BY <1>1, <1>a, <1>b, <1>c, <3>1, DeliversAnswer
  <2> QED
    BY <2>4, <2>5
<1> QED
  BY <1>2, <1>3, <1>4, <1>5, <1>a

(* CopyToBuffer and WriteTo: what TransferInv says of the bytes copied.    *)
LEMMA LoopDelivers ==
    ASSUME TypeOK', TransferInv', phase' = "returned", fileSize' = fileSize, fileSize \in Nat,
           request'.op \in {"copy", "write"}
    PROVE  Delivered' \in Reader!Answers(request')
<1>1. PICK o \in Nat, n \in Nat, k \in Nat :
         o = request'.offset /\ n = request'.size /\ k = Len(copied')
  <2>1. request' \in Requests /\ copied' \in Seq(Bytes)
    BY DEF TypeOK
  <2> QED
    BY <2>1, WordBounds DEF Requests, UInt64, UInt32
<1>2. SUFFICES ASSUME o <= fileSize
               PROVE  RightSlice(copied', request', fileSize)
  BY <1>1, DeliversAnswer
<1>3. CASE request'.op = "write"
  <2>1. copied' = Slice(o, k) /\ o + k <= fileSize /\ k <= n
    BY <1>1, <1>2, <1>3 DEF TransferInv, WriteInv
  <2> QED
    BY <1>1, <1>3, <2>1 DEF RightSlice
<1>4. CASE request'.op = "copy" /\ ~success'
  <2>1. copied' = Slice(o, 0)
    BY <1>4 DEF TransferInv, CopyInv, Slice
  <2> QED
    BY <1>1, <2>1 DEF RightSlice
<1>5. CASE request'.op = "copy" /\ success'
  <2>1. copied' = Slice(o, k)
    BY <1>1, <1>5 DEF TransferInv, CopyInv
  <2>2. k <= InFile(o, n)' /\ (request'.fail => k = n)
    BY <1>1, <1>5 DEF TransferInv, TransfersAreExact
  <2>3. InFile(o, n)' = IF n <= fileSize - o THEN n ELSE fileSize - o
    BY DEF InFile, Lesser
  <2>4. k <= n /\ o + k <= fileSize
    BY <1>1, <2>2, <2>3
  <2> QED
    BY <1>1, <2>1, <2>2, <2>4 DEF RightSlice
<1> QED
  BY <1>3, <1>4, <1>5

-----------------------------------------------------------------------------
(* The refinement.                                                         *)

(* Nothing is known of a file before it is opened.                         *)
Unopened == cacheSize = 0 => fileSize = 0

LEMMA UnopenedStep == TypeOK /\ Unopened /\ [Next]_vars => Unopened'
<1> SUFFICES ASSUME TypeOK, Unopened, [Next]_vars
             PROVE  Unopened'
  OBVIOUS
<1>1. ASSUME NEW n \in UInt32, NEW size \in 0 .. MaxFileSize, Open(n, size)
      PROVE  Unopened'
  <2>1. RoundedCacheSize(n) >= 1
    BY RoundedBounds, SizesAssumption
  <2> QED
    BY <1>1, <2>1 DEF Open, Unopened
<1> QED
  BY <1>1 DEF Unopened, Next, Get, CopyObject, CopyToBuffer, WriteTo, Call,
     CopyChunk, WriteChunk, Consume, vars

LEMMA NothingDelivered ==
    /\ phase # "returned" => Delivered = <<>>
    /\ phase' # "returned" => Delivered' = <<>>
BY DEF Delivered

LEMMA StageIs ==
    /\ phase = "idle" => Stage = "ready"
    /\ phase \in {"copying", "writing"} => Stage = "serving"
    /\ phase = "returned" => Stage = "answered"
    /\ phase' = "idle" => Stage' = "ready"
    /\ phase' \in {"copying", "writing"} => Stage' = "serving"
    /\ phase' = "returned" => Stage' = "answered"
BY DEF Stage

LEMMA CallServes ==
    ASSUME TypeOK, NEW op \in {"get", "object", "copy", "write"},
           NEW o \in UInt64, NEW n \in UInt32, NEW fail \in BOOLEAN, Call(op, o, n, fail),
           phase' \in {"copying", "writing", "returned"},
           phase' = "returned" => Delivered' \in Reader!Answers(request')
    PROVE  Reader!Serve
<1>1. request' \in Reader!Calls
  BY DEF Call, Reader!Calls, UInt64, UInt32
<1>2. phase = "idle" /\ fileSize' = fileSize
  BY DEF Call
<1> QED
  BY <1>1, <1>2, NothingDelivered, StageIs DEF Reader!Serve

LEMMA StepsAreReaders ==
    WindowInv /\ Halves /\ LoopOps /\ TransferInv /\ GetIsExact /\ Unopened /\ [Next]_vars
        => [Reader!Next]_(Reader!vars)
<1> SUFFICES ASSUME WindowInv, Halves, LoopOps, TransferInv, GetIsExact, Unopened, [Next]_vars
             PROVE  [Reader!Next]_(Reader!vars)
  OBVIOUS
<1>a. TypeOK /\ Coherent /\ TypeOK' /\ Coherent' /\ TransferInv' /\ GetIsExact'
  BY WindowStep, TransferStep, ExactStep DEF WindowInv
<1>b. fileSize \in Nat
  BY <1>a, SizesAssumption DEF TypeOK
<1>1. ASSUME NEW n \in UInt32, NEW size \in 0 .. MaxFileSize, Open(n, size)
      PROVE  Reader!Open
  <2>1. /\ phase = "idle" /\ phase' = "idle" /\ fileSize = 0 /\ fileSize' = size
        /\ request' = request
    BY <1>1 DEF Open, Unopened
  <2> QED
    BY <2>1, NothingDelivered, StageIs DEF Reader!Open
<1>2. ASSUME NEW o \in UInt64, NEW n \in UInt32, NEW fail \in BOOLEAN, Get(o, n, fail)
      PROVE  Reader!Serve
  <2>1. Call("get", o, n, fail) /\ Fetch(o, n, fail) /\ phase' = "returned"
    BY <1>2 DEF Get
  <2>2. Delivered' \in Reader!Answers(request')
    BY <1>a, <2>1, GetDelivers
  <2> QED
    BY <1>a, <2>1, <2>2, CallServes
<1>3. ASSUME NEW o \in UInt64, NEW n \in UInt32, CopyObject(o, n)
      PROVE  Reader!Serve
  <2>1. Call("object", o, n, TRUE) /\ Fetch(o, n, TRUE) /\ phase' = "returned"
    BY <1>3 DEF CopyObject
  <2>2. Delivered' \in Reader!Answers(request')
    BY <1>a, <2>1, GetDelivers
  <2> QED
    BY <1>a, <2>1, <2>2, CallServes
<1>4. ASSUME NEW o \in UInt64, NEW n \in UInt32, NEW fail \in BOOLEAN, CopyToBuffer(o, n, fail)
      PROVE  Reader!Serve
  <2>1. /\ Call("copy", o, n, fail) /\ phase' \in {"returned", "copying"}
        /\ request'.op = "copy" /\ fileSize' = fileSize
    BY <1>4 DEF CopyToBuffer, Call
  <2>2. phase' = "returned" => Delivered' \in Reader!Answers(request')
    BY <1>a, <1>b, <2>1, LoopDelivers
  <2> QED
    BY <1>a, <2>1, <2>2, CallServes
<1>5. ASSUME NEW o \in UInt64, NEW n \in UInt32, WriteTo(o, n)
      PROVE  Reader!Serve
  <2>1. /\ Call("write", o, n, TRUE) /\ phase' \in {"returned", "writing"}
        /\ request'.op = "write" /\ fileSize' = fileSize
    BY <1>5 DEF WriteTo, Call
  <2>2. phase' = "returned" => Delivered' \in Reader!Answers(request')
    BY <1>a, <1>b, <2>1, LoopDelivers
  <2> QED
    BY <1>a, <2>1, <2>2, CallServes
<1>6. ASSUME CopyChunk \/ WriteChunk
      PROVE  Reader!Answer \/ UNCHANGED Reader!vars
  <2>1. /\ phase \in {"copying", "writing"} /\ phase' \in {phase, "returned"}
        /\ request' = request /\ fileSize' = fileSize /\ request.op \in {"copy", "write"}
    BY <1>6 DEF CopyChunk, WriteChunk, Advance, CopyEnds, Finish, LoopOps
  <2>2. CASE phase' = "returned"
    <3>1. Delivered' \in Reader!Answers(request')
      BY <1>a, <1>b, <2>1, <2>2, LoopDelivers
    <3> QED
      BY <2>1, <2>2, <3>1, StageIs DEF Reader!Answer
  <2>3. CASE phase' = phase
    BY <2>1, <2>3, NothingDelivered, StageIs DEF Reader!vars
  <2> QED
    BY <2>1, <2>2, <2>3
<1>7. ASSUME Consume
      PROVE  Reader!Done
  <2>1. phase = "returned" /\ phase' = "idle" /\ request' = NoRequest /\ fileSize' = fileSize
    BY <1>7 DEF Consume
  <2> QED
    BY <2>1, NothingDelivered, StageIs DEF Reader!Done, Reader!Nothing, NoRequest
<1>8. CASE UNCHANGED vars
  <2>1. Shown(view)' = Shown(view)
    BY <1>8 DEF vars, Shown, Peek
  <2>2. Delivered' = Delivered /\ Stage' = Stage
    BY <1>8, <2>1 DEF vars, Delivered, Stage
  <2> QED
    BY <1>8, <2>2 DEF vars, Reader!vars
<1> QED
  BY <1>1, <1>2, <1>3, <1>4, <1>5, <1>6, <1>7, <1>8 DEF Next, Reader!Next

(* Callers cannot tell the cache from a file they read directly: it starts *)
(* like one and takes only steps of one.  (The safety of                   *)
(* ImplementsFileReader; that a call is answered is left to TLC.)          *)
THEOREM CacheReadsTheFile == Spec => Reader!Init /\ [][Reader!Next]_(Reader!vars)
<1>1. Init => Reader!Init
  BY NothingDelivered, StageIs DEF Init, Reader!Init, Reader!Nothing, NoRequest
<1>2. Init => LoopOps /\ Halves /\ TransferInv /\ GetIsExact /\ Unopened
  BY DEF Init, LoopOps, Halves, TransferInv, CopyInv, WriteInv, TransfersAreExact, NoRequest,
     GetIsExact, Unopened
<1>3. WindowInv => TypeOK
  BY DEF WindowInv
<1> QED
  BY <1>1, <1>2, <1>3, InitInv, WindowStep, HalvesStep, LoopOpsStep, TransferStep, ExactStep,
     UnopenedStep, StepsAreReaders, PTL DEF Spec
===============================================================================
