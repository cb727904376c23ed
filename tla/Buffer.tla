------------------------------- MODULE Buffer -------------------------------
(***************************************************************************)
(* muduo::net::Buffer (thirdpart/muduo-vip/muduo/net/Buffer.h), the buffer *)
(* every connection reads into and writes from, with the changes this      *)
(* fork made to it (the byte-order flag v of the integer operations).      *)
(*                                                                         *)
(* A buffer is a record of its storage and its two indices, which count    *)
(* bytes from 0 as in the code; the storage is a sequence.  An integer is  *)
(* the sequence of bytes it occupies in the memory of a little-endian      *)
(* host, so its width is its length and network order is its reverse.      *)
(***************************************************************************)
EXTENDS Integers, Sequences

CONSTANTS
  Byte,           \* values of a byte
  kCheapPrepend,  \* bytes kept free in front of the content
  kInitialSize,   \* size of a new buffer
  Chunks,         \* the strings that are appended
  Ints,           \* the integers that are written, as host memory
  MaxSize         \* bound on the storage (the code has none)

ASSUME BufferAssumption ==
  /\ 0 \in Byte
  /\ kCheapPrepend \in Nat
  /\ kInitialSize \in Nat
  /\ MaxSize \in Nat
  /\ Chunks \subseteq Seq(Byte)
  /\ Ints \subseteq Seq(Byte)

VARIABLES
  b,        \* the buffer
  got,      \* the value the last call returned
  fields,   \* history: what was written and not yet read, field by field
  tracked   \* history: no read or unwrite has cut a field since b was empty

vars == <<b, got, fields, tracked>>

Strings == Seq(Byte)

Buffers == [buffer : Seq(Byte), reader : Nat, writer : Nat]

-----------------------------------------------------------------------------
\* The three regions of the storage, and the content.
readableBytes(B) == B.writer - B.reader

writableBytes(B) == Len(B.buffer) - B.writer

Readable(B) == SubSeq(B.buffer, B.reader + 1, B.writer)

\* Construction: kCheapPrepend bytes in front, everything zero.
Construct(initialSize) ==
  [buffer |-> [i \in 1..(kCheapPrepend + initialSize) |-> 0],
   reader |-> kCheapPrepend,
   writer |-> kCheapPrepend]

\* std::copy of d to offset pos of the storage.
CopyTo(s, pos, d) ==
  [i \in 1..Len(s) |-> IF pos < i /\ i <= pos + Len(d) THEN d[i - pos] ELSE s[i]]

\* std::vector::resize to a larger size.
Resize(s, size) == [i \in 1..size |-> IF i <= Len(s) THEN s[i] ELSE 0]

\* Mutant of Grows: forgets that kCheapPrepend bytes stay free in front.
GrowsTooLate(B, len) == writableBytes(B) + B.reader < len

\* Whether makeSpace(len) has to enlarge the storage.
Grows(B, len) == writableBytes(B) + B.reader < len + kCheapPrepend

\* Mutant of makeSpace: moves the indices and leaves the content behind.
makeSpaceNoMove(B, len) ==
  IF Grows(B, len)
    THEN [B EXCEPT !.buffer = Resize(B.buffer, B.writer + len)]
    ELSE [B EXCEPT !.reader = kCheapPrepend,
                   !.writer = kCheapPrepend + readableBytes(B)]

\* Enlarge the storage, or move the content to its front.
makeSpace(B, len) ==
  IF Grows(B, len)
    THEN [B EXCEPT !.buffer = Resize(B.buffer, B.writer + len)]
    ELSE [buffer |-> CopyTo(B.buffer, kCheapPrepend, Readable(B)),
          reader |-> kCheapPrepend,
          writer |-> kCheapPrepend + readableBytes(B)]

ensureWritableBytes(B, len) ==
  IF writableBytes(B) < len THEN makeSpace(B, len) ELSE B

\* Bytes put at beginWrite(), followed by hasWritten().
hasWritten(B, d) ==
  [B EXCEPT !.buffer = CopyTo(B.buffer, B.writer, d),
            !.writer = B.writer + Len(d)]

append(B, d) == hasWritten(ensureWritableBytes(B, Len(d)), d)

prepend(B, d) ==
  [B EXCEPT !.buffer = CopyTo(B.buffer, B.reader - Len(d), d),
            !.reader = B.reader - Len(d)]

retrieveAll(B) == [B EXCEPT !.reader = kCheapPrepend, !.writer = kCheapPrepend]

\* Mutant of retrieve: rewinds the reader and forgets the writer.
retrieveHalf(B, len) ==
  IF len < readableBytes(B) THEN [B EXCEPT !.reader = B.reader + len]
                            ELSE [B EXCEPT !.reader = kCheapPrepend]

retrieve(B, len) ==
  IF len < readableBytes(B) THEN [B EXCEPT !.reader = B.reader + len]
                            ELSE retrieveAll(B)

\* Mutant of unwrite: one byte too many.
unwriteOffByOne(B, len) == [B EXCEPT !.writer = B.writer - len - 1]

unwrite(B, len) == [B EXCEPT !.writer = B.writer - len]

\* A new buffer with room for reserve more bytes takes over the content.
shrink(B, reserve) ==
  append(ensureWritableBytes(Construct(kInitialSize), readableBytes(B) + reserve),
         Readable(B))

\* Offsets at which pattern p is found between start and beginWrite().
Matches(B, p, start) ==
  {k \in start..(B.writer - Len(p)) : \A i \in 1..Len(p) : B.buffer[k + i] = p[i]}

\* findCRLF, findCRLFCRLF and findEOL: the end of the first match, for
\* retrieveUntil; no match leaves the set empty.
FindEnd(B, p) ==
  {k + Len(p) : k \in {m \in Matches(B, p, B.reader) :
                         \A n \in Matches(B, p, B.reader) : m <= n}}

Patterns == {<<10>>, <<13, 10>>, <<13, 10, 13, 10>>}

-----------------------------------------------------------------------------
\* hostToNetwork and networkToHost on a little-endian host.
SwapBytes(x) == [i \in 1..Len(x) |-> x[Len(x) + 1 - i]]

\* appendInt(x, v): case true has no break, so both orders are appended.
appendInt(B, x, v) ==
  IF v THEN append(append(B, x), SwapBytes(x)) ELSE append(B, SwapBytes(x))

\* prependInt(x, v), with the same fall-through.
prependInt(B, x, v) ==
  IF v THEN prepend(prepend(B, x), SwapBytes(x)) ELSE prepend(B, SwapBytes(x))

\* Bytes that appendInt(x, v) and prependInt(x, v) write.
Written(x, v) == IF v THEN 2 * Len(x) ELSE Len(x)

\* Mutant of peekInt: takes the bytes as they are whatever v says.
peekIntRaw(B, width, v) == SubSeq(B.buffer, B.reader + 1, B.reader + width)

peekInt(B, width, v) ==
  LET raw == SubSeq(B.buffer, B.reader + 1, B.reader + width)
  IN  IF v THEN raw ELSE SwapBytes(raw)

Widths == {Len(x) : x \in Ints}

\* The operations on integers of one byte have no flag v.
HasOrder(width) == width > 1

-----------------------------------------------------------------------------
\* The storage still fits the bound once len more bytes have been asked for.
Fits(len) == b.writer + len <= MaxSize

\* The history knows a field as the integer whose bytes in network order it
\* is; for a string d that is SwapBytes(d).
AddLast(new) == tracked' = tracked /\ fields' = IF tracked THEN fields \o new ELSE <<>>

AddFirst(new) == tracked' = tracked /\ fields' = IF tracked THEN new \o fields ELSE <<>>

\* A field has been cut: only of an empty buffer it is known what it holds.
Forget ==
  /\ tracked' = (readableBytes(b') = 0)
  /\ fields' = <<>>

\* The len bytes that were read are the first field, or they cut one.
TakeFirst(len) ==
  IF tracked /\ fields # <<>> /\ Len(Head(fields)) = len
    THEN tracked' = tracked /\ fields' = Tail(fields)
    ELSE Forget

Init ==
  /\ b = Construct(kInitialSize)
  /\ got = <<>>
  /\ fields = <<>>
  /\ tracked = TRUE

AppendData(d) ==
  /\ Fits(Len(d))
  /\ b' = append(b, d)
  /\ AddLast(<<SwapBytes(d)>>)
  /\ got' = <<>>

\* A caller asks for room, as the socket reads do before they write ...
EnsureWritableBytes(len) ==
  /\ Fits(len)
  /\ b' = ensureWritableBytes(b, len)
  /\ UNCHANGED <<got, fields, tracked>>

\* ... and then writes into the room there is.
HasWritten(d) ==
  /\ Len(d) <= writableBytes(b)
  /\ b' = hasWritten(b, d)
  /\ AddLast(<<SwapBytes(d)>>)
  /\ got' = <<>>

Unwrite(len) ==
  /\ len <= readableBytes(b)
  /\ b' = unwrite(b, len)
  /\ Forget
  /\ got' = <<>>

Prepend(d) ==
  /\ Len(d) <= b.reader
  /\ b' = prepend(b, d)
  /\ AddFirst(<<SwapBytes(d)>>)
  /\ got' = <<>>

Retrieve(len) ==
  /\ len <= readableBytes(b)
  /\ b' = retrieve(b, len)
  /\ TakeFirst(len)
  /\ got' = <<>>

\* The value is copied out before the bytes are given up.
RetrieveAsString(len) ==
  /\ len <= readableBytes(b)
  /\ got' = SubSeq(b.buffer, b.reader + 1, b.reader + len)
  /\ b' = retrieve(b, len)
  /\ TakeFirst(len)

\* A caller looks for a line end and retrieves up to and including it.
RetrieveUntil(p) ==
  \E end \in FindEnd(b, p) :
    /\ b' = retrieve(b, end - b.reader)
    /\ TakeFirst(end - b.reader)
    /\ got' = <<>>

Shrink(reserve) ==
  /\ kCheapPrepend + readableBytes(b) + reserve <= MaxSize
  /\ b' = shrink(b, reserve)
  /\ UNCHANGED <<got, fields, tracked>>

AppendInt(x, v) ==
  /\ v => HasOrder(Len(x))
  /\ Fits(Written(x, v))
  /\ b' = appendInt(b, x, v)
  /\ AddLast(IF v THEN <<SwapBytes(x), x>> ELSE <<x>>)
  /\ got' = <<>>

PrependInt(x, v) ==
  /\ v => HasOrder(Len(x))
  /\ Written(x, v) <= b.reader
  /\ b' = prependInt(b, x, v)
  /\ AddFirst(IF v THEN <<x, SwapBytes(x)>> ELSE <<x>>)
  /\ got' = <<>>

\* readInt is peekInt followed by retrieveInt of the same width.
ReadInt(width, v) ==
  /\ v => HasOrder(width)
  /\ width <= readableBytes(b)
  /\ got' = peekInt(b, width, v)
  /\ b' = retrieve(b, width)
  /\ TakeFirst(width)

Next ==
  \/ \E d \in Chunks : AppendData(d) \/ HasWritten(d) \/ Prepend(d)
  \/ \E len \in 1..MaxSize : EnsureWritableBytes(len) \/ Unwrite(len)
  \/ \E len \in 0..MaxSize : Retrieve(len) \/ RetrieveAsString(len) \/ Shrink(len)
  \/ \E p \in Patterns : RetrieveUntil(p)
  \/ \E x \in Ints, v \in BOOLEAN : AppendInt(x, v) \/ PrependInt(x, v)
  \/ \E w \in Widths, v \in BOOLEAN : ReadInt(w, v)

Spec == Init /\ [][Next]_vars

-----------------------------------------------------------------------------
\* The types of the variables.
TypeOK ==
  /\ b \in Buffers
  /\ got \in Seq(Byte)
  /\ fields \in Seq(Strings)
  /\ tracked \in BOOLEAN

\* The diagram at the head of the class, 0 <= readerIndex <= writerIndex <=
\* size: no call, in whatever order they come, moves an index out of its
\* place, so that no unsigned difference of them wraps around.
Layout == b.reader <= b.writer /\ b.writer <= Len(b.buffer)

\* The assertions inside makeSpace and ensureWritableBytes hold for every
\* length a caller may ask for, also when earlier prepends have moved
\* readerIndex_ below kCheapPrepend: content is only ever moved towards the
\* front, and afterwards there is the room that was asked for.
AssertionsHold ==
  \A len \in 1..MaxSize :
    /\ writableBytes(b) < len /\ ~Grows(b, len) => kCheapPrepend < b.reader
    /\ writableBytes(ensureWritableBytes(b, len)) >= len

\* Integers written in network order are read back as they were, in their
\* order, among and in front of strings (a length prepended to its body), and
\* whatever moves, enlargements and shrinks of the storage there were in
\* between: peekInt returns the first of them.  With v = true the integer is
\* there twice, in host and in network order.  Nothing is claimed once a read
\* or an unwrite has cut a field, until the buffer is empty.
FieldsArrive ==
  tracked /\ fields # <<>> =>
    peekInt(b, Len(Head(fields)), FALSE) = Head(fields)

\* The strings written by the operations.
Wire ==
  Chunks \cup {SwapBytes(x) : x \in Ints} \cup {x \o SwapBytes(x) : x \in Ints}
         \cup {SwapBytes(x) \o x : x \in Ints}

Stream == INSTANCE ByteStream WITH content <- Readable(b), Data <- Wire

\* The buffer implements a string of bytes: every call adds, removes or
\* hands out exactly the bytes it should, and moving, enlarging or shrinking
\* the storage loses, repeats and reorders nothing.
ImplementsStream == Stream!Spec
=============================================================================
