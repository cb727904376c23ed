---------------------------- MODULE BufferProofs ----------------------------
(***************************************************************************)
(* Proofs about Buffer: its types, its layout and assertions, that it      *)
(* implements ByteStream and that integers arrive as they were written.    *)
(***************************************************************************)
EXTENDS Buffer, SequenceTheorems, WellFoundedInduction, TLAPS

\* A buffer whose indices are in their places and whose storage is large
\* enough for retrieveAll() to put them back to kCheapPrepend.
Placed(B) ==
  /\ B.reader <= B.writer
  /\ B.writer <= Len(B.buffer)
  /\ kCheapPrepend <= Len(B.buffer)

\* A function on 1..n with values in S is a sequence of length n.
LEMMA FunctionIsSeq ==
  ASSUME NEW S, NEW n \in Nat, NEW f \in [1..n -> S]
  PROVE  f \in Seq(S) /\ Len(f) = n
BY SeqDef

\* The part of a sequence between two offsets.
LEMMA SliceProperties ==
  ASSUME NEW S, NEW s \in Seq(S), NEW r \in Nat, NEW w \in Nat,
         r <= w, w <= Len(s)
  PROVE  /\ SubSeq(s, r + 1, w) \in Seq(S)
         /\ Len(SubSeq(s, r + 1, w)) = w - r
         /\ \A i \in 1..(w - r) : SubSeq(s, r + 1, w)[i] = s[r + i]
<1>1. Len(s) \in Nat /\ \A i \in 1..Len(s) : s[i] \in S
  BY LenProperties, ElementOfSeq
<1> DEFINE m == r + 1
<1>2. m \in Int /\ w \in Int /\ \A i \in m..w : s[i] \in S
  BY <1>1
<1> HIDE DEF m
<1>3. /\ SubSeq(s, m, w) \in Seq(S)
      /\ Len(SubSeq(s, m, w)) = IF m <= w THEN w - m + 1 ELSE 0
      /\ \A i \in 1..(w - m + 1) : SubSeq(s, m, w)[i] = s[m + i - 1]
  BY <1>2, SubSeqProperties
<1> DEFINE q == SubSeq(s, m, w)
<1>4. q \in Seq(S) /\ Len(q) = w - r
  BY <1>3 DEF m
<1>5. ASSUME NEW i \in 1..(w - r) PROVE q[i] = s[r + i]
  <2>1. i \in 1..(w - m + 1) /\ m + i - 1 = r + i
    BY DEF m
  <2>2. QED
    BY <2>1, <1>3
<1>6. QED
  BY <1>4, <1>5 DEF m

\* The content of a well-placed buffer: its type, length and elements.
LEMMA ReadableProperties ==
  ASSUME NEW B \in Buffers, Placed(B)
  PROVE  /\ Readable(B) \in Seq(Byte)
         /\ Len(Readable(B)) = B.writer - B.reader
         /\ \A i \in 1..(B.writer - B.reader) : Readable(B)[i] = B.buffer[B.reader + i]
<1>1. B.buffer \in Seq(Byte) /\ B.reader \in Nat /\ B.writer \in Nat
  BY DEF Buffers
<1>2. QED
  BY <1>1, SliceProperties DEF Readable, Placed

\* Copying bytes into the storage keeps its type and its length.
LEMMA CopyToProperties ==
  ASSUME NEW s \in Seq(Byte), NEW pos \in Nat, NEW d \in Seq(Byte)
  PROVE  /\ CopyTo(s, pos, d) \in Seq(Byte)
         /\ Len(CopyTo(s, pos, d)) = Len(s)
         /\ \A i \in 1..Len(s) : CopyTo(s, pos, d)[i] =
              IF pos < i /\ i <= pos + Len(d) THEN d[i - pos] ELSE s[i]
<1>1. Len(s) \in Nat /\ Len(d) \in Nat
  BY LenProperties
<1>2. \A i \in 1..Len(s) :
        (IF pos < i /\ i <= pos + Len(d) THEN d[i - pos] ELSE s[i]) \in Byte
  <2> SUFFICES ASSUME NEW i \in 1..Len(s)
               PROVE  (IF pos < i /\ i <= pos + Len(d) THEN d[i - pos] ELSE s[i]) \in Byte
    OBVIOUS
  <2>1. s[i] \in Byte
    BY ElementOfSeq
  <2>2. CASE pos < i /\ i <= pos + Len(d)
    <3>1. i - pos \in 1..Len(d)
      BY <2>2, <1>1
    <3>2. QED
      BY <3>1, <2>2, ElementOfSeq
  <2>3. QED
    BY <2>1, <2>2
<1>3. CopyTo(s, pos, d) \in [1..Len(s) -> Byte]
  BY <1>2 DEF CopyTo
<1>4. QED
  BY <1>1, <1>3, FunctionIsSeq DEF CopyTo

\* Enlarging the storage keeps what is in it.
LEMMA ResizeProperties ==
  ASSUME NEW s \in Seq(Byte), NEW size \in Nat, Len(s) <= size
  PROVE  /\ Resize(s, size) \in Seq(Byte)
         /\ Len(Resize(s, size)) = size
         /\ \A i \in 1..Len(s) : Resize(s, size)[i] = s[i]
<1>1. Len(s) \in Nat
  BY LenProperties
<1>2. \A i \in 1..size : (IF i <= Len(s) THEN s[i] ELSE 0) \in Byte
  BY <1>1, ElementOfSeq, BufferAssumption
<1>3. Resize(s, size) \in [1..size -> Byte]
  BY <1>2 DEF Resize
<1>4. QED
  BY <1>1, <1>3, FunctionIsSeq DEF Resize

\* The bytes of a converted integer are bytes, as many as it has.
LEMMA SwapBytesType ==
  ASSUME NEW x \in Seq(Byte)
  PROVE  /\ SwapBytes(x) \in Seq(Byte)
         /\ Len(SwapBytes(x)) = Len(x)
<1>1. Len(x) \in Nat
  BY LenProperties
<1>2. \A i \in 1..Len(x) : Len(x) + 1 - i \in 1..Len(x)
  BY <1>1
<1>3. SwapBytes(x) \in [1..Len(x) -> Byte]
  BY <1>2, ElementOfSeq DEF SwapBytes
<1>4. QED
  BY <1>1, <1>3, FunctionIsSeq

\* A new buffer is well placed and empty.
LEMMA ConstructProperties ==
  ASSUME NEW n \in Nat
  PROVE  /\ Construct(n) \in Buffers
         /\ Placed(Construct(n))
         /\ Readable(Construct(n)) = <<>>
<1>1. kCheapPrepend \in Nat /\ kCheapPrepend + n \in Nat /\ 0 \in Byte
  BY BufferAssumption
<1> DEFINE s == [i \in 1..(kCheapPrepend + n) |-> 0]
<1>2. s \in [1..(kCheapPrepend + n) -> Byte]
  BY <1>1
<1>3. s \in Seq(Byte) /\ Len(s) = kCheapPrepend + n
  BY <1>1, <1>2, FunctionIsSeq
<1>4. Construct(n) = [buffer |-> s, reader |-> kCheapPrepend, writer |-> kCheapPrepend]
  BY DEF Construct
<1> HIDE DEF s
<1>5. Construct(n) \in Buffers /\ Placed(Construct(n))
  BY <1>1, <1>3, <1>4 DEF Buffers, Placed
<1>6. Readable(Construct(n)) = <<>>
  BY <1>1, <1>4, SubSeqEmpty DEF Readable
<1>7. QED
  BY <1>5, <1>6

\* Two buffers with the same bytes between their indices have the same content.
LEMMA SameContent ==
  ASSUME NEW B \in Buffers, Placed(B), NEW C \in Buffers, Placed(C),
         C.writer - C.reader = B.writer - B.reader,
         \A i \in 1..(B.writer - B.reader) : C.buffer[C.reader + i] = B.buffer[B.reader + i]
  PROVE  Readable(C) = Readable(B)
<1>1. /\ Readable(B) \in Seq(Byte) /\ Readable(C) \in Seq(Byte)
      /\ Len(Readable(B)) = B.writer - B.reader
      /\ Len(Readable(C)) = B.writer - B.reader
  BY ReadableProperties
<1>2. \A i \in 1..(B.writer - B.reader) : Readable(B)[i] = B.buffer[B.reader + i]
  BY ReadableProperties
<1>3. \A i \in 1..(C.writer - C.reader) : Readable(C)[i] = C.buffer[C.reader + i]
  BY ReadableProperties
<1>4. \A i \in 1..Len(Readable(C)) : Readable(C)[i] = Readable(B)[i]
  BY <1>1, <1>2, <1>3
<1>5. QED
  BY <1>1, <1>4, SeqEqual

\* makeSpace keeps the content and makes the room asked for; it moves the
\* content only towards the front.
LEMMA MakeSpaceProperties ==
  ASSUME NEW B \in Buffers, Placed(B), NEW len \in Nat, writableBytes(B) < len
  PROVE  /\ makeSpace(B, len) \in Buffers
         /\ Placed(makeSpace(B, len))
         /\ Readable(makeSpace(B, len)) = Readable(B)
         /\ writableBytes(makeSpace(B, len)) >= len
         /\ ~Grows(B, len) => kCheapPrepend < B.reader
<1> DEFINE C == makeSpace(B, len)
<1>1. /\ B.buffer \in Seq(Byte) /\ B.reader \in Nat /\ B.writer \in Nat
      /\ Len(B.buffer) \in Nat /\ kCheapPrepend \in Nat
      /\ B.reader <= B.writer /\ B.writer <= Len(B.buffer)
      /\ kCheapPrepend <= Len(B.buffer)
  BY LenProperties, BufferAssumption DEF Buffers, Placed
<1>2. ~Grows(B, len) => kCheapPrepend < B.reader
  BY <1>1 DEF Grows, writableBytes
<1>3. CASE Grows(B, len)
  <2> DEFINE s == Resize(B.buffer, B.writer + len)
  <2>1. Len(B.buffer) <= B.writer + len /\ B.writer + len \in Nat
    BY <1>1 DEF writableBytes
  <2>2. /\ s \in Seq(Byte) /\ Len(s) = B.writer + len
        /\ \A i \in 1..Len(B.buffer) : s[i] = B.buffer[i]
    BY <1>1, <2>1, ResizeProperties
  <2> HIDE DEF s
  <2>3. C = [B EXCEPT !.buffer = s]
    BY <1>3 DEF makeSpace, s
  <2>4. C \in Buffers /\ C.buffer = s /\ C.reader = B.reader /\ C.writer = B.writer
    BY <2>2, <2>3 DEF Buffers
  <2> HIDE DEF C
  <2>5. Placed(C) /\ writableBytes(C) >= len
    BY <1>1, <2>2, <2>4 DEF Placed, writableBytes
  <2>6. ASSUME NEW i \in 1..(B.writer - B.reader)
        PROVE  C.buffer[C.reader + i] = B.buffer[B.reader + i]
    <3>1. B.reader + i \in 1..Len(B.buffer)
      BY <1>1
    <3>2. s[B.reader + i] = B.buffer[B.reader + i]
      BY <3>1, <2>2
    <3>3. QED
      BY <3>2, <2>4
  <2>7. Readable(C) = Readable(B)
    <3>1. C.writer - C.reader = B.writer - B.reader
      BY <2>4
    <3>2. QED
      BY <3>1, <2>4, <2>5, <2>6, SameContent
  <2>8. QED
    BY <1>2, <2>4, <2>5, <2>7 DEF C
<1>4. CASE ~Grows(B, len)
  <2> DEFINE d == Readable(B)
             s == CopyTo(B.buffer, kCheapPrepend, d)
  <2>1. /\ d \in Seq(Byte) /\ Len(d) = B.writer - B.reader
        /\ \A i \in 1..(B.writer - B.reader) : d[i] = B.buffer[B.reader + i]
    BY ReadableProperties
  <2> HIDE DEF d
  <2>2. /\ s \in Seq(Byte) /\ Len(s) = Len(B.buffer)
        /\ \A i \in 1..Len(B.buffer) : s[i] =
             IF kCheapPrepend < i /\ i <= kCheapPrepend + Len(d)
               THEN d[i - kCheapPrepend] ELSE B.buffer[i]
    BY <1>1, <2>1, CopyToProperties
  <2> HIDE DEF s
  <2>3. C = [buffer |-> s, reader |-> kCheapPrepend,
             writer |-> kCheapPrepend + (B.writer - B.reader)]
    BY <1>4 DEF makeSpace, s, d, readableBytes
  <2>4. /\ C \in Buffers /\ C.buffer = s /\ C.reader = kCheapPrepend
        /\ C.writer = kCheapPrepend + (B.writer - B.reader)
    BY <1>1, <2>2, <2>3 DEF Buffers
  <2> HIDE DEF C
  <2>5. Placed(C) /\ writableBytes(C) >= len
    BY <1>1, <1>2, <1>4, <2>2, <2>4 DEF Placed, writableBytes, Grows
  <2>6. ASSUME NEW i \in 1..(B.writer - B.reader)
        PROVE  C.buffer[C.reader + i] = B.buffer[B.reader + i]
    <3>1. /\ kCheapPrepend + i \in 1..Len(B.buffer)
          /\ kCheapPrepend < kCheapPrepend + i
          /\ kCheapPrepend + i <= kCheapPrepend + Len(d)
          /\ (kCheapPrepend + i) - kCheapPrepend = i
      BY <1>1, <1>2, <1>4, <2>1
    <3>2. s[kCheapPrepend + i] = d[i]
      BY <3>1, <2>2
    <3>3. QED
      BY <3>2, <2>1, <2>4
  <2>7. Readable(C) = Readable(B)
    <3>1. C.writer - C.reader = B.writer - B.reader
      BY <1>1, <2>4
    <3>2. QED
      BY <3>1, <2>4, <2>5, <2>6, SameContent
  <2>8. QED
    BY <1>2, <2>4, <2>5, <2>7 DEF C
<1>5. QED
  BY <1>3, <1>4

\* ensureWritableBytes keeps the content and leaves the room asked for.
LEMMA EnsureWritableProperties ==
  ASSUME NEW B \in Buffers, Placed(B), NEW len \in Nat
  PROVE  /\ ensureWritableBytes(B, len) \in Buffers
         /\ Placed(ensureWritableBytes(B, len))
         /\ Readable(ensureWritableBytes(B, len)) = Readable(B)
         /\ writableBytes(ensureWritableBytes(B, len)) >= len
<1>1. writableBytes(B) \in Int
  BY LenProperties DEF Buffers, writableBytes
<1>2. CASE writableBytes(B) < len
  BY <1>2, MakeSpaceProperties DEF ensureWritableBytes
<1>3. CASE ~(writableBytes(B) < len)
  BY <1>1, <1>3 DEF ensureWritableBytes
<1>4. QED
  BY <1>2, <1>3

\* Writing into the room there is puts the bytes behind the content.
LEMMA HasWrittenProperties ==
  ASSUME NEW B \in Buffers, Placed(B), NEW d \in Seq(Byte), Len(d) <= writableBytes(B)
  PROVE  /\ hasWritten(B, d) \in Buffers
         /\ Placed(hasWritten(B, d))
         /\ Readable(hasWritten(B, d)) = Readable(B) \o d
<1> DEFINE C == hasWritten(B, d)
           s == CopyTo(B.buffer, B.writer, d)
           r == Readable(B)
<1>1. /\ B.buffer \in Seq(Byte) /\ B.reader \in Nat /\ B.writer \in Nat
      /\ Len(B.buffer) \in Nat /\ Len(d) \in Nat
      /\ B.reader <= B.writer /\ B.writer + Len(d) <= Len(B.buffer)
      /\ kCheapPrepend \in Nat /\ kCheapPrepend <= Len(B.buffer)
  BY LenProperties, BufferAssumption DEF Buffers, Placed, writableBytes
<1>2. /\ s \in Seq(Byte) /\ Len(s) = Len(B.buffer)
      /\ \A i \in 1..Len(B.buffer) : s[i] =
           IF B.writer < i /\ i <= B.writer + Len(d) THEN d[i - B.writer] ELSE B.buffer[i]
  BY <1>1, CopyToProperties
<1> HIDE DEF s
<1>3. C = [B EXCEPT !.buffer = s, !.writer = B.writer + Len(d)]
  BY DEF hasWritten, s
<1>4. C \in Buffers /\ C.buffer = s /\ C.reader = B.reader /\ C.writer = B.writer + Len(d)
  <2> DEFINE w == B.writer + Len(d)
  <2>1. w \in Nat
    BY <1>1
  <2>2. C = [B EXCEPT !.buffer = s, !.writer = w]
    BY <1>3
  <2> HIDE DEF w, C
  <2>3. C \in Buffers /\ C.buffer = s /\ C.reader = B.reader /\ C.writer = w
    BY <1>2, <2>1, <2>2 DEF Buffers
  <2>4. QED
    BY <2>3 DEF w
<1> HIDE DEF C
<1>5. Placed(C)
  BY <1>1, <1>2, <1>4 DEF Placed
<1>6. /\ r \in Seq(Byte) /\ Len(r) = B.writer - B.reader
      /\ \A i \in 1..(B.writer - B.reader) : r[i] = B.buffer[B.reader + i]
  BY ReadableProperties
<1>7. /\ Readable(C) \in Seq(Byte) /\ Len(Readable(C)) = B.writer + Len(d) - B.reader
      /\ \A i \in 1..(C.writer - C.reader) : Readable(C)[i] = s[B.reader + i]
  <2>1. /\ Readable(C) \in Seq(Byte) /\ Len(Readable(C)) = C.writer - C.reader
        /\ \A i \in 1..(C.writer - C.reader) : Readable(C)[i] = C.buffer[C.reader + i]
    BY <1>4, <1>5, ReadableProperties
  <2>2. C.writer - C.reader = B.writer + Len(d) - B.reader
    BY <1>1, <1>4
  <2>3. QED
    BY <2>1, <2>2, <1>4
<1> HIDE DEF r
<1>8. /\ r \o d \in Seq(Byte)
      /\ Len(r \o d) = Len(r) + Len(d)
      /\ \A i \in 1..(Len(r) + Len(d)) :
           (r \o d)[i] = IF i <= Len(r) THEN r[i] ELSE d[i - Len(r)]
  BY <1>6, ConcatProperties
<1>9. ASSUME NEW i \in 1..Len(Readable(C)) PROVE Readable(C)[i] = (r \o d)[i]
  <2> DEFINE w == B.writer + Len(d)
  <2>0. C.writer - C.reader = w - B.reader /\ w \in Nat /\ w <= Len(B.buffer)
        /\ i \in 1..(w - B.reader) /\ Len(r) + Len(d) = w - B.reader
    BY <1>1, <1>4, <1>6, <1>7
  <2> HIDE DEF w
  <2>1. i \in 1..(C.writer - C.reader) /\ i \in 1..(Len(r) + Len(d))
        /\ B.reader + i \in 1..Len(B.buffer)
    BY <2>0, <1>1
  <2>2. CASE i <= Len(r)
    <3>1. i \in 1..(B.writer - B.reader) /\ ~(B.writer < B.reader + i)
      BY <1>1, <1>6, <2>1, <2>2
    <3>2. s[B.reader + i] = B.buffer[B.reader + i]
      BY <3>1, <2>1, <1>2
    <3>3. QED
      BY <3>1, <3>2, <2>1, <2>2, <1>6, <1>7, <1>8
  <2>3. CASE ~(i <= Len(r))
    <3>1. /\ B.writer < B.reader + i /\ B.reader + i <= B.writer + Len(d)
          /\ (B.reader + i) - B.writer = i - Len(r)
      BY <1>1, <1>6, <2>1, <2>3
    <3>2. s[B.reader + i] = d[i - Len(r)]
      BY <3>1, <2>1, <1>2
    <3>3. QED
      BY <3>2, <2>1, <2>3, <1>7, <1>8
  <2>4. QED
    BY <2>2, <2>3
<1>10. Len(Readable(C)) = Len(r \o d)
  BY <1>1, <1>6, <1>7, <1>8
<1>11. Readable(C) = r \o d
  BY <1>7, <1>8, <1>9, <1>10, SeqEqual
<1>12. QED
  BY <1>4, <1>5, <1>11 DEF C, r

\* append() puts the bytes behind the content, whatever room there was.
LEMMA AppendIsPut ==
  ASSUME NEW B \in Buffers, Placed(B), NEW d \in Seq(Byte)
  PROVE  /\ append(B, d) \in Buffers
         /\ Placed(append(B, d))
         /\ Readable(append(B, d)) = Readable(B) \o d
<1> DEFINE C == ensureWritableBytes(B, Len(d))
<1>1. Len(d) \in Nat
  BY LenProperties
<1>2. /\ C \in Buffers /\ Placed(C) /\ Readable(C) = Readable(B)
      /\ writableBytes(C) >= Len(d)
  BY <1>1, EnsureWritableProperties
<1>3. writableBytes(C) \in Int
  BY <1>2, LenProperties DEF Buffers, writableBytes
<1>4. append(B, d) = hasWritten(C, d)
  BY DEF append
<1> HIDE DEF C
<1>5. Len(d) <= writableBytes(C)
  BY <1>1, <1>2, <1>3
<1>6. QED
  BY <1>2, <1>4, <1>5, HasWrittenProperties

\* prepend() puts the bytes in front of the content and uses up as much of
\* the room in front of it.
LEMMA PrependIsPush ==
  ASSUME NEW B \in Buffers, Placed(B), NEW d \in Seq(Byte), Len(d) <= B.reader
  PROVE  /\ prepend(B, d) \in Buffers
         /\ Placed(prepend(B, d))
         /\ Readable(prepend(B, d)) = d \o Readable(B)
         /\ prepend(B, d).reader = B.reader - Len(d)
<1> DEFINE C == prepend(B, d)
           p == B.reader - Len(d)
           s == CopyTo(B.buffer, p, d)
           r == Readable(B)
<1>1. /\ B.buffer \in Seq(Byte) /\ B.reader \in Nat /\ B.writer \in Nat
      /\ Len(B.buffer) \in Nat /\ Len(d) \in Nat /\ p \in Nat
      /\ B.reader <= B.writer /\ B.writer <= Len(B.buffer)
      /\ kCheapPrepend \in Nat /\ kCheapPrepend <= Len(B.buffer)
  BY LenProperties, BufferAssumption DEF Buffers, Placed
<1>a. p + Len(d) = B.reader
  BY <1>1
<1>3. C = [B EXCEPT !.buffer = s, !.reader = p]
  BY DEF prepend
<1> HIDE DEF p
<1>2. /\ s \in Seq(Byte) /\ Len(s) = Len(B.buffer)
      /\ \A i \in 1..Len(B.buffer) : s[i] =
           IF p < i /\ i <= p + Len(d) THEN d[i - p] ELSE B.buffer[i]
  BY <1>1, CopyToProperties
<1> HIDE DEF s, C
<1>4. C \in Buffers /\ C.buffer = s /\ C.reader = p /\ C.writer = B.writer
  BY <1>1, <1>2, <1>3 DEF Buffers
<1>5. Placed(C)
  BY <1>1, <1>a, <1>2, <1>4 DEF Placed
<1>6. /\ r \in Seq(Byte) /\ Len(r) = B.writer - B.reader
      /\ \A i \in 1..(B.writer - B.reader) : r[i] = B.buffer[B.reader + i]
  BY ReadableProperties
<1>7. /\ Readable(C) \in Seq(Byte) /\ Len(Readable(C)) = B.writer - p
      /\ \A i \in 1..(B.writer - p) : Readable(C)[i] = s[p + i]
  <2>1. /\ Readable(C) \in Seq(Byte) /\ Len(Readable(C)) = C.writer - C.reader
        /\ \A i \in 1..(C.writer - C.reader) : Readable(C)[i] = C.buffer[C.reader + i]
    BY <1>4, <1>5, ReadableProperties
  <2>2. QED
    BY <2>1, <1>4
<1> HIDE DEF r
<1>8. /\ d \o r \in Seq(Byte)
      /\ Len(d \o r) = Len(d) + Len(r)
      /\ \A i \in 1..(Len(d) + Len(r)) :
           (d \o r)[i] = IF i <= Len(d) THEN d[i] ELSE r[i - Len(d)]
  BY <1>6, ConcatProperties
<1>9. ASSUME NEW i \in 1..Len(Readable(C)) PROVE Readable(C)[i] = (d \o r)[i]
  <2>1. i \in 1..(B.writer - p) /\ i \in 1..(Len(d) + Len(r)) /\ p + i \in 1..Len(B.buffer)
    <3> DEFINE w == B.writer
               n == Len(d)
               m == Len(B.buffer)
               k == Len(r)
    <3>1. w \in Nat /\ n \in Nat /\ m \in Nat /\ p \in Nat /\ w <= m /\ i \in 1..(w - p)
      BY <1>1, <1>7
    <3>2. k = w - B.reader /\ p + n = B.reader
      BY <1>a, <1>6
    <3> HIDE DEF w, n, m, k
    <3>3. k = w - (p + n)
      BY <3>2
    <3>4. n + k = w - p
      BY <3>1, <3>3
    <3>5. p + i \in 1..m
      BY <3>1
    <3>6. QED
      BY <3>1, <3>4, <3>5 DEF w, n, m, k
  <2>2. CASE i <= Len(d)
    <3>1. p < p + i /\ p + i <= p + Len(d) /\ (p + i) - p = i
      BY <1>1, <2>1, <2>2
    <3>2. s[p + i] = d[i]
      BY <3>1, <2>1, <1>2
    <3>3. QED
      BY <3>2, <2>1, <2>2, <1>7, <1>8
  <2>3. CASE ~(i <= Len(d))
    <3>1. /\ ~(p + i <= p + Len(d)) /\ i - Len(d) \in 1..(B.writer - B.reader)
          /\ B.reader + (i - Len(d)) = p + i
      BY <1>1, <1>a, <1>6, <2>1, <2>3
    <3>2. s[p + i] = B.buffer[p + i]
      BY <3>1, <2>1, <1>2
    <3>3. r[i - Len(d)] = B.buffer[p + i]
      BY <3>1, <1>6
    <3>4. QED
      BY <3>2, <3>3, <2>1, <2>3, <1>7, <1>8
  <2>4. QED
    BY <2>2, <2>3
<1>10. Len(Readable(C)) = Len(d \o r)
  BY <1>1, <1>a, <1>6, <1>7, <1>8
<1>11. Readable(C) = d \o r
  BY <1>7, <1>8, <1>9, <1>10, SeqEqual
<1>12. QED
  BY <1>4, <1>5, <1>11 DEF C, r, p

\* A slice of the content is a slice of the storage.
LEMMA SliceOfContent ==
  ASSUME NEW B \in Buffers, Placed(B), NEW m \in Nat, NEW n \in Nat,
         m <= n, n <= B.writer - B.reader
  PROVE  /\ SubSeq(Readable(B), m + 1, n) = SubSeq(B.buffer, (B.reader + m) + 1, B.reader + n)
         /\ SubSeq(Readable(B), m + 1, n) \in Seq(Byte)
         /\ Len(SubSeq(Readable(B), m + 1, n)) = n - m
<1> DEFINE r == Readable(B)
           lo == B.reader + m
           hi == B.reader + n
           q == SubSeq(r, m + 1, n)
           t == SubSeq(B.buffer, lo + 1, hi)
<1>1. /\ B.buffer \in Seq(Byte) /\ Len(B.buffer) \in Nat
      /\ B.reader \in Nat /\ B.writer \in Nat
      /\ B.reader <= B.writer /\ B.writer <= Len(B.buffer)
  BY LenProperties DEF Buffers, Placed
<1>2. /\ r \in Seq(Byte) /\ Len(r) = B.writer - B.reader
      /\ \A i \in 1..(B.writer - B.reader) : r[i] = B.buffer[B.reader + i]
  BY ReadableProperties
<1> HIDE DEF r
<1>3. /\ q \in Seq(Byte) /\ Len(q) = n - m
      /\ \A i \in 1..(n - m) : q[i] = r[m + i]
  BY <1>2, SliceProperties
<1>4. lo \in Nat /\ hi \in Nat /\ lo <= hi /\ hi <= Len(B.buffer) /\ hi - lo = n - m
  BY <1>1
<1>x. \A i \in 1..(n - m) : lo + i = B.reader + (m + i) /\ m + i \in 1..(B.writer - B.reader)
  BY <1>1
<1> HIDE DEF q
<1>y. t = SubSeq(B.buffer, lo + 1, hi)
  OBVIOUS
<1> HIDE DEF lo, hi, t
<1>5. /\ t \in Seq(Byte) /\ Len(t) = n - m
      /\ \A i \in 1..(n - m) : t[i] = B.buffer[lo + i]
  BY <1>1, <1>4, <1>y, SliceProperties
<1>6. ASSUME NEW i \in 1..(n - m) PROVE q[i] = t[i]
  <2>1. q[i] = r[m + i] /\ t[i] = B.buffer[lo + i]
    BY <1>3, <1>5
  <2>2. r[m + i] = B.buffer[B.reader + (m + i)]
    BY <1>x, <1>2
  <2>3. QED
    BY <2>1, <2>2, <1>x
<1>7. q = t
  BY <1>3, <1>5, <1>6, SeqEqual
<1>8. QED
  BY <1>3, <1>7 DEF q, t, r, lo, hi

\* retrieve() gives up the first bytes of the content, and rewinds both
\* indices when nothing is left.
LEMMA RetrieveIsDrop ==
  ASSUME NEW B \in Buffers, Placed(B), NEW len \in Nat, len <= readableBytes(B)
  PROVE  /\ retrieve(B, len) \in Buffers
         /\ Placed(retrieve(B, len))
         /\ Readable(retrieve(B, len)) = SubSeq(Readable(B), len + 1, Len(Readable(B)))
<1> DEFINE C == retrieve(B, len)
<1>1. /\ B.buffer \in Seq(Byte) /\ Len(B.buffer) \in Nat
      /\ B.reader \in Nat /\ B.writer \in Nat
      /\ B.reader <= B.writer /\ B.writer <= Len(B.buffer)
      /\ kCheapPrepend \in Nat /\ kCheapPrepend <= Len(B.buffer)
      /\ len <= B.writer - B.reader
  BY LenProperties, BufferAssumption DEF Buffers, Placed, readableBytes
<1>2. Len(Readable(B)) = B.writer - B.reader
  BY ReadableProperties
<1>3. CASE len < readableBytes(B)
  <2> DEFINE k == B.reader + len
  <2>1. k \in Nat /\ k <= B.writer
    BY <1>1
  <2>2. C = [B EXCEPT !.reader = k]
    BY <1>3 DEF retrieve
  <2>3. SubSeq(Readable(B), len + 1, B.writer - B.reader)
          = SubSeq(B.buffer, k + 1, B.reader + (B.writer - B.reader))
    <3> DEFINE n == B.writer - B.reader
    <3>1. n \in Nat /\ len <= n /\ n <= B.writer - B.reader
      BY <1>1
    <3> HIDE DEF n
    <3>2. SubSeq(Readable(B), len + 1, n) = SubSeq(B.buffer, (B.reader + len) + 1, B.reader + n)
      BY <3>1, SliceOfContent
    <3>3. QED
      BY <3>2 DEF n
  <2>4. B.reader + (B.writer - B.reader) = B.writer
    BY <1>1
  <2> HIDE DEF k, C
  <2>5. C \in Buffers /\ C.buffer = B.buffer /\ C.reader = k /\ C.writer = B.writer
    BY <2>1, <2>2 DEF Buffers
  <2>6. Placed(C)
    BY <1>1, <2>1, <2>5 DEF Placed
  <2>7. Readable(C) = SubSeq(B.buffer, k + 1, B.writer)
    BY <2>5 DEF Readable
  <2>8. QED
    BY <1>2, <2>3, <2>4, <2>5, <2>6, <2>7 DEF C
<1>4. CASE ~(len < readableBytes(B))
  <2>1. C = [B EXCEPT !.reader = kCheapPrepend, !.writer = kCheapPrepend]
    BY <1>4 DEF retrieve, retrieveAll
  <2> HIDE DEF C
  <2>2. C \in Buffers /\ C.reader = kCheapPrepend /\ C.writer = kCheapPrepend
        /\ C.buffer = B.buffer
    BY <1>1, <2>1 DEF Buffers
  <2>3. Placed(C)
    BY <1>1, <2>2 DEF Placed
  <2>4. kCheapPrepend < kCheapPrepend + 1 /\ len = Len(Readable(B)) /\ len < len + 1
    BY <1>1, <1>2, <1>4 DEF readableBytes
  <2>5. Readable(C) = <<>>
    BY <1>1, <2>2, <2>4, SubSeqEmpty DEF Readable
  <2>6. SubSeq(Readable(B), len + 1, Len(Readable(B))) = <<>>
    BY <2>4, SubSeqEmpty
  <2>7. QED
    BY <2>2, <2>3, <2>5, <2>6 DEF C
<1>5. QED
  BY <1>3, <1>4

\* unwrite() withdraws the last bytes of the content.
LEMMA UnwriteIsWithdraw ==
  ASSUME NEW B \in Buffers, Placed(B), NEW len \in Nat, len <= readableBytes(B)
  PROVE  /\ unwrite(B, len) \in Buffers
         /\ Placed(unwrite(B, len))
         /\ Readable(unwrite(B, len)) = SubSeq(Readable(B), 1, Len(Readable(B)) - len)
<1> DEFINE C == unwrite(B, len)
           w == B.writer - len
           n == (B.writer - B.reader) - len
<1>1. /\ B.buffer \in Seq(Byte) /\ Len(B.buffer) \in Nat
      /\ B.reader \in Nat /\ B.writer \in Nat
      /\ B.reader <= B.writer /\ B.writer <= Len(B.buffer)
      /\ kCheapPrepend \in Nat /\ kCheapPrepend <= Len(B.buffer)
      /\ len <= B.writer - B.reader
  BY LenProperties, BufferAssumption DEF Buffers, Placed, readableBytes
<1>3. C = [B EXCEPT !.writer = w]
  BY DEF unwrite
<1> HIDE DEF C
<1>2. /\ w \in Nat /\ n \in Nat /\ n <= B.writer - B.reader /\ B.reader + n = w
      /\ B.reader <= w /\ w <= Len(B.buffer)
  <2>1. w \in Nat /\ n \in Nat
    BY <1>1
  <2>2. n <= B.writer - B.reader /\ B.reader + n = w
    BY <1>1
  <2>3. B.reader <= w /\ w <= Len(B.buffer)
    BY <1>1
  <2>4. QED
    BY <2>1, <2>2, <2>3
<1>a. 0 \in Nat /\ 0 <= n /\ 0 + 1 = 1 /\ B.reader + 0 = B.reader
  BY <1>1, <1>2
<1>4. Len(Readable(B)) - len = n
  BY ReadableProperties
<1> HIDE DEF w, n
<1>5. C \in Buffers /\ C.buffer = B.buffer /\ C.reader = B.reader /\ C.writer = w
  BY <1>2, <1>3 DEF Buffers
<1>6. Placed(C)
  BY <1>1, <1>2, <1>5 DEF Placed
<1>7. SubSeq(Readable(B), 0 + 1, n) = SubSeq(B.buffer, (B.reader + 0) + 1, B.reader + n)
  BY <1>2, <1>a, SliceOfContent
<1>8. Readable(C) = SubSeq(B.buffer, B.reader + 1, w)
  BY <1>5 DEF Readable
<1>9. QED
  BY <1>2, <1>a, <1>4, <1>5, <1>6, <1>7, <1>8 DEF C

\* shrink() keeps the content.
LEMMA ShrinkKeepsContent ==
  ASSUME NEW B \in Buffers, Placed(B), NEW reserve \in Nat
  PROVE  /\ shrink(B, reserve) \in Buffers
         /\ Placed(shrink(B, reserve))
         /\ Readable(shrink(B, reserve)) = Readable(B)
<1> DEFINE n == readableBytes(B) + reserve
           C == ensureWritableBytes(Construct(kInitialSize), n)
<1>1. kInitialSize \in Nat
  BY BufferAssumption
<1>2. n \in Nat
  BY DEF Buffers, Placed, readableBytes
<1>3. shrink(B, reserve) = append(C, Readable(B))
  BY DEF shrink
<1> HIDE DEF n
<1>4. C \in Buffers /\ Placed(C) /\ Readable(C) = <<>>
  BY <1>1, <1>2, ConstructProperties, EnsureWritableProperties
<1> HIDE DEF C
<1>5. Readable(B) \in Seq(Byte) /\ <<>> \o Readable(B) = Readable(B)
  BY ReadableProperties, ConcatEmptySeq
<1>6. QED
  BY <1>3, <1>4, <1>5, AppendIsPut

\* appendInt() appends one string of Wire.
LEMMA AppendIntIsPut ==
  ASSUME NEW B \in Buffers, Placed(B), NEW x \in Ints, NEW v \in BOOLEAN
  PROVE  /\ appendInt(B, x, v) \in Buffers
         /\ Placed(appendInt(B, x, v))
         /\ \E d \in Wire : Readable(appendInt(B, x, v)) = Readable(B) \o d
         /\ v => Readable(appendInt(B, x, v)) = (Readable(B) \o x) \o SwapBytes(x)
         /\ ~v => Readable(appendInt(B, x, v)) = Readable(B) \o SwapBytes(x)
<1>1. x \in Seq(Byte) /\ SwapBytes(x) \in Seq(Byte) /\ Readable(B) \in Seq(Byte)
  BY BufferAssumption, SwapBytesType, ReadableProperties
<1>2. CASE v
  <2> DEFINE C == append(B, x)
  <2>1. C \in Buffers /\ Placed(C) /\ Readable(C) = Readable(B) \o x
    BY <1>1, AppendIsPut
  <2>2. appendInt(B, x, v) = append(C, SwapBytes(x))
    BY <1>2 DEF appendInt
  <2> HIDE DEF C
  <2>3. /\ appendInt(B, x, v) \in Buffers /\ Placed(appendInt(B, x, v))
        /\ Readable(appendInt(B, x, v)) = (Readable(B) \o x) \o SwapBytes(x)
    BY <1>1, <2>1, <2>2, AppendIsPut
  <2>4. (Readable(B) \o x) \o SwapBytes(x) = Readable(B) \o (x \o SwapBytes(x))
    BY <1>1, ConcatAssociative
  <2>5. x \o SwapBytes(x) \in Wire
    BY DEF Wire
  <2>6. QED
    BY <1>2, <2>3, <2>4, <2>5
<1>3. CASE ~v
  <2>1. appendInt(B, x, v) = append(B, SwapBytes(x))
    BY <1>3 DEF appendInt
  <2>2. SwapBytes(x) \in Wire
    BY DEF Wire
  <2>3. QED
    BY <1>1, <1>3, <2>1, <2>2, AppendIsPut
<1>4. QED
  BY <1>2, <1>3

\* prependInt() prepends one string of Wire.
LEMMA PrependIntIsPush ==
  ASSUME NEW B \in Buffers, Placed(B), NEW x \in Ints, NEW v \in BOOLEAN,
         Written(x, v) <= B.reader
  PROVE  /\ prependInt(B, x, v) \in Buffers
         /\ Placed(prependInt(B, x, v))
         /\ \E d \in Wire : Readable(prependInt(B, x, v)) = d \o Readable(B)
         /\ v => Readable(prependInt(B, x, v)) = SwapBytes(x) \o (x \o Readable(B))
         /\ ~v => Readable(prependInt(B, x, v)) = SwapBytes(x) \o Readable(B)
<1>1. x \in Seq(Byte) /\ SwapBytes(x) \in Seq(Byte) /\ Readable(B) \in Seq(Byte)
      /\ Len(SwapBytes(x)) = Len(x)
  BY BufferAssumption, SwapBytesType, ReadableProperties
<1>2. Len(x) \in Nat /\ B.reader \in Nat
  BY <1>1, LenProperties DEF Buffers
<1>3. CASE v
  <2> DEFINE C == prepend(B, x)
  <2>1. Len(x) <= B.reader /\ Len(x) <= B.reader - Len(x)
    BY <1>2, <1>3 DEF Written
  <2>2. /\ C \in Buffers /\ Placed(C) /\ Readable(C) = x \o Readable(B)
        /\ C.reader = B.reader - Len(x)
    BY <1>1, <2>1, PrependIsPush
  <2>3. prependInt(B, x, v) = prepend(C, SwapBytes(x))
    BY <1>3 DEF prependInt
  <2> HIDE DEF C
  <2>4. Len(SwapBytes(x)) <= C.reader
    BY <1>1, <2>1, <2>2
  <2>5. /\ prependInt(B, x, v) \in Buffers /\ Placed(prependInt(B, x, v))
        /\ Readable(prependInt(B, x, v)) = SwapBytes(x) \o (x \o Readable(B))
    BY <1>1, <2>2, <2>3, <2>4, PrependIsPush
  <2>6. SwapBytes(x) \o (x \o Readable(B)) = (SwapBytes(x) \o x) \o Readable(B)
    BY <1>1, ConcatAssociative
  <2>7. SwapBytes(x) \o x \in Wire
    BY DEF Wire
  <2>8. QED
    BY <1>3, <2>5, <2>6, <2>7
<1>4. CASE ~v
  <2>1. prependInt(B, x, v) = prepend(B, SwapBytes(x))
    BY <1>4 DEF prependInt
  <2>2. SwapBytes(x) \in Wire /\ Len(SwapBytes(x)) <= B.reader
    BY <1>1, <1>2, <1>4 DEF Wire, Written
  <2>3. QED
    BY <1>1, <1>4, <2>1, <2>2, PrependIsPush
<1>5. QED
  BY <1>3, <1>4

-----------------------------------------------------------------------------
\* The inductive invariant.
IInv == TypeOK /\ Placed(b)

\* What the integer operations add to the history.
LEMMA NewFields ==
  ASSUME NEW x \in Seq(Byte)
  PROVE  /\ SwapBytes(x) \in Strings /\ x \in Strings
         /\ <<SwapBytes(x)>> \in Seq(Strings) /\ <<x>> \in Seq(Strings)
         /\ <<SwapBytes(x), x>> \in Seq(Strings) /\ <<x, SwapBytes(x)>> \in Seq(Strings)
<1>1. SwapBytes(x) \in Strings /\ x \in Strings
  BY SwapBytesType DEF Strings
<1>2. QED
  BY <1>1

\* The history keeps its type.
LEMMA HistoryType ==
  ASSUME fields \in Seq(Strings), tracked \in BOOLEAN,
         \/ \E new \in Seq(Strings) : AddLast(new) \/ AddFirst(new)
         \/ \E len \in Nat : TakeFirst(len)
         \/ Forget
  PROVE  fields' \in Seq(Strings) /\ tracked' \in BOOLEAN
<1>1. <<>> \in Seq(Strings)
  BY EmptySeq
<1>2. \A new \in Seq(Strings) : fields \o new \in Seq(Strings) /\ new \o fields \in Seq(Strings)
  BY ConcatProperties
<1>3. fields # <<>> => Tail(fields) \in Seq(Strings)
  BY HeadTailProperties
<1>4. ASSUME NEW new \in Seq(Strings), AddLast(new) \/ AddFirst(new)
      PROVE  fields' \in Seq(Strings) /\ tracked' \in BOOLEAN
  BY <1>1, <1>2, <1>4 DEF AddLast, AddFirst
<1>5. ASSUME Forget PROVE fields' \in Seq(Strings) /\ tracked' \in BOOLEAN
  BY <1>1, <1>5 DEF Forget
<1>6. ASSUME NEW len \in Nat, TakeFirst(len)
      PROVE  fields' \in Seq(Strings) /\ tracked' \in BOOLEAN
  BY <1>3, <1>5, <1>6 DEF TakeFirst
<1>7. QED
  BY <1>4, <1>5, <1>6

\* Every call keeps the inductive invariant and is a step of the stream, or
\* leaves the stream alone.
LEMMA Step ==
  ASSUME IInv, Next
  PROVE  IInv' /\ (Stream!Next \/ UNCHANGED Stream!vars)
<1> DEFINE R == Readable(b)
           G == IInv' /\ (Stream!Next \/ UNCHANGED Stream!vars)
<1>1. /\ b \in Buffers /\ Placed(b) /\ got \in Seq(Byte)
      /\ fields \in Seq(Strings) /\ tracked \in BOOLEAN
  BY DEF IInv, TypeOK
<1>2. R \in Seq(Byte) /\ Len(R) = readableBytes(b) /\ Len(R) \in Nat
  BY <1>1, ReadableProperties, LenProperties DEF readableBytes
<1>3. <<>> \in Seq(Byte) /\ <<>> \in Seq(Strings) /\ Chunks \subseteq Seq(Byte)
  BY EmptySeq, BufferAssumption
<1>4. Chunks \subseteq Wire
  BY DEF Wire
<1>5. ASSUME /\ b' \in Buffers /\ Placed(b') /\ got' \in Seq(Byte)
             /\ fields' \in Seq(Strings) /\ tracked' \in BOOLEAN
      PROVE  IInv'
  BY <1>5 DEF IInv, TypeOK, Placed
<1>6. ASSUME NEW d \in Wire, Readable(b') = R \o d \/ Readable(b') = d \o R, got' = <<>>
      PROVE  Stream!Next
  <2>1. Stream!Put(d) \/ Stream!Push(d)
    BY <1>6 DEF Stream!Put, Stream!Push, Readable
  <2>2. QED
    BY <2>1 DEF Stream!Next
<1>7. ASSUME NEW n \in Nat, n <= readableBytes(b), got' = <<>>,
             \/ Readable(b') = SubSeq(R, n + 1, Len(R))
             \/ Readable(b') = SubSeq(R, 1, Len(R) - n)
      PROVE  Stream!Next
  <2>1. Stream!Drop(n) \/ Stream!Withdraw(n)
    BY <1>7 DEF Stream!Drop, Stream!Withdraw, Readable
  <2>2. n \in 0..Len(R)
    BY <1>2, <1>7
  <2>3. QED
    BY <2>1, <2>2 DEF Stream!Next
<1>8. ASSUME Readable(b') = R, got' = got PROVE UNCHANGED Stream!vars
  BY <1>8 DEF Stream!vars, Readable
<1>9. ASSUME NEW d \in Chunks, AppendData(d) PROVE G
  <2>1. b' = append(b, d) /\ AddLast(<<SwapBytes(d)>>) /\ got' = <<>> /\ d \in Seq(Byte)
    BY <1>3, <1>9 DEF AppendData
  <2>2. b' \in Buffers /\ Placed(b') /\ Readable(b') = R \o d
    BY <1>1, <2>1, AppendIsPut
  <2>3. fields' \in Seq(Strings) /\ tracked' \in BOOLEAN
    BY <1>1, <2>1, NewFields, HistoryType
  <2>4. QED
    BY <2>1, <2>2, <2>3, <1>3, <1>4, <1>5, <1>6
<1>10. ASSUME NEW d \in Chunks, HasWritten(d) PROVE G
  <2>1. b' = hasWritten(b, d) /\ AddLast(<<SwapBytes(d)>>) /\ got' = <<>> /\ d \in Seq(Byte)
        /\ Len(d) <= writableBytes(b)
    BY <1>3, <1>10 DEF HasWritten
  <2>2. b' \in Buffers /\ Placed(b') /\ Readable(b') = R \o d
    BY <1>1, <2>1, HasWrittenProperties
  <2>3. fields' \in Seq(Strings) /\ tracked' \in BOOLEAN
    BY <1>1, <2>1, NewFields, HistoryType
  <2>4. QED
    BY <2>1, <2>2, <2>3, <1>3, <1>4, <1>5, <1>6
<1>11. ASSUME NEW d \in Chunks, Prepend(d) PROVE G
  <2>1. /\ b' = prepend(b, d) /\ AddFirst(<<SwapBytes(d)>>) /\ got' = <<>>
        /\ d \in Seq(Byte) /\ Len(d) <= b.reader
    BY <1>3, <1>11 DEF Prepend
  <2>2. b' \in Buffers /\ Placed(b') /\ Readable(b') = d \o R
    BY <1>1, <2>1, PrependIsPush
  <2>3. fields' \in Seq(Strings) /\ tracked' \in BOOLEAN
    BY <1>1, <2>1, NewFields, HistoryType
  <2>4. QED
    BY <2>1, <2>2, <2>3, <1>3, <1>4, <1>5, <1>6
<1>12. ASSUME NEW len \in Nat, EnsureWritableBytes(len) PROVE G
  <2>1. b' = ensureWritableBytes(b, len) /\ UNCHANGED <<got, fields, tracked>>
    BY <1>12 DEF EnsureWritableBytes
  <2>2. b' \in Buffers /\ Placed(b') /\ Readable(b') = R
    BY <1>1, <2>1, EnsureWritableProperties
  <2>3. QED
    BY <2>1, <2>2, <1>1, <1>5, <1>8
<1>13. ASSUME NEW len \in Nat, Unwrite(len) PROVE G
  <2>1. b' = unwrite(b, len) /\ Forget /\ got' = <<>> /\ len <= readableBytes(b)
    BY <1>13 DEF Unwrite
  <2>2. b' \in Buffers /\ Placed(b') /\ Readable(b') = SubSeq(R, 1, Len(R) - len)
    BY <1>1, <2>1, UnwriteIsWithdraw
  <2>3. fields' \in Seq(Strings) /\ tracked' \in BOOLEAN
    BY <1>1, <2>1, HistoryType
  <2>4. QED
    BY <2>1, <2>2, <2>3, <1>3, <1>5, <1>7
<1>14. ASSUME NEW len \in Nat, Retrieve(len) PROVE G
  <2>1. b' = retrieve(b, len) /\ TakeFirst(len) /\ got' = <<>> /\ len <= readableBytes(b)
    BY <1>14 DEF Retrieve
  <2>2. b' \in Buffers /\ Placed(b') /\ Readable(b') = SubSeq(R, len + 1, Len(R))
    BY <1>1, <2>1, RetrieveIsDrop
  <2>3. fields' \in Seq(Strings) /\ tracked' \in BOOLEAN
    BY <1>1, <2>1, HistoryType
  <2>4. QED
    BY <2>1, <2>2, <2>3, <1>3, <1>5, <1>7
<1>15. ASSUME NEW w \in Nat, w <= readableBytes(b)
       PROVE  /\ SubSeq(b.buffer, b.reader + 1, b.reader + w) = SubSeq(R, 1, w)
              /\ SubSeq(R, 1, w) \in Seq(Byte) /\ Len(SubSeq(R, 1, w)) = w
  <2>1. 0 <= w /\ w <= b.writer - b.reader /\ b.reader + 0 = b.reader /\ 0 + 1 = 1 /\ w - 0 = w
        /\ 0 \in Nat
    BY <1>1, <1>15 DEF readableBytes, Buffers
  <2>2. /\ SubSeq(R, 0 + 1, w) = SubSeq(b.buffer, (b.reader + 0) + 1, b.reader + w)
        /\ SubSeq(R, 0 + 1, w) \in Seq(Byte) /\ Len(SubSeq(R, 0 + 1, w)) = w - 0
    BY <1>1, <2>1, SliceOfContent
  <2>3. QED
    BY <2>1, <2>2
<1>16. ASSUME NEW len \in Nat, RetrieveAsString(len) PROVE G
  <2>1. /\ b' = retrieve(b, len) /\ TakeFirst(len) /\ len <= readableBytes(b)
        /\ got' = SubSeq(b.buffer, b.reader + 1, b.reader + len)
    BY <1>16 DEF RetrieveAsString
  <2>2. b' \in Buffers /\ Placed(b') /\ Readable(b') = SubSeq(R, len + 1, Len(R))
    BY <1>1, <2>1, RetrieveIsDrop
  <2>3. got' = SubSeq(R, 1, len) /\ got' \in Seq(Byte)
    BY <2>1, <1>15
  <2>4. Stream!Take(len)
    BY <2>2, <2>3 DEF Stream!Take, Readable
  <2>a. len \in 0..Len(R)
    BY <2>1, <1>2
  <2>5. Stream!Next
    BY <2>4, <2>a DEF Stream!Next
  <2>6. fields' \in Seq(Strings) /\ tracked' \in BOOLEAN
    BY <1>1, <2>1, HistoryType
  <2>7. QED
    BY <2>2, <2>3, <2>5, <2>6, <1>5
<1>17. ASSUME NEW p \in Patterns, RetrieveUntil(p) PROVE G
  <2>1. PICK end \in FindEnd(b, p) :
          b' = retrieve(b, end - b.reader) /\ TakeFirst(end - b.reader) /\ got' = <<>>
    BY <1>17 DEF RetrieveUntil
  <2>2. Len(p) \in Nat /\ b.reader \in Nat /\ b.writer \in Nat
    BY <1>1 DEF Patterns, Buffers
  <2>3. PICK k \in b.reader..(b.writer - Len(p)) : end = k + Len(p)
    BY <2>1 DEF FindEnd, Matches
  <2> DEFINE n == end - b.reader
  <2>4. n \in Nat /\ n <= readableBytes(b)
    BY <2>2, <2>3 DEF readableBytes
  <2>5. b' = retrieve(b, n) /\ TakeFirst(n)
    BY <2>1
  <2> HIDE DEF n
  <2>6. b' \in Buffers /\ Placed(b') /\ Readable(b') = SubSeq(R, n + 1, Len(R))
    BY <1>1, <2>4, <2>5, RetrieveIsDrop
  <2>7. fields' \in Seq(Strings) /\ tracked' \in BOOLEAN
    BY <1>1, <2>4, <2>5, HistoryType
  <2>8. QED
    BY <2>1, <2>4, <2>6, <2>7, <1>3, <1>5, <1>7
<1>18. ASSUME NEW len \in Nat, Shrink(len) PROVE G
  <2>1. b' = shrink(b, len) /\ UNCHANGED <<got, fields, tracked>>
    BY <1>18 DEF Shrink
  <2>2. b' \in Buffers /\ Placed(b') /\ Readable(b') = R
    BY <1>1, <2>1, ShrinkKeepsContent
  <2>3. QED
    BY <2>1, <2>2, <1>1, <1>5, <1>8
<1>19. ASSUME NEW x \in Ints, NEW v \in BOOLEAN, AppendInt(x, v) PROVE G
  <2>1. b' = appendInt(b, x, v) /\ got' = <<>>
        /\ AddLast(IF v THEN <<SwapBytes(x), x>> ELSE <<x>>)
    BY <1>19 DEF AppendInt
  <2>2. AddLast(<<SwapBytes(x), x>>) \/ AddLast(<<x>>)
    BY <2>1
  <2>3. fields' \in Seq(Strings) /\ tracked' \in BOOLEAN
    BY <1>1, <2>2, BufferAssumption, NewFields, HistoryType
  <2>4. /\ b' \in Buffers /\ Placed(b')
        /\ \E d \in Wire : Readable(b') = R \o d
    BY <1>1, <2>1, AppendIntIsPut
  <2>5. QED
    BY <2>1, <2>3, <2>4, <1>3, <1>5, <1>6
<1>20. ASSUME NEW x \in Ints, NEW v \in BOOLEAN, PrependInt(x, v) PROVE G
  <2>1. b' = prependInt(b, x, v) /\ got' = <<>>
        /\ AddFirst(IF v THEN <<x, SwapBytes(x)>> ELSE <<x>>)
        /\ Written(x, v) <= b.reader
    BY <1>20 DEF PrependInt
  <2>2. AddFirst(<<x, SwapBytes(x)>>) \/ AddFirst(<<x>>)
    BY <2>1
  <2>3. fields' \in Seq(Strings) /\ tracked' \in BOOLEAN
    BY <1>1, <2>2, BufferAssumption, NewFields, HistoryType
  <2>4. /\ b' \in Buffers /\ Placed(b')
        /\ \E d \in Wire : Readable(b') = d \o R
    BY <1>1, <2>1, PrependIntIsPush
  <2>5. QED
    BY <2>1, <2>3, <2>4, <1>3, <1>5, <1>6
<1>21. ASSUME NEW w \in Widths, NEW v \in BOOLEAN, ReadInt(w, v) PROVE G
  <2>1. PICK x \in Ints : w = Len(x)
    BY DEF Widths
  <2>2. w \in Nat
    BY <2>1, BufferAssumption, LenProperties
  <2>3. /\ b' = retrieve(b, w) /\ w <= readableBytes(b) /\ got' = peekInt(b, w, v)
        /\ TakeFirst(w)
    BY <1>21 DEF ReadInt
  <2>4. b' \in Buffers /\ Placed(b') /\ Readable(b') = SubSeq(R, w + 1, Len(R))
    BY <1>1, <2>2, <2>3, RetrieveIsDrop
  <2>5. fields' \in Seq(Strings) /\ tracked' \in BOOLEAN
    BY <1>1, <2>2, <2>3, HistoryType
  <2> DEFINE q == SubSeq(R, 1, w)
  <2>6. q \in Seq(Byte) /\ Len(q) = w /\ SwapBytes(q) \in Seq(Byte)
    BY <2>2, <2>3, <1>15, SwapBytesType
  <2>7. got' = IF v THEN q ELSE SwapBytes(q)
    BY <2>2, <2>3, <1>15 DEF peekInt
  <2>8. SwapBytes(q) = [i \in 1..w |-> R[w + 1 - i]]
    <3>1. /\ R \in Seq(Byte) /\ w <= Len(R) /\ \A i \in 1..w : w + 1 - i \in 1..w
      BY <1>2, <2>2, <2>3
    <3>2. \A i \in 1..w : q[i] = R[i]
      <4>1. 0 \in Nat /\ 0 <= w /\ w - 0 = w /\ 0 + 1 = 1 /\ \A i \in 1..w : 0 + i = i
        BY <2>2
      <4>2. \A i \in 1..(w - 0) : SubSeq(R, 0 + 1, w)[i] = R[0 + i]
        BY <2>2, <3>1, <4>1, SliceProperties
      <4>3. QED
        BY <4>1, <4>2
    <3> HIDE DEF q, R
    <3>3. SwapBytes(q) = [i \in 1..w |-> q[w + 1 - i]]
      BY <2>6 DEF SwapBytes
    <3>4. QED
      BY <3>1, <3>2, <3>3
  <2>9. w \in 0..Len(R)
    BY <1>2, <2>2, <2>3
  <2>10. Stream!Take(w) \/ Stream!Decode(w)
    <3>1. CASE v
      BY <3>1, <2>4, <2>7 DEF Stream!Take, Readable
    <3>2. CASE ~v
      BY <3>2, <2>4, <2>7, <2>8 DEF Stream!Decode, Readable
    <3>3. QED
      BY <3>1, <3>2
  <2>11. Stream!Next
    BY <2>9, <2>10 DEF Stream!Next
  <2>12. got' \in Seq(Byte)
    BY <2>6, <2>7
  <2>13. QED
    BY <2>4, <2>5, <2>11, <2>12, <1>5
<1>22. MaxSize \in Nat
  BY BufferAssumption
<1>23. \A len \in 0..MaxSize : len \in Nat
  BY <1>22
<1>24. \A len \in 1..MaxSize : len \in Nat
  BY <1>22
<1> HIDE DEF G
<1>25. G
  BY <1>9, <1>10, <1>11, <1>12, <1>13, <1>14, <1>16, <1>17, <1>18, <1>19, <1>20, <1>21,
     <1>23, <1>24 DEF Next
<1>26. QED
  BY <1>25 DEF G

\* The inductive invariant holds initially, and the new buffer is the empty
\* stream.
LEMMA Start == Init => IInv /\ Stream!Init
<1> SUFFICES ASSUME Init PROVE IInv /\ Stream!Init
  OBVIOUS
<1>1. kInitialSize \in Nat /\ <<>> \in Seq(Byte) /\ <<>> \in Seq(Strings)
  BY BufferAssumption, EmptySeq
<1>2. b \in Buffers /\ Placed(b) /\ Readable(b) = <<>>
  BY <1>1, ConstructProperties DEF Init
<1>3. QED
  BY <1>1, <1>2 DEF Init, IInv, TypeOK, Stream!Init

\* The inductive invariant holds always.
THEOREM InductiveInvariant == Spec => []IInv
<1>1. Init => IInv
  BY Start
<1>2. IInv /\ [Next]_vars => IInv'
  <2>1. ASSUME IInv, UNCHANGED vars PROVE IInv'
    BY <2>1 DEF IInv, TypeOK, Placed, vars
  <2>2. QED
    BY <2>1, Step
<1>3. QED
  BY <1>1, <1>2, PTL DEF Spec

\* The variables of a buffer always have their types.
THEOREM TypeCorrect == Spec => []TypeOK
<1>1. IInv => TypeOK
  BY DEF IInv
<1>2. QED
  BY <1>1, InductiveInvariant, PTL

\* No sequence of calls moves an index out of its place: the diagram of the
\* class comment holds for every kCheapPrepend, kInitialSize and every data.
THEOREM LayoutAlways == Spec => []Layout
<1>1. IInv => Layout
  BY DEF IInv, Placed, Layout
<1>2. QED
  BY <1>1, InductiveInvariant, PTL

\* The assertions in makeSpace and ensureWritableBytes never fail, whatever
\* length is asked for.
THEOREM AssertionsAlways == Spec => []AssertionsHold
<1>1. ASSUME IInv PROVE AssertionsHold
  <2>1. b \in Buffers /\ Placed(b)
    BY <1>1 DEF IInv, TypeOK
  <2>2. ASSUME NEW len \in 1..MaxSize
        PROVE  /\ writableBytes(b) < len /\ ~Grows(b, len) => kCheapPrepend < b.reader
               /\ writableBytes(ensureWritableBytes(b, len)) >= len
    <3>1. len \in Nat
      BY BufferAssumption
    <3>2. QED
      BY <2>1, <3>1, MakeSpaceProperties, EnsureWritableProperties
  <2>3. QED
    BY <2>2 DEF AssertionsHold
<1>2. QED
  BY <1>1, InductiveInvariant, PTL

\* A buffer implements a string of bytes, for every kCheapPrepend,
\* kInitialSize and every data: no call loses, repeats or reorders a byte.
THEOREM Refinement == Spec => ImplementsStream
<1>1. Init => Stream!Init
  BY Start
<1>2. IInv /\ [Next]_vars => [Stream!Next]_(Stream!vars)
  <2>1. ASSUME UNCHANGED vars PROVE UNCHANGED Stream!vars
    BY <2>1 DEF vars, Stream!vars, Readable
  <2>2. QED
    BY <2>1, Step
<1>3. QED
  BY <1>1, <1>2, InductiveInvariant, PTL DEF Spec, ImplementsStream, Stream!Spec

-----------------------------------------------------------------------------
\* A set of naturals that is not empty has a least element.
LEMMA LeastNat ==
  ASSUME NEW T \in SUBSET Nat, T # {}
  PROVE  \E x \in T : \A y \in T : x <= y
<1> DEFINE R == OpToRel(<, Nat)
<1>1. IsWellFoundedOn(R, Nat)
  BY NatLessThanWellFounded
<1> HIDE DEF R
<1>2. PICK x \in T : \A y \in T : ~(<<y, x>> \in R)
  BY <1>1, WFMin
<1>3. ASSUME NEW y \in T, y < x PROVE FALSE
  <2>1. y \in Nat /\ x \in Nat
    OBVIOUS
  <2>2. <<y, x>> \in R
    BY <2>1, <1>3 DEF R, OpToRel
  <2> QED BY <2>2, <1>2
<1> QED BY <1>3

\* Field x lies at offset o of R in network order.
FieldAt(R, o, x) ==
  o + Len(x) <= Len(R) /\ \A k \in 1..Len(x) : R[o + k] = SwapBytes(x)[k]

\* R is made of the fields F, one behind the other: field i is at off[i].
Packed(R, F) ==
  \E off \in [1..(Len(F) + 1) -> 0..Len(R)] :
    /\ off[1] = 0 /\ off[Len(F) + 1] = Len(R)
    /\ \A i \in 1..Len(F) : off[i + 1] = off[i] + Len(F[i]) /\ FieldAt(R, off[i], F[i])

\* As long as no field has been cut, the content is the fields.
FieldsInv == tracked => Packed(Readable(b), fields)

\* The elements of a sequence of fields are byte strings, also in network
\* order.
LEMMA FieldType ==
  ASSUME NEW F \in Seq(Strings)
  PROVE  /\ Len(F) \in Nat
         /\ \A i \in 1..Len(F) :
              /\ F[i] \in Strings /\ F[i] \in Seq(Byte) /\ Len(F[i]) \in Nat
              /\ SwapBytes(F[i]) \in Seq(Byte) /\ Len(SwapBytes(F[i])) = Len(F[i])
<1>1. Len(F) \in Nat /\ \A i \in 1..Len(F) : F[i] \in Strings
  BY LenProperties, ElementOfSeq
<1>2. \A i \in 1..Len(F) : F[i] \in Seq(Byte)
  BY <1>1 DEF Strings
<1>3. QED
  BY <1>1, <1>2, LenProperties, SwapBytesType

\* An empty content holds no field.
LEMMA PackedEmpty == Packed(<<>>, <<>>)
<1> DEFINE off == [i \in 1..1 |-> 0]
<1>1. Len(<<>>) = 0 /\ 1..(0 + 1) = 1..1 /\ 1..0 = {}
  OBVIOUS
<1>2. off \in [1..1 -> 0..0] /\ off[1] = 0 /\ 0 + 1 = 1
  OBVIOUS
<1> HIDE DEF off
<1>3. \E g \in [1..(0 + 1) -> 0..0] :
        /\ g[1] = 0 /\ g[0 + 1] = 0
        /\ \A i \in 1..0 : g[i + 1] = g[i] + Len(<<>>[i]) /\ FieldAt(<<>>, g[i], <<>>[i])
  BY <1>1, <1>2
<1>4. QED
  BY <1>1, <1>3 DEF Packed

\* The facts of a packing that the provers need.
LEMMA PackedFacts ==
  ASSUME NEW R \in Seq(Byte), NEW F \in Seq(Strings), Packed(R, F)
  PROVE  \E off \in [1..(Len(F) + 1) -> 0..Len(R)] :
           /\ off[1] = 0 /\ off[Len(F) + 1] = Len(R)
           /\ \A i \in 1..(Len(F) + 1) : off[i] \in Nat /\ off[i] <= Len(R)
           /\ \A i \in 1..Len(F) :
                /\ i \in 1..(Len(F) + 1) /\ i + 1 \in 1..(Len(F) + 1)
                /\ off[i + 1] = off[i] + Len(F[i]) /\ FieldAt(R, off[i], F[i])
<1>1. Len(F) \in Nat /\ Len(R) \in Nat
  BY LenProperties
<1>2. PICK off \in [1..(Len(F) + 1) -> 0..Len(R)] :
        /\ off[1] = 0 /\ off[Len(F) + 1] = Len(R)
        /\ \A i \in 1..Len(F) : off[i + 1] = off[i] + Len(F[i]) /\ FieldAt(R, off[i], F[i])
  BY DEF Packed
<1>3. \A i \in 1..(Len(F) + 1) : off[i] \in Nat /\ off[i] <= Len(R)
  BY <1>1, <1>2
<1>4. \A i \in 1..Len(F) : i \in 1..(Len(F) + 1) /\ i + 1 \in 1..(Len(F) + 1)
  BY <1>1
<1>5. QED
  BY <1>2, <1>3, <1>4

\* A field of the content stays one when bytes are put behind or in front.
LEMMA FieldAtKept ==
  ASSUME NEW R \in Seq(Byte), NEW d \in Seq(Byte), NEW x \in Seq(Byte), NEW o \in Nat,
         FieldAt(R, o, x)
  PROVE  FieldAt(R \o d, o, x) /\ FieldAt(d \o R, Len(d) + o, x)
<1>1. Len(R) \in Nat /\ Len(d) \in Nat /\ Len(x) \in Nat
  BY LenProperties
<1>2. /\ Len(R \o d) = Len(R) + Len(d)
      /\ \A i \in 1..(Len(R) + Len(d)) : (R \o d)[i] = IF i <= Len(R) THEN R[i] ELSE d[i - Len(R)]
  BY ConcatProperties
<1>3. /\ Len(d \o R) = Len(d) + Len(R)
      /\ \A i \in 1..(Len(d) + Len(R)) : (d \o R)[i] = IF i <= Len(d) THEN d[i] ELSE R[i - Len(d)]
  BY ConcatProperties
<1>4. o + Len(x) <= Len(R) /\ \A k \in 1..Len(x) : R[o + k] = SwapBytes(x)[k]
  BY DEF FieldAt
<1>5. ASSUME NEW k \in 1..Len(x)
      PROVE  (R \o d)[o + k] = SwapBytes(x)[k] /\ (d \o R)[(Len(d) + o) + k] = SwapBytes(x)[k]
  <2>1. /\ o + k \in 1..(Len(R) + Len(d)) /\ o + k <= Len(R)
        /\ (Len(d) + o) + k \in 1..(Len(d) + Len(R)) /\ ~((Len(d) + o) + k <= Len(d))
        /\ ((Len(d) + o) + k) - Len(d) = o + k
    BY <1>1, <1>4
  <2>2. (R \o d)[o + k] = R[o + k]
    BY <2>1, <1>2
  <2>3. (d \o R)[(Len(d) + o) + k] = R[o + k]
    BY <2>1, <1>3
  <2>4. QED
    BY <2>2, <2>3, <1>4
<1>6. o + Len(x) <= Len(R \o d) /\ (Len(d) + o) + Len(x) <= Len(d \o R)
  BY <1>1, <1>2, <1>3, <1>4
<1>7. QED
  BY <1>5, <1>6 DEF FieldAt

\* A field written behind or in front of the content lies there.
LEMMA FieldAtNew ==
  ASSUME NEW R \in Seq(Byte), NEW x \in Seq(Byte)
  PROVE  /\ FieldAt(R \o SwapBytes(x), Len(R), x)
         /\ FieldAt(SwapBytes(x) \o R, 0, x)
         /\ Len(R \o SwapBytes(x)) = Len(R) + Len(x)
         /\ Len(SwapBytes(x) \o R) = Len(x) + Len(R)
<1> DEFINE d == SwapBytes(x)
<1>1. Len(R) \in Nat /\ Len(x) \in Nat /\ d \in Seq(Byte) /\ Len(d) = Len(x)
  BY LenProperties, SwapBytesType
<1> HIDE DEF d
<1>2. /\ Len(R \o d) = Len(R) + Len(d)
      /\ \A i \in 1..(Len(R) + Len(d)) : (R \o d)[i] = IF i <= Len(R) THEN R[i] ELSE d[i - Len(R)]
  BY <1>1, ConcatProperties
<1>3. /\ Len(d \o R) = Len(d) + Len(R)
      /\ \A i \in 1..(Len(d) + Len(R)) : (d \o R)[i] = IF i <= Len(d) THEN d[i] ELSE R[i - Len(d)]
  BY <1>1, ConcatProperties
<1>4. ASSUME NEW k \in 1..Len(x)
      PROVE  (R \o d)[Len(R) + k] = d[k] /\ (d \o R)[0 + k] = d[k]
  <2>1. /\ Len(R) + k \in 1..(Len(R) + Len(d)) /\ ~(Len(R) + k <= Len(R))
        /\ (Len(R) + k) - Len(R) = k
        /\ 0 + k = k /\ k \in 1..(Len(d) + Len(R)) /\ k <= Len(d)
    BY <1>1
  <2>2. (R \o d)[Len(R) + k] = d[k]
    BY <2>1, <1>2
  <2>3. (d \o R)[0 + k] = d[k]
    BY <2>1, <1>3
  <2>4. QED
    BY <2>2, <2>3
<1>5. Len(R) + Len(x) <= Len(R \o d) /\ 0 + Len(x) <= Len(d \o R)
  BY <1>1, <1>2, <1>3
<1>6. FieldAt(R \o d, Len(R), x) /\ FieldAt(d \o R, 0, x)
  BY <1>4, <1>5 DEF FieldAt, d
<1>7. QED
  BY <1>1, <1>2, <1>3, <1>6 DEF d

\* What is appended becomes the last field.
LEMMA PackedAppend ==
  ASSUME NEW R \in Seq(Byte), NEW F \in Seq(Strings), NEW x \in Strings, Packed(R, F)
  PROVE  Packed(R \o SwapBytes(x), F \o <<x>>)
<1> DEFINE n == Len(F)
           Q == R \o SwapBytes(x)
           G == F \o <<x>>
<1>1. /\ n \in Nat /\ Len(R) \in Nat /\ x \in Seq(Byte) /\ Len(x) \in Nat
      /\ SwapBytes(x) \in Seq(Byte)
      /\ \A i \in 1..n : Len(F[i]) \in Nat /\ F[i] \in Seq(Byte)
  BY FieldType, LenProperties, SwapBytesType DEF Strings
<1>2. /\ Len(G) = n + 1 /\ G[n + 1] = x
      /\ \A i \in 1..n : G[i] = F[i]
  <2>1. <<x>> \in Seq(Strings) /\ Len(<<x>>) = 1 /\ <<x>>[1] = x
    OBVIOUS
  <2>2. /\ Len(G) = n + 1
        /\ \A i \in 1..(n + 1) : G[i] = IF i <= n THEN F[i] ELSE <<x>>[i - n]
    BY <2>1, ConcatProperties
  <2>3. \A i \in 1..n : i \in 1..(n + 1) /\ i <= n
    BY <1>1
  <2>4. n + 1 \in 1..(n + 1) /\ ~(n + 1 <= n) /\ (n + 1) - n = 1
    BY <1>1
  <2> HIDE DEF G
  <2>5. QED
    BY <2>1, <2>2, <2>3, <2>4
<1>3. Len(Q) = Len(R) + Len(x) /\ FieldAt(Q, Len(R), x)
  BY <1>1, FieldAtNew
<1>4. PICK off \in [1..(n + 1) -> 0..Len(R)] :
        /\ off[1] = 0 /\ off[n + 1] = Len(R)
        /\ \A i \in 1..(n + 1) : off[i] \in Nat /\ off[i] <= Len(R)
        /\ \A i \in 1..n :
             /\ i \in 1..(n + 1) /\ i + 1 \in 1..(n + 1)
             /\ off[i + 1] = off[i] + Len(F[i]) /\ FieldAt(R, off[i], F[i])
  BY PackedFacts
<1>5. \A i \in 1..n : FieldAt(Q, off[i], F[i])
  BY <1>1, <1>4, FieldAtKept
<1> DEFINE to == [i \in 1..(n + 2) |-> IF i <= n + 1 THEN off[i] ELSE Len(Q)]
<1> HIDE DEF Q, G, n
<1>6. /\ to \in [1..(n + 2) -> 0..Len(Q)]
      /\ \A i \in 1..(n + 1) : to[i] = off[i]
      /\ to[n + 2] = Len(Q)
  <2>1. \A i \in 1..(n + 2) : (IF i <= n + 1 THEN off[i] ELSE Len(Q)) \in 0..Len(Q)
    BY <1>1, <1>3, <1>4
  <2>2. 1..(n + 1) \subseteq 1..(n + 2) /\ n + 2 \in 1..(n + 2) /\ ~(n + 2 <= n + 1)
        /\ \A i \in 1..(n + 1) : i <= n + 1
    BY <1>1
  <2>3. QED
    BY <2>1, <2>2
<1> HIDE DEF to
<1>7. /\ to \in [1..(Len(G) + 1) -> 0..Len(Q)] /\ to[1] = 0 /\ to[Len(G) + 1] = Len(Q)
  <2>1. Len(G) + 1 = n + 2 /\ 1 \in 1..(n + 1)
    BY <1>1, <1>2
  <2>2. QED
    BY <2>1, <1>4, <1>6
<1>8. ASSUME NEW i \in 1..Len(G)
      PROVE  to[i + 1] = to[i] + Len(G[i]) /\ FieldAt(Q, to[i], G[i])
  <2>1. CASE i = n + 1
    <3>1. i \in 1..(n + 1) /\ i + 1 = n + 2
      BY <1>1, <2>1
    <3>2. to[i] = Len(R) /\ to[i + 1] = Len(R) + Len(x) /\ G[i] = x
      BY <3>1, <2>1, <1>2, <1>3, <1>4, <1>6
    <3>3. QED
      BY <3>2, <1>3
  <2>2. CASE i \in 1..n
    <3>1. G[i] = F[i] /\ to[i] = off[i] /\ to[i + 1] = off[i + 1]
      BY <1>2, <1>4, <1>6, <2>2
    <3>2. QED
      BY <3>1, <1>4, <1>5, <2>2
  <2>3. QED
    BY <2>1, <2>2, <1>1, <1>2
<1>9. Packed(Q, G)
  BY <1>7, <1>8 DEF Packed
<1>10. QED
  BY <1>9 DEF Q, G

\* What is prepended becomes the first field.
LEMMA PackedPrepend ==
  ASSUME NEW R \in Seq(Byte), NEW F \in Seq(Strings), NEW x \in Strings, Packed(R, F)
  PROVE  Packed(SwapBytes(x) \o R, <<x>> \o F)
<1> DEFINE n == Len(F)
           Q == SwapBytes(x) \o R
           G == <<x>> \o F
           l == Len(x)
<1>1. /\ n \in Nat /\ Len(R) \in Nat /\ x \in Seq(Byte) /\ l \in Nat
      /\ SwapBytes(x) \in Seq(Byte) /\ Len(SwapBytes(x)) = l
      /\ \A i \in 1..n : Len(F[i]) \in Nat /\ F[i] \in Seq(Byte)
  BY FieldType, LenProperties, SwapBytesType DEF Strings
<1>2. Len(G) = n + 1 /\ G[1] = x /\ \A i \in 1..n : G[i + 1] = F[i]
  <2>1. <<x>> \in Seq(Strings) /\ Len(<<x>>) = 1 /\ <<x>>[1] = x
    OBVIOUS
  <2>2. /\ Len(G) = 1 + n
        /\ \A i \in 1..(1 + n) : G[i] = IF i <= 1 THEN <<x>>[i] ELSE F[i - 1]
    BY <2>1, ConcatProperties
  <2>3. \A i \in 1..n : i + 1 \in 1..(1 + n) /\ ~(i + 1 <= 1) /\ (i + 1) - 1 = i
    BY <1>1
  <2>4. 1 \in 1..(1 + n) /\ 1 + n = n + 1
    BY <1>1
  <2> HIDE DEF G
  <2>5. QED
    BY <2>1, <2>2, <2>3, <2>4
<1>3. Len(Q) = l + Len(R) /\ FieldAt(Q, 0, x)
  BY <1>1, FieldAtNew
<1>4. PICK off \in [1..(n + 1) -> 0..Len(R)] :
        /\ off[1] = 0 /\ off[n + 1] = Len(R)
        /\ \A i \in 1..(n + 1) : off[i] \in Nat /\ off[i] <= Len(R)
        /\ \A i \in 1..n :
             /\ i \in 1..(n + 1) /\ i + 1 \in 1..(n + 1)
             /\ off[i + 1] = off[i] + Len(F[i]) /\ FieldAt(R, off[i], F[i])
  BY PackedFacts
<1>5. \A i \in 1..n : FieldAt(Q, l + off[i], F[i])
  <2>1. ASSUME NEW i \in 1..n PROVE FieldAt(Q, Len(SwapBytes(x)) + off[i], F[i])
    BY <1>1, <1>4, FieldAtKept
  <2>2. QED
    BY <2>1, <1>1
<1> DEFINE to == [i \in 1..(n + 2) |-> IF i = 1 THEN 0 ELSE l + off[i - 1]]
<1> HIDE DEF Q, G, n, l
<1>6. /\ to \in [1..(n + 2) -> 0..Len(Q)] /\ to[1] = 0
      /\ \A i \in 1..(n + 1) : to[i + 1] = l + off[i]
  <2>1. \A i \in 1..(n + 2) : i = 1 \/ i - 1 \in 1..(n + 1)
    BY <1>1
  <2>2. \A i \in 1..(n + 2) : (IF i = 1 THEN 0 ELSE l + off[i - 1]) \in 0..Len(Q)
    BY <2>1, <1>1, <1>3, <1>4
  <2>3. /\ 1 \in 1..(n + 2)
        /\ \A i \in 1..(n + 1) : i + 1 \in 1..(n + 2) /\ i + 1 # 1 /\ (i + 1) - 1 = i
    BY <1>1
  <2>4. QED
    BY <2>2, <2>3
<1> HIDE DEF to
<1>7. /\ to \in [1..(Len(G) + 1) -> 0..Len(Q)] /\ to[1] = 0 /\ to[Len(G) + 1] = Len(Q)
  <2>1. Len(G) + 1 = n + 2 /\ n + 1 \in 1..(n + 1) /\ (n + 1) + 1 = n + 2
    BY <1>1, <1>2
  <2>2. QED
    BY <2>1, <1>3, <1>4, <1>6
<1>8. ASSUME NEW i \in 1..Len(G)
      PROVE  to[i + 1] = to[i] + Len(G[i]) /\ FieldAt(Q, to[i], G[i])
  <2>1. CASE i = 1
    <3>1. 1 \in 1..(n + 1)
      BY <1>1
    <3>2. to[i] = 0 /\ to[i + 1] = l + 0 /\ G[i] = x
      BY <3>1, <2>1, <1>2, <1>4, <1>6
    <3>3. QED
      BY <3>2, <1>1, <1>3 DEF l
  <2>2. CASE i # 1
    <3>1. PICK j \in 1..n : i = j + 1
      <4>1. i - 1 \in 1..n /\ i = (i - 1) + 1
        BY <1>1, <1>2, <2>2
      <4>2. QED
        BY <4>1
    <3>2. /\ G[i] = F[j] /\ to[i] = l + off[j] /\ to[i + 1] = l + off[j + 1]
          /\ off[j] \in Nat /\ off[j + 1] = off[j] + Len(F[j]) /\ Len(F[j]) \in Nat
      BY <3>1, <1>1, <1>2, <1>4, <1>6
    <3>3. l + (off[j] + Len(F[j])) = (l + off[j]) + Len(F[j])
      <4>1. \A p, q, r \in Nat : p + (q + r) = (p + q) + r
        OBVIOUS
      <4>2. QED
        BY <4>1, <3>2, <1>1
    <3>4. QED
      BY <3>1, <3>2, <3>3, <1>5
  <2>3. QED
    BY <2>1, <2>2
<1>9. Packed(Q, G)
  BY <1>7, <1>8 DEF Packed
<1>10. QED
  BY <1>9 DEF Q, G

\* Converting twice gives the integer back.
LEMMA SwapTwice ==
  ASSUME NEW x \in Seq(Byte)
  PROVE  SwapBytes(SwapBytes(x)) = x
<1> DEFINE y == SwapBytes(x)
           z == SwapBytes(y)
<1>1. /\ Len(x) \in Nat /\ y \in Seq(Byte) /\ Len(y) = Len(x)
      /\ z \in Seq(Byte) /\ Len(z) = Len(x)
  BY LenProperties, SwapBytesType
<1>2. ASSUME NEW i \in 1..Len(x) PROVE z[i] = x[i]
  <2>1. /\ Len(x) + 1 - i \in 1..Len(x)
        /\ Len(x) + 1 - (Len(x) + 1 - i) = i
    BY <1>1
  <2>2. z[i] = y[Len(y) + 1 - i]
    BY <1>1 DEF SwapBytes
  <2>3. y[Len(x) + 1 - i] = x[Len(x) + 1 - (Len(x) + 1 - i)]
    BY <2>1 DEF SwapBytes
  <2>4. QED
    BY <2>1, <2>2, <2>3, <1>1
<1> HIDE DEF z
<1>3. z = x
  BY <1>1, <1>2, SeqEqual
<1>4. QED
  BY <1>3 DEF z

\* The first field lies at the front.
LEMMA PackedHead ==
  ASSUME NEW R \in Seq(Byte), NEW F \in Seq(Strings), Packed(R, F), F # <<>>
  PROVE  /\ Len(Head(F)) \in Nat /\ Len(Head(F)) <= Len(R)
         /\ SubSeq(R, 1, Len(Head(F))) = SwapBytes(Head(F))
<1> DEFINE x == F[1]
           l == Len(x)
           q == SubSeq(R, 0 + 1, l)
<1>1. Len(F) \in Nat /\ 1 \in 1..Len(F) /\ Head(F) = x
  <2>1. Len(F) \in Nat /\ Len(F) # 0 /\ Head(F) = F[1]
    BY LenProperties, EmptySeq, HeadTailProperties
  <2>2. QED
    BY <2>1
<1>2. /\ x \in Seq(Byte) /\ l \in Nat /\ SwapBytes(x) \in Seq(Byte)
      /\ Len(SwapBytes(x)) = l /\ Len(R) \in Nat
  BY <1>1, FieldType, LenProperties
<1>3. FieldAt(R, 0, x)
  <2>1. PICK off \in [1..(Len(F) + 1) -> 0..Len(R)] :
          off[1] = 0 /\ \A i \in 1..Len(F) : FieldAt(R, off[i], F[i])
    BY PackedFacts
  <2>2. QED
    BY <2>1, <1>1
<1>4. l <= Len(R) /\ \A k \in 1..l : R[k] = SwapBytes(x)[k]
  <2>1. 0 + l <= Len(R) /\ \A k \in 1..l : R[0 + k] = SwapBytes(x)[k]
    BY <1>3 DEF FieldAt
  <2>2. \A k \in 1..l : 0 + k = k
    BY <1>2
  <2>3. QED
    BY <2>1, <2>2, <1>2
<1> HIDE DEF l
<1>5. /\ q \in Seq(Byte) /\ Len(q) = l /\ \A i \in 1..l : q[i] = R[i]
  <2>1. 0 \in Nat /\ 0 <= l /\ l - 0 = l /\ \A i \in 1..l : 0 + i = i
    BY <1>2
  <2>2. /\ q \in Seq(Byte) /\ Len(q) = l - 0
        /\ \A i \in 1..(l - 0) : q[i] = R[0 + i]
    BY <2>1, <1>2, <1>4, SliceProperties
  <2> HIDE DEF q
  <2>3. QED
    BY <2>1, <2>2
<1> HIDE DEF q
<1>6. q = SwapBytes(x)
  <2>1. \A i \in 1..Len(q) : q[i] = SwapBytes(x)[i]
    BY <1>4, <1>5
  <2> HIDE DEF x
  <2>2. QED
    BY <2>1, <1>2, <1>5, SeqEqual
<1>7. QED
  BY <1>1, <1>2, <1>4, <1>6 DEF q, l

\* What is left when l bytes are taken off the front.
LEMMA DropProperties ==
  ASSUME NEW R \in Seq(Byte), NEW l \in Nat, l <= Len(R)
  PROVE  /\ SubSeq(R, l + 1, Len(R)) \in Seq(Byte)
         /\ Len(SubSeq(R, l + 1, Len(R))) = Len(R) - l
         /\ \A i \in 1..(Len(R) - l) : SubSeq(R, l + 1, Len(R))[i] = R[l + i]
<1> DEFINE w == Len(R)
<1>1. w \in Nat /\ l <= w /\ w <= Len(R)
  BY LenProperties
<1> HIDE DEF w
<1>2. /\ SubSeq(R, l + 1, w) \in Seq(Byte)
      /\ Len(SubSeq(R, l + 1, w)) = w - l
      /\ \A i \in 1..(w - l) : SubSeq(R, l + 1, w)[i] = R[l + i]
  BY <1>1, SliceProperties
<1>3. QED
  BY <1>2 DEF w

\* Without its first field, the content is made of the others.
LEMMA PackedTail ==
  ASSUME NEW R \in Seq(Byte), NEW F \in Seq(Strings), Packed(R, F), F # <<>>
  PROVE  Packed(SubSeq(R, Len(Head(F)) + 1, Len(R)), Tail(F))
<1> DEFINE n == Len(F)
           l == Len(Head(F))
           Q == SubSeq(R, l + 1, Len(R))
           G == Tail(F)
<1>1. /\ n \in Nat /\ n # 0 /\ Len(R) \in Nat /\ Head(F) = F[1]
      /\ \A i \in 1..n : Len(F[i]) \in Nat /\ F[i] \in Seq(Byte)
  BY FieldType, LenProperties, EmptySeq, HeadTailProperties
<1>2. l \in Nat /\ l <= Len(R) /\ l = Len(F[1])
  BY <1>1, PackedHead
<1>3. Len(G) = n - 1 /\ \A i \in 1..(n - 1) : G[i] = F[i + 1]
  BY <1>1, HeadTailProperties
<1> HIDE DEF l
<1>4. /\ Q \in Seq(Byte) /\ Len(Q) = Len(R) - l
      /\ \A i \in 1..(Len(R) - l) : Q[i] = R[l + i]
  BY <1>2, DropProperties
<1>5. PICK off \in [1..(n + 1) -> 0..Len(R)] :
        /\ off[1] = 0 /\ off[n + 1] = Len(R)
        /\ \A i \in 1..(n + 1) : off[i] \in Nat /\ off[i] <= Len(R)
        /\ \A i \in 1..n :
             /\ i \in 1..(n + 1) /\ i + 1 \in 1..(n + 1)
             /\ off[i + 1] = off[i] + Len(F[i]) /\ FieldAt(R, off[i], F[i])
  BY PackedFacts
<1> HIDE DEF Q, G, n
<1>6. off[2] = l
  <2>1. 1 \in 1..n /\ 1 + 1 = 2
    BY <1>1
  <2>2. off[1 + 1] = off[1] + Len(F[1])
    BY <2>1, <1>5
  <2>3. QED
    BY <2>1, <2>2, <1>2, <1>5
<1>7. \A i \in 1..n : off[i + 1] >= l
  <2> DEFINE Bad == {i \in 1..n : ~(off[i + 1] >= l)}
  <2>1. SUFFICES ASSUME Bad # {} PROVE FALSE
    OBVIOUS
  <2>2. Bad \in SUBSET Nat
    BY <1>1
  <2>3. PICK m \in Bad : \A y \in Bad : m <= y
    BY <2>1, <2>2, LeastNat
  <2>4. m \in 1..n /\ ~(off[m + 1] >= l)
    BY <2>3
  <2>5. m # 1
    BY <2>4, <1>2, <1>6
  <2>6. m - 1 \in 1..n /\ (m - 1) + 1 = m /\ ~(m <= m - 1)
    BY <2>4, <2>5, <1>1
  <2>7. off[m] >= l
    BY <2>3, <2>6
  <2>8. off[m + 1] = off[m] + Len(F[m]) /\ off[m] \in Nat /\ Len(F[m]) \in Nat
    BY <2>4, <1>1, <1>5
  <2>9. QED
    BY <2>4, <2>7, <2>8, <1>2
<1> DEFINE to == [i \in 1..n |-> off[i + 1] - l]
<1>8. /\ to \in [1..n -> 0..Len(Q)]
      /\ \A i \in 1..n : to[i] = off[i + 1] - l
  <2>1. \A i \in 1..n : off[i + 1] - l \in 0..Len(Q)
    BY <1>1, <1>2, <1>4, <1>5, <1>7
  <2>2. QED
    BY <2>1
<1> HIDE DEF to
<1>9. to \in [1..(Len(G) + 1) -> 0..Len(Q)] /\ to[1] = 0 /\ to[Len(G) + 1] = Len(Q)
  <2>1. Len(G) + 1 = n /\ 1 \in 1..n /\ n \in 1..n /\ 1 + 1 = 2
    BY <1>1, <1>3
  <2>2. to[1] = l - l /\ l - l = 0
    BY <2>1, <1>2, <1>6, <1>8
  <2>3. to[n] = Len(Q)
    BY <2>1, <1>4, <1>5, <1>8
  <2>4. QED
    BY <2>1, <2>2, <2>3, <1>8
<1>10. ASSUME NEW i \in 1..Len(G)
       PROVE  to[i + 1] = to[i] + Len(G[i]) /\ FieldAt(Q, to[i], G[i])
  <2> DEFINE j == i + 1
             x == F[j]
             o == off[j]
  <2>1. i \in 1..n /\ j \in 1..n /\ i \in 1..(n - 1) /\ i \in Nat
    BY <1>1, <1>3
  <2>2. /\ G[i] = x /\ to[i] = o - l /\ to[j] = off[j + 1] - l
        /\ o \in Nat /\ o >= l /\ off[j + 1] = o + Len(x) /\ Len(x) \in Nat
        /\ FieldAt(R, o, x)
    <3>1. G[i] = x /\ to[i] = o - l /\ to[j] = off[j + 1] - l
      BY <2>1, <1>3, <1>8
    <3>2. o \in Nat /\ off[j + 1] = o + Len(x) /\ FieldAt(R, o, x)
      BY <2>1, <1>5
    <3>3. o >= l /\ Len(x) \in Nat
      BY <2>1, <1>1, <1>7
    <3>4. QED
      BY <3>1, <3>2, <3>3
  <2> HIDE DEF j, x, o
  <2>3. to[j] = to[i] + Len(x)
    <3>1. (o + Len(x)) - l = (o - l) + Len(x)
      BY <2>2, <1>2
    <3>2. QED
      BY <3>1, <2>2
  <2>4. o + Len(x) <= Len(R) /\ \A k \in 1..Len(x) : R[o + k] = SwapBytes(x)[k]
    BY <2>2 DEF FieldAt
  <2>5. (o - l) + Len(x) <= Len(Q)
    BY <2>2, <2>4, <1>1, <1>2, <1>4
  <2>6. ASSUME NEW k \in 1..Len(x) PROVE Q[(o - l) + k] = SwapBytes(x)[k]
    <3>1. (o - l) + k \in 1..(Len(R) - l) /\ l + ((o - l) + k) = o + k
      <4> DEFINE c == Len(x)
                 m == Len(R)
      <4>1. /\ o \in Nat /\ o >= l /\ c \in Nat /\ l \in Nat /\ m \in Nat
            /\ o + c <= m /\ k \in 1..c
        BY <2>2, <2>4, <1>1, <1>2
      <4> HIDE DEF c, m
      <4>2. (o - l) + k \in 1..(m - l) /\ l + ((o - l) + k) = o + k
        BY <4>1
      <4>3. QED
        BY <4>2 DEF m
    <3>2. QED
      BY <3>1, <2>4, <1>4
  <2>7. FieldAt(Q, to[i], G[i])
    BY <2>2, <2>5, <2>6 DEF FieldAt
  <2>8. QED
    BY <2>2, <2>3, <2>7 DEF j
<1>11. Packed(Q, G)
  BY <1>9, <1>10 DEF Packed
<1>12. QED
  BY <1>11 DEF Q, G, l

\* A call that cuts a field leaves the history of an empty buffer, or none.
LEMMA ForgetKeepsFields ==
  ASSUME Forget, b' \in Buffers, Placed(b')
  PROVE  FieldsInv'
<1>1. SUFFICES ASSUME tracked' PROVE Packed(Readable(b'), fields')
  BY DEF FieldsInv, Readable, Packed, FieldAt, SwapBytes
<1>2. readableBytes(b') = 0 /\ fields' = <<>>
  BY <1>1 DEF Forget
<1>3. Readable(b') \in Seq(Byte) /\ Len(Readable(b')) = readableBytes(b')
  BY ReadableProperties DEF readableBytes
<1>4. Readable(b') = <<>>
  BY <1>2, <1>3, EmptySeq
<1>5. QED
  BY <1>2, <1>4, PackedEmpty

\* Two fields, one behind the other.
LEMMA Pair ==
  ASSUME NEW x \in Strings, NEW y \in Strings
  PROVE  /\ <<x>> \in Seq(Strings) /\ <<y>> \in Seq(Strings)
         /\ <<x>> \o <<y>> = <<x, y>>
<1>1. /\ <<x>> \in Seq(Strings) /\ Len(<<x>>) = 1 /\ <<x>>[1] = x
      /\ <<y>> \in Seq(Strings) /\ Len(<<y>>) = 1 /\ <<y>>[1] = y
      /\ <<x, y>> \in Seq(Strings) /\ Len(<<x, y>>) = 2
      /\ <<x, y>>[1] = x /\ <<x, y>>[2] = y
  OBVIOUS
<1> DEFINE p == <<x>> \o <<y>>
           q == <<x, y>>
<1>2. /\ p \in Seq(Strings) /\ Len(p) = 1 + 1
      /\ \A i \in 1..(1 + 1) : p[i] = IF i <= 1 THEN <<x>>[i] ELSE <<y>>[i - 1]
  BY <1>1, ConcatProperties
<1>3. q \in Seq(Strings) /\ Len(q) = 2 /\ q[1] = x /\ q[2] = y
  BY <1>1
<1> HIDE DEF p, q
<1>4. Len(p) = 2 /\ p[1] = x /\ p[2] = y
  BY <1>1, <1>2
<1>5. \A i \in 1..Len(p) : p[i] = q[i]
  BY <1>3, <1>4
<1>6. p = q
  BY <1>2, <1>3, <1>4, <1>5, SeqEqual
<1>7. QED
  BY <1>1, <1>6 DEF p, q

\* Every call keeps the content the fields, unless it cuts one.
LEMMA FieldsStep ==
  ASSUME IInv, IInv', FieldsInv, Next
  PROVE  FieldsInv'
<1> DEFINE R == Readable(b)
           F == fields
<1>1. /\ b \in Buffers /\ Placed(b) /\ b' \in Buffers /\ Placed(b')
      /\ F \in Seq(Strings) /\ tracked \in BOOLEAN
  BY DEF IInv, TypeOK, Placed
<1>2. R \in Seq(Byte) /\ Len(R) = readableBytes(b)
  BY <1>1, ReadableProperties DEF readableBytes
<1>3. ASSUME tracked' => Packed(Readable(b'), fields') PROVE FieldsInv'
  BY <1>3 DEF FieldsInv, Readable, Packed, FieldAt, SwapBytes
<1>4. ASSUME Forget PROVE FieldsInv'
  BY <1>1, <1>4, ForgetKeepsFields
<1>5. ASSUME Readable(b') = R, fields' = F, tracked' = tracked PROVE FieldsInv'
  BY <1>3, <1>5 DEF FieldsInv
<1>6. tracked => Packed(R, F)
  BY DEF FieldsInv
<1>7. ASSUME NEW x \in Strings, AddLast(<<x>>), Readable(b') = R \o SwapBytes(x)
      PROVE  FieldsInv'
  BY <1>1, <1>2, <1>3, <1>6, <1>7, PackedAppend DEF AddLast
<1>8. ASSUME NEW x \in Strings, AddFirst(<<x>>), Readable(b') = SwapBytes(x) \o R
      PROVE  FieldsInv'
  BY <1>1, <1>2, <1>3, <1>6, <1>8, PackedPrepend DEF AddFirst
<1>9. ASSUME NEW len \in Nat, len <= readableBytes(b), TakeFirst(len), b' = retrieve(b, len)
      PROVE  FieldsInv'
  <2>1. CASE ~(tracked /\ F # <<>> /\ Len(Head(F)) = len)
    BY <2>1, <1>4, <1>9 DEF TakeFirst
  <2>2. CASE tracked /\ F # <<>> /\ Len(Head(F)) = len
    <3>1. fields' = Tail(F)
      BY <2>2, <1>9 DEF TakeFirst
    <3>2. Readable(b') = SubSeq(R, len + 1, Len(R))
      BY <1>1, <1>9, RetrieveIsDrop
    <3>3. Packed(SubSeq(R, len + 1, Len(R)), Tail(F))
      BY <2>2, <1>1, <1>2, <1>6, PackedTail
    <3>4. QED
      BY <3>1, <3>2, <3>3, <1>3
  <2>3. QED
    BY <2>1, <2>2
<1> HIDE DEF R, F
<1>10. ASSUME NEW d \in Chunks, AppendData(d) \/ HasWritten(d) \/ Prepend(d) PROVE FieldsInv'
  <2> DEFINE x == SwapBytes(d)
  <2>1. d \in Seq(Byte) /\ x \in Strings /\ SwapBytes(x) = d
    BY BufferAssumption, NewFields, SwapTwice
  <2>2. CASE AppendData(d) \/ HasWritten(d)
    <3>1. AddLast(<<x>>)
      BY <2>2, Zenon DEF AppendData, HasWritten
    <3>2. Readable(b') = R \o d
      <4>1. CASE AppendData(d)
        BY <4>1, <2>1, <1>1, AppendIsPut DEF AppendData, R
      <4>2. CASE HasWritten(d)
        BY <4>2, <2>1, <1>1, HasWrittenProperties DEF HasWritten, R
      <4>3. QED
        BY <2>2, <4>1, <4>2
    <3> HIDE DEF x
    <3>3. QED
      BY <3>1, <3>2, <2>1, <1>7
  <2>3. CASE Prepend(d)
    <3>1. AddFirst(<<x>>) /\ b' = prepend(b, d) /\ Len(d) <= b.reader
      BY <2>3 DEF Prepend
    <3>2. Readable(b') = d \o R
      BY <3>1, <2>1, <1>1, PrependIsPush DEF R
    <3> HIDE DEF x
    <3>3. QED
      BY <3>1, <3>2, <2>1, <1>8
  <2>4. QED
    BY <1>10, <2>2, <2>3
<1>11. ASSUME NEW len \in Nat, EnsureWritableBytes(len) PROVE FieldsInv'
  BY <1>1, <1>5, <1>11, EnsureWritableProperties DEF EnsureWritableBytes, R, F
<1>12. ASSUME NEW len \in Nat, Unwrite(len) \/ Retrieve(len) \/ RetrieveAsString(len)
       PROVE  FieldsInv'
  <2>1. CASE Unwrite(len)
    BY <2>1, <1>4 DEF Unwrite
  <2>2. CASE Retrieve(len) \/ RetrieveAsString(len)
    BY <2>2, <1>9 DEF Retrieve, RetrieveAsString
  <2>3. QED
    BY <1>12, <2>1, <2>2
<1>13. ASSUME NEW len \in Nat, Shrink(len) PROVE FieldsInv'
  BY <1>1, <1>5, <1>13, ShrinkKeepsContent DEF Shrink, R, F
<1>14. ASSUME NEW p \in Patterns, RetrieveUntil(p) PROVE FieldsInv'
  <2>1. PICK end \in FindEnd(b, p) :
          b' = retrieve(b, end - b.reader) /\ TakeFirst(end - b.reader)
    BY <1>14 DEF RetrieveUntil
  <2>2. Len(p) \in Nat /\ b.reader \in Nat /\ b.writer \in Nat
    BY <1>1 DEF Patterns, Buffers
  <2>3. PICK k \in b.reader..(b.writer - Len(p)) : end = k + Len(p)
    BY <2>1 DEF FindEnd, Matches
  <2> DEFINE n == end - b.reader
  <2>4. n \in Nat /\ n <= readableBytes(b)
    BY <2>2, <2>3 DEF readableBytes
  <2>5. b' = retrieve(b, n) /\ TakeFirst(n)
    BY <2>1
  <2> HIDE DEF n
  <2>6. QED
    BY <2>4, <2>5, <1>9
<1>15. ASSUME NEW x \in Ints, NEW v \in BOOLEAN, AppendInt(x, v) PROVE FieldsInv'
  <2> DEFINE y == SwapBytes(x)
  <2>1. x \in Seq(Byte) /\ y \in Seq(Byte) /\ x \in Strings /\ y \in Strings /\ SwapBytes(y) = x
    BY BufferAssumption, NewFields, SwapTwice DEF Strings
  <2>2. b' = appendInt(b, x, v)
    BY <1>15 DEF AppendInt
  <2>3. CASE ~v
    <3>1. AddLast(<<x>>)
      BY <2>3, <1>15 DEF AppendInt
    <3>2. Readable(b') = R \o SwapBytes(x)
      BY <2>2, <2>3, <1>1, AppendIntIsPut DEF R
    <3>3. QED
      BY <3>1, <3>2, <2>1, <1>7
  <2>4. CASE v
    <3>1. AddLast(<<y, x>>)
      BY <2>4, <1>15 DEF AppendInt
    <3>2. Readable(b') = (R \o x) \o y
      BY <2>2, <2>4, <1>1, AppendIntIsPut DEF R
    <3> DEFINE Q == R \o x
               G == F \o <<y>>
    <3>3. Q \in Seq(Byte) /\ G \in Seq(Strings)
      BY <2>1, <1>1, <1>2, NewFields, ConcatProperties
    <3>4. tracked => Packed(Q, G)
      <4>1. tracked => Packed(R \o SwapBytes(y), F \o <<y>>)
        <5> HIDE DEF y
        <5>1. QED
          BY <2>1, <1>1, <1>2, <1>6, PackedAppend
      <4>2. QED
        BY <4>1, <2>1
    <3> HIDE DEF Q, G
    <3>5. tracked => Packed(Q \o y, G \o <<x>>)
      BY <2>1, <3>3, <3>4, PackedAppend
    <3>6. G \o <<x>> = F \o <<y, x>>
      <4> HIDE DEF y
      <4>1. <<y>> \in Seq(Strings) /\ <<x>> \in Seq(Strings) /\ <<y>> \o <<x>> = <<y, x>>
        BY <2>1, Pair
      <4>2. (F \o <<y>>) \o <<x>> = F \o (<<y>> \o <<x>>)
        BY <4>1, <1>1, ConcatAssociative
      <4>3. QED
        BY <4>1, <4>2 DEF G
    <3>7. tracked' = tracked /\ (tracked => fields' = G \o <<x>>)
      BY <3>1, <3>6 DEF AddLast, F
    <3>8. QED
      BY <3>2, <3>5, <3>7, <1>3 DEF Q
  <2>5. QED
    BY <2>3, <2>4
<1>16. ASSUME NEW x \in Ints, NEW v \in BOOLEAN, PrependInt(x, v) PROVE FieldsInv'
  <2> DEFINE y == SwapBytes(x)
  <2>1. x \in Seq(Byte) /\ y \in Seq(Byte) /\ x \in Strings /\ y \in Strings /\ SwapBytes(y) = x
    BY BufferAssumption, NewFields, SwapTwice DEF Strings
  <2>2. b' = prependInt(b, x, v) /\ Written(x, v) <= b.reader
    BY <1>16 DEF PrependInt
  <2>3. CASE ~v
    <3>1. AddFirst(<<x>>)
      BY <2>3, <1>16 DEF PrependInt
    <3>2. Readable(b') = SwapBytes(x) \o R
      BY <2>2, <2>3, <1>1, PrependIntIsPush DEF R
    <3>3. QED
      BY <3>1, <3>2, <2>1, <1>8
  <2>4. CASE v
    <3>1. AddFirst(<<x, y>>)
      BY <2>4, <1>16 DEF PrependInt
    <3>2. Readable(b') = y \o (x \o R)
      BY <2>2, <2>4, <1>1, PrependIntIsPush DEF R
    <3> DEFINE Q == x \o R
               G == <<y>> \o F
    <3>3. Q \in Seq(Byte) /\ G \in Seq(Strings)
      BY <2>1, <1>1, <1>2, NewFields, ConcatProperties
    <3>4. tracked => Packed(Q, G)
      <4>1. tracked => Packed(SwapBytes(y) \o R, <<y>> \o F)
        <5> HIDE DEF y
        <5>1. QED
          BY <2>1, <1>1, <1>2, <1>6, PackedPrepend
      <4>2. QED
        BY <4>1, <2>1
    <3> HIDE DEF Q, G
    <3>5. tracked => Packed(y \o Q, <<x>> \o G)
      BY <2>1, <3>3, <3>4, PackedPrepend
    <3>6. <<x>> \o G = <<x, y>> \o F
      <4> HIDE DEF y
      <4>1. <<y>> \in Seq(Strings) /\ <<x>> \in Seq(Strings) /\ <<x>> \o <<y>> = <<x, y>>
        BY <2>1, Pair
      <4>2. (<<x>> \o <<y>>) \o F = <<x>> \o (<<y>> \o F)
        BY <4>1, <1>1, ConcatAssociative
      <4>3. QED
        BY <4>1, <4>2 DEF G
    <3>7. tracked' = tracked /\ (tracked => fields' = <<x>> \o G)
      BY <3>1, <3>6 DEF AddFirst, F
    <3>8. QED
      BY <3>2, <3>5, <3>7, <1>3 DEF Q
  <2>5. QED
    BY <2>3, <2>4
<1>17. ASSUME NEW w \in Widths, NEW v \in BOOLEAN, ReadInt(w, v) PROVE FieldsInv'
  <2>1. w \in Nat
    BY BufferAssumption, LenProperties DEF Widths
  <2>2. QED
    BY <2>1, <1>9, <1>17 DEF ReadInt
<1>18. \A len \in 0..MaxSize : len \in Nat
  BY BufferAssumption
<1>19. \A len \in 1..MaxSize : len \in Nat
  BY BufferAssumption
<1>20. QED
  BY <1>10, <1>11, <1>12, <1>13, <1>14, <1>15, <1>16, <1>17, <1>18, <1>19 DEF Next

\* As long as no read or unwrite has cut a field, integers in network order
\* are read back as they were and in their order, for every width, among any
\* strings appended or prepended, and for every sequence of moves,
\* enlargements and shrinks of the storage in between.
THEOREM FieldsAlwaysArrive == Spec => []FieldsArrive
<1>1. Init => FieldsInv
  <2> SUFFICES ASSUME Init PROVE Packed(Readable(b), fields)
    BY DEF FieldsInv
  <2>1. Readable(b) = <<>> /\ fields = <<>>
    BY BufferAssumption, ConstructProperties DEF Init
  <2>2. QED
    BY <2>1, PackedEmpty
<1>2. IInv /\ IInv' /\ FieldsInv /\ [Next]_vars => FieldsInv'
  <2>1. ASSUME FieldsInv, UNCHANGED vars PROVE FieldsInv'
    <3>1. SUFFICES tracked' => Packed(Readable(b'), fields')
      BY DEF FieldsInv, Readable, Packed, FieldAt, SwapBytes
    <3>2. QED
      BY <2>1 DEF FieldsInv, vars
  <2>2. QED
    BY <2>1, FieldsStep
<1>3. ASSUME IInv, FieldsInv PROVE FieldsArrive
  <2> SUFFICES ASSUME tracked, fields # <<>>
               PROVE  peekInt(b, Len(Head(fields)), FALSE) = Head(fields)
    BY DEF FieldsArrive
  <2> DEFINE R == Readable(b)
             x == Head(fields)
             w == Len(x)
  <2>1. /\ b \in Buffers /\ Placed(b) /\ fields \in Seq(Strings)
        /\ R \in Seq(Byte) /\ Len(R) = b.writer - b.reader /\ Packed(R, fields)
    BY <1>3, ReadableProperties DEF IInv, TypeOK, FieldsInv
  <2>2. x \in Seq(Byte)
    BY <2>1, HeadTailProperties DEF Strings
  <2>3. w \in Nat /\ w <= b.writer - b.reader /\ SubSeq(R, 1, w) = SwapBytes(x)
    BY <2>1, PackedHead
  <2> HIDE DEF x, w
  <2>4. SubSeq(b.buffer, b.reader + 1, b.reader + w) = SubSeq(R, 1, w)
    <3>1. 0 <= w /\ b.reader + 0 = b.reader /\ 0 + 1 = 1 /\ 0 \in Nat
      BY <2>1, <2>3 DEF Buffers
    <3>2. SubSeq(R, 0 + 1, w) = SubSeq(b.buffer, (b.reader + 0) + 1, b.reader + w)
      BY <2>1, <2>3, <3>1, SliceOfContent
    <3>3. QED
      BY <3>1, <3>2
  <2>5. peekInt(b, w, FALSE) = SwapBytes(SwapBytes(x))
    BY <2>3, <2>4 DEF peekInt
  <2>6. QED
    BY <2>2, <2>5, SwapTwice DEF x, w
<1>4. QED
  BY <1>1, <1>2, <1>3, InductiveInvariant, PTL DEF Spec
=============================================================================
