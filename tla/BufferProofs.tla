---------------------------- MODULE BufferProofs ----------------------------
(***************************************************************************)
(* Buffer is well formed after every call and implements ByteQueue, for     *)
(* every capacity, chunk size, byte set and set of delimiters.              *)
(*                                                                         *)
(* TypeOK is inductive as it stands.  The refinement has one lemma per      *)
(* buffer function, each saying what the function does to Contents, and     *)
(* one step per operation that reads it off those lemmas.                   *)
(***************************************************************************)
EXTENDS Buffer, SequenceTheorems, TLAPS

\* The part of TypeOK that is about the object alone.
WellFormed(b) == b \in Buffers /\ b.read_index <= b.write_index

-----------------------------------------------------------------------------
(* Contents, and what each buffer function does to it.                     *)

\* The contents are a sequence of cells as long as readableBytes() says.
LEMMA ContentsType ==
    ASSUME NEW b, WellFormed(b)
    PROVE  /\ ReadableBytes(b) \in 0..Capacity
           /\ Contents(b) \in Seq(Cell)
           /\ Len(Contents(b)) = ReadableBytes(b)
           /\ \A i \in 1..ReadableBytes(b) : Contents(b)[i] = b.buff[b.read_index + i - 1]
<1>1. ReadableBytes(b) \in 0..Capacity
  BY BufferAssumption DEF WellFormed, Buffers, ReadableBytes
<1>2. \A i \in 1..ReadableBytes(b) : b.buff[b.read_index + i - 1] \in Cell
  BY BufferAssumption DEF WellFormed, Buffers, ReadableBytes, Addr
<1>3. Contents(b) \in [1..ReadableBytes(b) -> Cell]
  BY <1>2 DEF Contents
<1>4. Contents(b) \in Seq(Cell) /\ Len(Contents(b)) = ReadableBytes(b)
  BY <1>1, <1>3
<1>. QED  BY <1>1, <1>4 DEF Contents

\* The indexes are naturals in order, so the unsigned subtractions are exact.
LEMMA IndexType ==
    ASSUME NEW b, WellFormed(b)
    PROVE  /\ b.read_index \in Nat
           /\ b.write_index \in Nat
           /\ ReadableBytes(b) \in Nat
           /\ b.write_index = b.read_index + ReadableBytes(b)
           /\ b.write_index <= Capacity
           /\ WritableBytes(b) = Capacity - b.write_index
           /\ Capacity \in Nat
BY BufferAssumption DEF WellFormed, Buffers, ReadableBytes, WritableBytes

\* Advancing write_index within the array keeps the object well formed.
LEMMA GrowType ==
    ASSUME NEW b, WellFormed(b), NEW n \in Nat, b.write_index + n <= Capacity
    PROVE  /\ WellFormed(Grow(b, n))
           /\ Grow(b, n).buff = b.buff
           /\ Grow(b, n).read_index = b.read_index
           /\ ReadableBytes(Grow(b, n)) = ReadableBytes(b) + n
BY BufferAssumption DEF Grow, WellFormed, Buffers, ReadableBytes

\* Room for n bytes is what ByteQueue calls fitting.
LEMMA CanWriteIsFits ==
    ASSUME NEW b, WellFormed(b), NEW n \in Nat
    PROVE  CanWrite(b, n) <=> Len(Contents(b)) + n <= Capacity
BY ContentsType, BufferAssumption
   DEF WellFormed, Buffers, CanWrite, WritableBytes, PrependableBytes, ReadableBytes

\* A copy that stays inside the array keeps the object well formed, and only
\* the cells it covers change.
LEMMA CopyToType ==
    ASSUME NEW b, WellFormed(b), NEW at \in Nat, NEW data \in Seq(Cell),
           at + Len(data) <= Capacity
    PROVE  LET c == CopyTo(b, at, data) IN
           /\ WellFormed(c)
           /\ c.read_index = b.read_index
           /\ c.write_index = b.write_index
           /\ \A a \in Addr : c.buff[a] = IF a \in at..(at + Len(data) - 1)
                                            THEN data[a - at + 1] ELSE b.buff[a]
<1>. DEFINE f == [a \in Addr |-> IF a \in at..(at + Len(data) - 1)
                                   THEN data[a - at + 1] ELSE b.buff[a]]
<1>1. f \in [Addr -> Cell]
  <2>1. ASSUME NEW a \in Addr, a \in at..(at + Len(data) - 1)
        PROVE  data[a - at + 1] \in Cell
    <3>1. a - at + 1 \in 1..Len(data)
      BY <2>1 DEF Addr
    <3>. QED  BY <3>1
  <2>2. \A a \in Addr : b.buff[a] \in Cell
    BY DEF WellFormed, Buffers
  <2>. QED  BY <2>1, <2>2
<1>2. CopyTo(b, at, data) = [b EXCEPT !.buff = f]
  BY DEF CopyTo
<1>. QED  BY <1>1, <1>2 DEF WellFormed, Buffers

\* makeSpace moves the contents to the front and changes none of them, which
\* is the copy to overlapping cells of Buffer.cpp:72.
LEMMA MakeSpaceKeepsContents ==
    ASSUME NEW b, WellFormed(b)
    PROVE  /\ WellFormed(MakeSpace(b))
           /\ MakeSpace(b).read_index = 0
           /\ MakeSpace(b).write_index = ReadableBytes(b)
           /\ Contents(MakeSpace(b)) = Contents(b)
<1>. DEFINE c == CopyTo(b, 0, Contents(b))
            m == MakeSpace(b)
<1>1. /\ WellFormed(c)
      /\ \A a \in Addr : a < ReadableBytes(b) => c.buff[a] = Contents(b)[a + 1]
  <2>1. 0 + Len(Contents(b)) <= Capacity
    BY ContentsType, BufferAssumption
  <2>. QED  BY <2>1, ContentsType, CopyToType, BufferAssumption DEF Addr
<1>2. m = [buff |-> c.buff, read_index |-> 0, write_index |-> ReadableBytes(b)]
  <2>. HIDE DEF c
  <2>1. m = [c EXCEPT !.read_index = 0, !.write_index = ReadableBytes(b)]
    BY DEF MakeSpace, c
  <2>. QED  BY <1>1, <2>1 DEF WellFormed, Buffers
<1>3. /\ WellFormed(m)
      /\ m.read_index = 0
      /\ m.write_index = ReadableBytes(b)
      /\ m.buff = c.buff
  <2>. HIDE DEF c, m
  <2>1. c.buff \in [Addr -> Cell]
    BY <1>1 DEF WellFormed, Buffers
  <2>2. ReadableBytes(b) \in 0..Capacity /\ 0 \in 0..Capacity
    BY ContentsType, BufferAssumption
  <2>. QED  BY <1>2, <2>1, <2>2 DEF WellFormed, Buffers
<1>4. ReadableBytes(m) = ReadableBytes(b)
  BY <1>3, ContentsType DEF ReadableBytes
<1>5. ASSUME NEW i \in 1..ReadableBytes(b)
      PROVE  m.buff[m.read_index + i - 1] = b.buff[b.read_index + i - 1]
  <2>1. i - 1 \in Addr /\ i - 1 < ReadableBytes(b) /\ (i - 1) + 1 = i /\ 0 + i - 1 = i - 1
    BY <1>5, ContentsType, BufferAssumption DEF Addr
  <2>. QED  BY <2>1, <1>1, <1>3, ContentsType
<1>6. Contents(m) = Contents(b)
  BY <1>4, <1>5 DEF Contents
<1>. QED  BY <1>3, <1>6

\* After ensureWritableBytes(n) returned true there is room for n bytes behind
\* write_index (the assert of Buffer.cpp:53), and the contents are untouched.
LEMMA EnsureWritableMakesRoom ==
    ASSUME NEW b, WellFormed(b), NEW n \in Nat
    PROVE  /\ WellFormed(EnsureWritableBytes(b, n))
           /\ Contents(EnsureWritableBytes(b, n)) = Contents(b)
           /\ CanWrite(b, n) => WritableBytes(EnsureWritableBytes(b, n)) >= n
<1>1. CASE WritableBytes(b) < n /\ CanWrite(b, n)
  BY <1>1, MakeSpaceKeepsContents, ContentsType, BufferAssumption
     DEF EnsureWritableBytes, WellFormed, Buffers, CanWrite, WritableBytes,
         PrependableBytes, ReadableBytes
<1>2. CASE ~(WritableBytes(b) < n /\ CanWrite(b, n))
  BY <1>2, BufferAssumption DEF EnsureWritableBytes, WellFormed, Buffers, WritableBytes
<1>. QED  BY <1>1, <1>2

\* Advancing read_index drops that many bytes from the front.
LEMMA DropIsSubSeq ==
    ASSUME NEW b, WellFormed(b), NEW n \in 0..ReadableBytes(b)
    PROVE  /\ WellFormed(Drop(b, n))
           /\ Contents(Drop(b, n)) = SubSeq(Contents(b), n + 1, Len(Contents(b)))
<1>. DEFINE d == Drop(b, n)
            s == SubSeq(Contents(b), n + 1, Len(Contents(b)))
<1>1. /\ WellFormed(d)
      /\ d.buff = b.buff
      /\ d.read_index = b.read_index + n
      /\ ReadableBytes(d) = ReadableBytes(b) - n
  BY ContentsType, BufferAssumption DEF Drop, WellFormed, Buffers, ReadableBytes
<1>2. s \in Seq(Cell) /\ Len(s) = ReadableBytes(b) - n
      /\ \A i \in 1..(ReadableBytes(b) - n) : s[i] = Contents(b)[n + i]
  BY ContentsType
<1>3. ASSUME NEW i \in 1..(ReadableBytes(b) - n)
      PROVE  Contents(d)[i] = s[i]
  <2>1. Contents(d)[i] = d.buff[d.read_index + i - 1]
    BY <1>1, ContentsType
  <2>2. /\ n + i \in 1..ReadableBytes(b)
        /\ d.read_index + i - 1 = b.read_index + (n + i) - 1
    <3>. HIDE DEF d
    <3>1. b.read_index \in Nat /\ ReadableBytes(b) \in Nat
      BY ContentsType, BufferAssumption DEF WellFormed, Buffers
    <3>. QED  BY <1>1, <3>1
  <2>. QED  BY <1>1, <1>2, <2>1, <2>2, ContentsType
<1>4. Contents(d) \in Seq(Cell) /\ Len(Contents(d)) = ReadableBytes(b) - n
  BY <1>1, ContentsType
<1>5. Contents(d) = s
  <2>. HIDE DEF d, s
  <2>. QED  BY <1>2, <1>3, <1>4, SeqEqual
<1>. QED  BY <1>1, <1>5

\* Storing data at write_index and advancing it appends data.
LEMMA StoreAtEndAppends ==
    ASSUME NEW b, WellFormed(b), NEW data \in Seq(Cell),
           Len(data) <= WritableBytes(b)
    PROVE  LET c == Grow(CopyTo(b, b.write_index, data), Len(data)) IN
           /\ WellFormed(c)
           /\ Contents(c) = Contents(b) \o data
<1>. DEFINE e == CopyTo(b, b.write_index, data)
            c == Grow(e, Len(data))
            s == Contents(b) \o data
            R == ReadableBytes(b)
            N == Len(data)
<1>1. /\ N \in Nat
      /\ R \in Nat
      /\ b.read_index \in Nat
      /\ b.write_index = b.read_index + R
      /\ b.write_index + N <= Capacity
  BY IndexType
<1>2. /\ WellFormed(e)
      /\ e.read_index = b.read_index
      /\ e.write_index = b.write_index
      /\ \A a \in Addr : e.buff[a] = IF a \in b.write_index..(b.write_index + N - 1)
                                       THEN data[a - b.write_index + 1] ELSE b.buff[a]
  BY <1>1, IndexType, CopyToType
<1>3. WellFormed(c) /\ c.buff = e.buff /\ c.read_index = b.read_index
      /\ ReadableBytes(c) = R + N
  <2>1. ReadableBytes(e) = R
    BY <1>2 DEF ReadableBytes
  <2>. HIDE DEF e
  <2>. QED  BY <1>1, <1>2, <2>1, GrowType
<1>4. /\ Contents(b) \in Seq(Cell) /\ Len(Contents(b)) = R
      /\ \A i \in 1..R : Contents(b)[i] = b.buff[b.read_index + i - 1]
  BY ContentsType
<1>5. /\ s \in Seq(Cell) /\ Len(s) = R + N
      /\ \A i \in 1..(R + N) : s[i] = IF i <= R THEN Contents(b)[i] ELSE data[i - R]
  <2>1. /\ s \in Seq(Cell) /\ Len(s) = Len(Contents(b)) + Len(data)
        /\ \A i \in 1..(Len(Contents(b)) + Len(data)) :
              s[i] = IF i <= Len(Contents(b)) THEN Contents(b)[i]
                                              ELSE data[i - Len(Contents(b))]
    BY <1>4, ConcatProperties
  <2>. QED  BY <1>4, <2>1
<1>6. /\ Contents(c) \in Seq(Cell) /\ Len(Contents(c)) = R + N
      /\ \A i \in 1..(R + N) : Contents(c)[i] = e.buff[b.read_index + i - 1]
  <2>. HIDE DEF c
  <2>. QED  BY <1>3, ContentsType
<1>. HIDE DEF c, e, s, R, N
<1>7. ASSUME NEW i \in 1..(R + N)
      PROVE  Contents(c)[i] = s[i]
  <2>1. b.read_index + i - 1 \in Addr
    BY <1>1, BufferAssumption DEF Addr
  <2>2. CASE i <= R
    <3>1. b.read_index + i - 1 \notin b.write_index..(b.write_index + N - 1) /\ i \in 1..R
      BY <1>1, <2>2
    <3>. QED  BY <1>2, <1>4, <1>5, <1>6, <2>1, <2>2, <3>1
  <2>3. CASE i > R
    <3>1. /\ b.read_index + i - 1 \in b.write_index..(b.write_index + N - 1)
          /\ (b.read_index + i - 1) - b.write_index + 1 = i - R
          /\ ~(i <= R)
      BY <1>1, <2>3
    <3>. QED  BY <1>2, <1>5, <1>6, <2>1, <3>1
  <2>. QED  BY <1>1, <2>2, <2>3
<1>8. Contents(c) = s
  BY <1>5, <1>6, <1>7, SeqEqual
<1>. QED  BY <1>3, <1>8 DEF c, e, s, R, N

\* Advancing write_index makes that many cells readable, whatever they hold.
LEMMA GrowAppendsCells ==
    ASSUME NEW b, WellFormed(b), NEW n \in Nat, n <= WritableBytes(b)
    PROVE  /\ WellFormed(Grow(b, n))
           /\ \E cells \in [1..n -> Cell] : Contents(Grow(b, n)) = Contents(b) \o cells
<1>. DEFINE c == Grow(b, n)
            x == [i \in 1..n |-> b.buff[b.write_index + i - 1]]
            s == Contents(b) \o x
            R == ReadableBytes(b)
<1>1. /\ R \in Nat
      /\ b.read_index \in Nat
      /\ b.write_index = b.read_index + R
      /\ b.write_index + n <= Capacity
  BY IndexType
<1>2. WellFormed(c) /\ c.buff = b.buff /\ c.read_index = b.read_index
      /\ ReadableBytes(c) = R + n
  BY <1>1, IndexType, GrowType
<1>3. /\ x \in [1..n -> Cell]
      /\ x \in Seq(Cell) /\ Len(x) = n
      /\ \A i \in 1..n : x[i] = b.buff[b.write_index + i - 1]
  <2>1. ASSUME NEW i \in 1..n
        PROVE  b.buff[b.write_index + i - 1] \in Cell
    <3>1. b.write_index + i - 1 \in Addr
      BY <1>1, BufferAssumption DEF Addr
    <3>. QED  BY <3>1 DEF WellFormed, Buffers
  <2>. QED  BY <2>1
<1>4. /\ Contents(b) \in Seq(Cell) /\ Len(Contents(b)) = R
      /\ \A i \in 1..R : Contents(b)[i] = b.buff[b.read_index + i - 1]
  BY ContentsType
<1>5. /\ s \in Seq(Cell) /\ Len(s) = R + n
      /\ \A i \in 1..(R + n) : s[i] = IF i <= R THEN Contents(b)[i] ELSE x[i - R]
  <2>. HIDE DEF x
  <2>1. /\ s \in Seq(Cell) /\ Len(s) = Len(Contents(b)) + Len(x)
        /\ \A i \in 1..(Len(Contents(b)) + Len(x)) :
              s[i] = IF i <= Len(Contents(b)) THEN Contents(b)[i]
                                              ELSE x[i - Len(Contents(b))]
    BY <1>3, <1>4, ConcatProperties
  <2>. QED  BY <1>3, <1>4, <2>1
<1>6. /\ Contents(c) \in Seq(Cell) /\ Len(Contents(c)) = R + n
      /\ \A i \in 1..(R + n) : Contents(c)[i] = b.buff[b.read_index + i - 1]
  <2>. HIDE DEF c
  <2>. QED  BY <1>2, ContentsType
<1>. HIDE DEF c, x, s, R
<1>7. ASSUME NEW i \in 1..(R + n)
      PROVE  Contents(c)[i] = s[i]
  <2>1. CASE i <= R
    <3>1. i \in 1..R
      BY <1>1, <2>1
    <3>. QED  BY <1>4, <1>5, <1>6, <2>1, <3>1
  <2>2. CASE i > R
    <3>1. /\ i - R \in 1..n
          /\ b.write_index + (i - R) - 1 = b.read_index + i - 1
          /\ ~(i <= R)
      BY <1>1, <2>2
    <3>. QED  BY <1>3, <1>5, <1>6, <3>1
  <2>. QED  BY <1>1, <2>1, <2>2
<1>8. Contents(c) = s
  BY <1>5, <1>6, <1>7, SeqEqual
<1>. QED  BY <1>2, <1>3, <1>8 DEF c, s

\* IOStream's use of data(): the new bytes take the place of the oldest unread
\* ones, and the end moves by their number.
LEMMA StoreAtDataOverwrites ==
    ASSUME NEW b, WellFormed(b), NEW data \in Seq(Cell),
           Len(data) <= WritableBytes(b)
    PROVE  LET c == Grow(CopyTo(b, b.read_index, data), Len(data)) IN
           /\ WellFormed(c)
           /\ Contents(c) \in [1..(ReadableBytes(b) + Len(data)) -> Cell]
           /\ \A i \in 1..Len(data) : Contents(c)[i] = data[i]
           /\ \A i \in (Len(data) + 1)..ReadableBytes(b) : Contents(c)[i] = Contents(b)[i]
<1>. DEFINE e == CopyTo(b, b.read_index, data)
            c == Grow(e, Len(data))
            R == ReadableBytes(b)
            N == Len(data)
<1>1. /\ N \in Nat
      /\ R \in Nat
      /\ b.read_index \in Nat
      /\ b.write_index = b.read_index + R
      /\ b.write_index + N <= Capacity
      /\ b.read_index + N <= Capacity
  BY IndexType
<1>2. /\ WellFormed(e)
      /\ e.read_index = b.read_index
      /\ e.write_index = b.write_index
      /\ \A a \in Addr : e.buff[a] = IF a \in b.read_index..(b.read_index + N - 1)
                                       THEN data[a - b.read_index + 1] ELSE b.buff[a]
  BY <1>1, CopyToType
<1>3. WellFormed(c) /\ c.buff = e.buff /\ c.read_index = b.read_index
      /\ ReadableBytes(c) = R + N
  <2>1. ReadableBytes(e) = R
    BY <1>2 DEF ReadableBytes
  <2>. HIDE DEF e
  <2>. QED  BY <1>1, <1>2, <2>1, GrowType
<1>4. /\ Contents(c) \in [1..(R + N) -> Cell]
      /\ \A i \in 1..(R + N) : Contents(c)[i] = e.buff[b.read_index + i - 1]
  <2>. HIDE DEF c
  <2>. QED  BY <1>3, ContentsType
<1>5. \A i \in 1..R : Contents(b)[i] = b.buff[b.read_index + i - 1]
  BY ContentsType
<1>. HIDE DEF e, c, R, N
<1>6. \A i \in 1..(R + N) : b.read_index + i - 1 \in Addr
  BY <1>1, BufferAssumption DEF Addr
<1>7. ASSUME NEW i \in 1..N
      PROVE  Contents(c)[i] = data[i]
  <2>1. /\ b.read_index + i - 1 \in b.read_index..(b.read_index + N - 1)
        /\ (b.read_index + i - 1) - b.read_index + 1 = i
        /\ i \in 1..(R + N)
    BY <1>1
  <2>. QED  BY <1>2, <1>4, <1>6, <2>1
<1>8. ASSUME NEW i \in (N + 1)..R
      PROVE  Contents(c)[i] = Contents(b)[i]
  <2>1. /\ b.read_index + i - 1 \notin b.read_index..(b.read_index + N - 1)
        /\ i \in 1..(R + N)
        /\ i \in 1..R
    BY <1>1
  <2>. QED  BY <1>2, <1>4, <1>5, <1>6, <2>1
<1>. QED  BY <1>3, <1>4, <1>7, <1>8 DEF c, e, R, N

\* std::search over the array finds what ByteQueue's occurrence finds in the
\* contents.
LEMMA MatchIsOccurrence ==
    ASSUME NEW b, WellFormed(b), NEW d \in Seq(Byte), NEW i \in Nat
    PROVE  MatchAt(b, d, i) <=> /\ i + Len(d) <= Len(Contents(b))
                                /\ \A k \in 1..Len(d) : Contents(b)[i + k] = d[k]
<1>1. /\ ReadableBytes(b) \in Nat
      /\ Len(Contents(b)) = ReadableBytes(b)
      /\ b.read_index \in Nat
  BY ContentsType, BufferAssumption DEF WellFormed, Buffers
<1>2. ASSUME i + Len(d) <= ReadableBytes(b), NEW k \in 1..Len(d)
      PROVE  Contents(b)[i + k] = b.buff[b.read_index + i + k - 1]
  <2>1. i + k \in 1..ReadableBytes(b) /\ b.read_index + (i + k) - 1 = b.read_index + i + k - 1
    BY <1>1, <1>2
  <2>. QED  BY <2>1, ContentsType
<1>. QED  BY <1>1, <1>2 DEF MatchAt

-----------------------------------------------------------------------------
(* The specification.                                                      *)

LEMMA DataIsSeq ==
    ASSUME NEW S, NEW n \in Nat, NEW data \in SeqOf(S, n)
    PROVE  data \in Seq(S) /\ Len(data) \in 0..n
BY DEF SeqOf

\* Byte strings are cell strings.
LEMMA ByteSeqIsCellSeq ==
    ASSUME NEW data \in Seq(Byte)
    PROVE  data \in Seq(Cell)
BY DEF Cell

\* A cleared buffer is empty.
LEMMA ClearType ==
    ASSUME NEW b, WellFormed(b)
    PROVE  LET c == [buff |-> b.buff, read_index |-> 0, write_index |-> 0] IN
           WellFormed(c) /\ Contents(c) = << >>
<1>. DEFINE c == [buff |-> b.buff, read_index |-> 0, write_index |-> 0]
<1>1. WellFormed(c) /\ c.read_index = 0 /\ c.write_index = 0
  BY BufferAssumption DEF WellFormed, Buffers
<1>. HIDE DEF c
<1>2. ReadableBytes(c) = 0
  BY <1>1 DEF ReadableBytes
<1>3. Contents(c) = << >>
  BY <1>1, <1>2, ContentsType
<1>. QED  BY <1>1, <1>3 DEF c

\* The invariant.
LEMMA TypeOKIsWellFormed == TypeOK <=> WellFormed(buf)
BY DEF TypeOK, WellFormed

\* What an append, a receive and a read make of a well-formed buffer.
LEMMA AppendStep ==
    ASSUME WellFormed(buf), NEW data \in Seq(Byte), AppendBytes(data)
    PROVE  /\ WellFormed(buf')
           /\ CanWrite(buf, Len(data)) => Contents(buf)' = Contents(buf) \o data
<1>1. data \in Seq(Cell) /\ Len(data) \in Nat
  BY ByteSeqIsCellSeq
<1>2. CASE CanWrite(buf, Len(data))
  <2>. DEFINE e == EnsureWritableBytes(buf, Len(data))
  <2>1. /\ WellFormed(e)
        /\ Contents(e) = Contents(buf)
        /\ Len(data) <= WritableBytes(e)
    BY <1>1, <1>2, EnsureWritableMakesRoom, IndexType
  <2>2. buf' = Grow(CopyTo(e, e.write_index, data), Len(data))
    BY <1>2 DEF AppendBytes
  <2>. HIDE DEF e
  <2>. QED  BY <1>1, <2>1, <2>2, StoreAtEndAppends
<1>3. CASE ~CanWrite(buf, Len(data))
  BY <1>3 DEF AppendBytes
<1>. QED  BY <1>2, <1>3

LEMMA ReceiveStep ==
    ASSUME WellFormed(buf), NEW data \in Seq(Byte), Len(data) <= ReadChunk,
           ReadToBuffer(data)
    PROVE  /\ WellFormed(buf')
           /\ CanWrite(buf, ReadChunk) =>
                /\ Contents(buf') \in [1..(Len(Contents(buf)) + Len(data)) -> Cell]
                /\ \A i \in 1..Len(data) : Contents(buf')[i] = data[i]
                /\ \A i \in (Len(data) + 1)..Len(Contents(buf)) :
                      Contents(buf')[i] = Contents(buf)[i]
<1>1. data \in Seq(Cell) /\ Len(data) \in Nat /\ ReadChunk \in Nat
  BY ByteSeqIsCellSeq, BufferAssumption
<1>2. CASE CanWrite(buf, ReadChunk)
  <2>. DEFINE e == EnsureWritableBytes(buf, ReadChunk)
  <2>1. /\ WellFormed(e)
        /\ Contents(e) = Contents(buf)
        /\ ReadChunk <= WritableBytes(e)
    BY <1>1, <1>2, EnsureWritableMakesRoom, IndexType
  <2>2. /\ Len(data) <= WritableBytes(e)
        /\ ReadableBytes(e) = Len(Contents(buf))
    BY <1>1, <2>1, IndexType, ContentsType
  <2>3. buf' = Grow(CopyTo(e, e.read_index, data), Len(data))
    BY <1>2 DEF ReadToBuffer
  <2>. HIDE DEF e
  <2>. QED  BY <1>1, <2>1, <2>2, <2>3, StoreAtDataOverwrites
<1>3. CASE ~CanWrite(buf, ReadChunk)
  BY <1>3 DEF ReadToBuffer
<1>. QED  BY <1>2, <1>3

\* The object is well formed after any sequence of calls, so every unsigned
\* subtraction in Buffer.h is exact and the asserts of Buffer.cpp hold, for any
\* capacity and any lengths.  The invariant is inductive as it stands.
THEOREM TypeCorrect == Spec => []TypeOK
<1>1. Init => TypeOK
  BY BufferAssumption DEF Init, EmptyBuffer, TypeOK, Buffers, Cell
<1>2. TypeOK /\ [Next]_vars => TypeOK'
  <2>. SUFFICES ASSUME WellFormed(buf), [Next]_vars
                PROVE  WellFormed(buf')
    BY TypeOKIsWellFormed DEF TypeOK, WellFormed
  <2>. USE BufferAssumption
  <2>1. ASSUME NEW data \in SeqOf(Byte, MaxLen), AppendBytes(data)
        PROVE  WellFormed(buf')
    BY <2>1, DataIsSeq, AppendStep
  <2>2. ASSUME NEW n \in 0..MaxLen, EnsureWritable(n)
        PROVE  WellFormed(buf')
    <3>1. buf' = buf \/ buf' = EnsureWritableBytes(buf, n)
      BY <2>2 DEF EnsureWritable
    <3>2. WellFormed(EnsureWritableBytes(buf, n))
      BY EnsureWritableMakesRoom
    <3>. QED  BY <3>1, <3>2
  <2>3. ASSUME NEW n \in 0..MaxLen, ExtendReadBytes(n)
        PROVE  WellFormed(buf')
    <3>1. CASE WritableBytes(buf) < n
      BY <2>3, <3>1 DEF ExtendReadBytes
    <3>2. CASE ~(WritableBytes(buf) < n)
      <4>1. n \in Nat /\ buf.write_index + n <= Capacity
        BY <3>2, IndexType
      <4>2. buf' = Grow(buf, n)
        BY <2>3, <3>2 DEF ExtendReadBytes
      <4>. QED  BY <4>1, <4>2, GrowType
    <3>. QED  BY <3>1, <3>2
  <2>4. ASSUME NEW n \in 0..MaxLen, ReadBytesToString(n)
        PROVE  WellFormed(buf')
    <3>1. CASE n > ReadableBytes(buf)
      BY <2>4, <3>1 DEF ReadBytesToString
    <3>2. CASE ~(n > ReadableBytes(buf))
      <4>1. n \in 0..ReadableBytes(buf)
        BY <3>2, IndexType
      <4>2. buf' = Drop(buf, n)
        BY <2>4, <3>2 DEF ReadBytesToString
      <4>. QED  BY <4>1, <4>2, DropIsSubSeq
    <3>. QED  BY <3>1, <3>2
  <2>5. ASSUME NEW n \in 0..MaxLen, ReadBytes(n)
        PROVE  WellFormed(buf')
    <3>1. CASE n > ReadableBytes(buf)
      BY <2>5, <3>1 DEF ReadBytes
    <3>2. CASE ~(n > ReadableBytes(buf))
      <4>1. n \in 0..ReadableBytes(buf)
        BY <3>2, IndexType
      <4>2. buf' = Drop(buf, n)
        BY <2>5, <3>2 DEF ReadBytes
      <4>. QED  BY <4>1, <4>2, DropIsSubSeq
    <3>. QED  BY <3>1, <3>2
  <2>6. ASSUME NEW d \in Delimiters, Find(d)
        PROVE  WellFormed(buf')
    BY <2>6 DEF Find
  <2>7. CASE Clear
    BY <2>7, ClearType DEF Clear
  <2>8. ASSUME NEW data \in SeqOf(Byte, ReadChunk), ReadToBuffer(data)
        PROVE  WellFormed(buf')
    BY <2>8, DataIsSeq, ReceiveStep
  <2>9. CASE UNCHANGED vars
    BY <2>9 DEF vars
  <2>. QED  BY <2>1, <2>2, <2>3, <2>4, <2>5, <2>6, <2>7, <2>8, <2>9 DEF Next
<1>. QED  BY <1>1, <1>2, PTL DEF Spec

\* Clients of a Buffer see ByteQueue, for every capacity, chunk size and byte
\* set: a FIFO whose only surprises are extendReadBytes and the store at data().
THEOREM Refinement == Spec => RefinesByteQueue
<1>. USE BufferAssumption
<1>1. Init => BQ!Init
  <2>. SUFFICES ASSUME Init
                PROVE  BQ!Init
    OBVIOUS
  <2>1. Contents(buf) = << >>
    BY DEF Init, EmptyBuffer, Contents, ReadableBytes
  <2>. QED  BY <2>1 DEF Init, BQ!Init, Ret, BQ!Ret
<1>2. TypeOK /\ [Next]_vars => [BQ!Next]_(BQ!vars)
  <2>. SUFFICES ASSUME WellFormed(buf), [Next]_vars
                PROVE  [BQ!Next]_(BQ!vars)
    BY TypeOKIsWellFormed
  <2>0. /\ ReadableBytes(buf) = Len(Contents(buf))
        /\ ReadableBytes(buf) \in Nat
        /\ \A n \in Nat : CanWrite(buf, n) <=> BQ!Fits(n)
    BY ContentsType, IndexType, CanWriteIsFits DEF BQ!Fits
  <2>1. ASSUME NEW data \in SeqOf(Byte, MaxLen), AppendBytes(data)
        PROVE  BQ!AppendBytes(data)
    <3>1. data \in Seq(Byte) /\ Len(data) \in Nat
      BY DataIsSeq
    <3>2. CASE CanWrite(buf, Len(data))
      BY <2>0, <2>1, <3>1, <3>2, AppendStep DEF AppendBytes, BQ!AppendBytes, Ret, BQ!Ret
    <3>3. CASE ~CanWrite(buf, Len(data))
      BY <2>0, <2>1, <3>1, <3>3 DEF AppendBytes, BQ!AppendBytes, Ret, BQ!Ret
    <3>. QED  BY <3>2, <3>3
  <2>2. ASSUME NEW n \in 0..MaxLen, EnsureWritable(n)
        PROVE  BQ!EnsureWritable(n)
    <3>1. CASE CanWrite(buf, n)
      BY <2>0, <2>2, <3>1, EnsureWritableMakesRoom
         DEF EnsureWritable, BQ!EnsureWritable, Ret, BQ!Ret
    <3>2. CASE ~CanWrite(buf, n)
      BY <2>0, <2>2, <3>2 DEF EnsureWritable, BQ!EnsureWritable, Ret, BQ!Ret
    <3>. QED  BY <3>1, <3>2
  <2>3. ASSUME NEW n \in 0..MaxLen, ExtendReadBytes(n)
        PROVE  BQ!Extend(n)
    <3>1. CASE WritableBytes(buf) < n
      <4>1. n > 0
        BY <3>1, IndexType
      <4>. QED  BY <2>3, <3>1, <4>1 DEF ExtendReadBytes, BQ!Extend, Ret, BQ!Ret
    <3>2. CASE ~(WritableBytes(buf) < n)
      <4>1. n \in Nat /\ n <= WritableBytes(buf) /\ CanWrite(buf, n)
        BY <3>2, IndexType DEF CanWrite, PrependableBytes
      <4>2. \E cells \in [1..n -> Cell] : Contents(buf)' = Contents(buf) \o cells
        BY <2>3, <3>2, <4>1, GrowAppendsCells DEF ExtendReadBytes
      <4>. QED  BY <2>0, <2>3, <3>2, <4>1, <4>2
                DEF ExtendReadBytes, BQ!Extend, Ret, BQ!Ret, Cell, BQ!Cell
    <3>. QED  BY <3>1, <3>2
  <2>4. ASSUME NEW n \in 0..MaxLen, ReadBytesToString(n)
        PROVE  BQ!ReadToString(n)
    <3>1. CASE n > ReadableBytes(buf)
      BY <2>0, <2>4, <3>1 DEF ReadBytesToString, BQ!ReadToString, Ret, BQ!Ret
    <3>2. CASE ~(n > ReadableBytes(buf))
      <4>1. n \in 0..ReadableBytes(buf) /\ n <= Len(Contents(buf))
        BY <2>0, <3>2
      <4>2. Contents(buf)' = SubSeq(Contents(buf), n + 1, Len(Contents(buf)))
        BY <2>4, <3>2, <4>1, DropIsSubSeq DEF ReadBytesToString
      <4>. QED  BY <2>4, <3>2, <4>1, <4>2
                DEF ReadBytesToString, BQ!ReadToString, Ret, BQ!Ret
    <3>. QED  BY <3>1, <3>2
  <2>5. ASSUME NEW n \in 0..MaxLen, ReadBytes(n)
        PROVE  BQ!Discard(n)
    <3>1. CASE n > ReadableBytes(buf)
      BY <2>0, <2>5, <3>1 DEF ReadBytes, BQ!Discard, Ret, BQ!Ret
    <3>2. CASE ~(n > ReadableBytes(buf))
      <4>1. n \in 0..ReadableBytes(buf) /\ n <= Len(Contents(buf))
        BY <2>0, <3>2
      <4>2. Contents(buf)' = SubSeq(Contents(buf), n + 1, Len(Contents(buf)))
        BY <2>5, <3>2, <4>1, DropIsSubSeq DEF ReadBytes
      <4>. QED  BY <2>5, <3>2, <4>1, <4>2 DEF ReadBytes, BQ!Discard, Ret, BQ!Ret
    <3>. QED  BY <3>1, <3>2
  <2>6. ASSUME NEW d \in Delimiters, Find(d)
        PROVE  BQ!Find(d)
    <3>1. \A i \in Nat : MatchAt(buf, d, i) <=> BQ!OccursAt(d, i)
      BY MatchIsOccurrence DEF BQ!OccursAt
    <3>2. \A i \in 0..(ReadableBytes(buf) - 1) :
             i \in Nat /\ \A j \in 0..(i - 1) : j \in Nat
      BY <2>0
    <3>3. Contents(buf)' = Contents(buf)
      BY <2>6 DEF Find
    <3>. QED  BY <2>0, <2>6, <3>1, <3>2, <3>3 DEF Find, BQ!Find, Ret, BQ!Ret
  <2>7. ASSUME Clear
        PROVE  BQ!Clear
    <3>1. Contents(buf)' = << >>
      BY <2>7, ClearType DEF Clear
    <3>. QED  BY <2>7, <3>1 DEF Clear, BQ!Clear, Ret, BQ!Ret
  <2>8. ASSUME NEW data \in SeqOf(Byte, ReadChunk), ReadToBuffer(data)
        PROVE  BQ!Receive(data)
    <3>1. data \in Seq(Byte) /\ Len(data) <= ReadChunk
      BY DataIsSeq
    <3>2. CASE CanWrite(buf, ReadChunk)
      <4>. DEFINE cells == Contents(buf')
      <4>1. /\ cells \in [1..(Len(Contents(buf)) + Len(data)) -> Cell]
            /\ \A i \in 1..Len(data) : cells[i] = data[i]
            /\ \A i \in (Len(data) + 1)..Len(Contents(buf)) : cells[i] = Contents(buf)[i]
        BY <2>8, <3>1, <3>2, ReceiveStep
      <4>2. /\ Contents(buf)' = cells
            /\ out' = Ret("readToBuffer", TRUE, 0, << >>)
        BY <2>8, <3>2 DEF ReadToBuffer
      <4>. HIDE DEF cells
      <4>. QED  BY <2>0, <3>2, <4>1, <4>2 DEF BQ!Receive, Ret, BQ!Ret, Cell, BQ!Cell
    <3>3. CASE ~CanWrite(buf, ReadChunk)
      BY <2>0, <2>8, <3>3 DEF ReadToBuffer, BQ!Receive, Ret, BQ!Ret
    <3>. QED  BY <3>2, <3>3
  <2>9. ASSUME UNCHANGED vars
        PROVE  UNCHANGED BQ!vars
    <3>1. buf' = buf /\ out' = out
      BY <2>9 DEF vars
    <3>2. Contents(buf)' = Contents(buf)
      BY <3>1
    <3>. QED  BY <3>1, <3>2 DEF BQ!vars
  <2>. QED  BY <2>1, <2>2, <2>3, <2>4, <2>5, <2>6, <2>7, <2>8, <2>9
            DEF Next, BQ!Next, SeqOf, BQ!SeqOf
<1>. QED  BY <1>1, <1>2, TypeCorrect, PTL DEF Spec, RefinesByteQueue, BQ!Spec
=============================================================================
