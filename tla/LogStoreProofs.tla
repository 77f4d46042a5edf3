---------------------------- MODULE LogStoreProofs -----------------------------
(***************************************************************************)
(* LogWriter implements LogStream, for every number of sessions, streams,    *)
(* allocations and bytes: whatever the races, resets and evictions, a byte     *)
(* once accepted keeps its place until it is evicted behind the cap.          *)
(***************************************************************************)
EXTENDS LogWriterProofs

-----------------------------------------------------------------------------
(* What chunks and buffers hold. *)

(* The bytes of a buffer that begins at an offset, those after its first lo up to  *)
(* the hi-th, and those of a set of chunks.                                   *)
Written(at, buf) == { <<at + k - 1, buf[k]>> : k \in 1 .. Len(buf) }
WrittenPart(at, buf, lo, hi) == { <<at + k - 1, buf[k]>> : k \in lo + 1 .. hi }
Content(C) == UNION { BytesOf(c) : c \in C }

LEMMA ContentOfUnion ==
  ASSUME NEW C, NEW D
  PROVE  Content(C \cup D) = Content(C) \cup Content(D)
BY DEF Content

LEMMA ContentOfOne ==
  ASSUME NEW at, NEW buf
  PROVE  Content({RemainderChunk(at, buf)}) = Written(at, buf)
BY DEF Content, RemainderChunk, BytesOf, Written

LEMMA WrittenNothing ==
  ASSUME NEW at
  PROVE  Written(at, <<>>) = {}
BY DEF Written

(* A chunk's bytes lie between its two ends.                                 *)
LEMMA ContentBetween ==
  ASSUME NEW at \in Nat, NEW buf \in Seq(Bytes), NEW x \in Written(at, buf)
  PROVE  x[1] \in Int /\ at <= x[1] /\ x[1] < at + Len(buf)
<1>1. Len(buf) \in Nat
  BY LenProperties
<1>2. PICK k \in 1 .. Len(buf) : x = <<at + k - 1, buf[k]>>
  BY DEF Written
<1> QED
  BY <1>1, <1>2

(* Every offset of a buffer is written, with one byte.                       *)
LEMMA WrittenAt ==
  ASSUME NEW at \in Nat, NEW buf \in Seq(Bytes), NEW o \in at .. at + Len(buf) - 1
  PROVE  \E x \in Written(at, buf) : x[1] = o
<1>1. Len(buf) \in Nat
  BY LenProperties
<1>2. o - at + 1 \in 1 .. Len(buf) /\ at + (o - at + 1) - 1 = o
  BY <1>1
<1>3. <<at + (o - at + 1) - 1, buf[o - at + 1]>> \in Written(at, buf)
  BY <1>2 DEF Written
<1> QED
  BY <1>2, <1>3

LEMMA WrittenOnce ==
  ASSUME NEW at \in Nat, NEW buf \in Seq(Bytes),
         NEW x \in Written(at, buf), NEW y \in Written(at, buf), x[1] = y[1]
  PROVE  x = y
<1>1. Len(buf) \in Nat
  BY LenProperties
<1>2. PICK k \in 1 .. Len(buf) : x = <<at + k - 1, buf[k]>>
  BY DEF Written
<1>3. PICK m \in 1 .. Len(buf) : y = <<at + m - 1, buf[m]>>
  BY DEF Written
<1>4. k = m
  BY <1>1, <1>2, <1>3
<1> QED
  BY <1>2, <1>3, <1>4

(* Bytes appended to a buffer follow it.                                     *)
LEMMA WrittenConcat ==
  ASSUME NEW at \in Nat, NEW u \in Seq(Bytes), NEW v \in Seq(Bytes)
  PROVE  Written(at, u \o v) = Written(at, u) \cup Written(at + Len(u), v)
<1>1. /\ Len(u) \in Nat /\ Len(v) \in Nat
      /\ Len(u \o v) = Len(u) + Len(v)
      /\ \A i \in 1 .. Len(u) : (u \o v)[i] = u[i]
      /\ \A i \in 1 .. Len(v) : (u \o v)[Len(u) + i] = v[i]
  BY LenProperties, ConcatProperties
<1>2. ASSUME NEW k \in 1 .. Len(u \o v)
      PROVE  <<at + k - 1, (u \o v)[k]>> \in Written(at, u) \cup Written(at + Len(u), v)
  <2>0. k <= Len(u) \/ k > Len(u)
    BY <1>1
  <2>1. CASE k <= Len(u)
    <3>1. k \in 1 .. Len(u) /\ (u \o v)[k] = u[k]
      BY <1>1, <2>1
    <3> QED
      BY <3>1 DEF Written
  <2>2. CASE k > Len(u)
    <3>1. /\ k - Len(u) \in 1 .. Len(v)
          /\ Len(u) + (k - Len(u)) = k
          /\ at + Len(u) + (k - Len(u)) - 1 = at + k - 1
      BY <1>1, <2>2
    <3>2. (u \o v)[k] = v[k - Len(u)]
      BY <1>1, <3>1
    <3> QED
      BY <3>1, <3>2 DEF Written
  <2> QED
    BY <2>0, <2>1, <2>2
<1>3. ASSUME NEW k \in 1 .. Len(u)
      PROVE  <<at + k - 1, u[k]>> \in Written(at, u \o v)
  <2>1. k \in 1 .. Len(u \o v) /\ (u \o v)[k] = u[k]
    BY <1>1
  <2> QED
    BY <2>1 DEF Written
<1>4. ASSUME NEW k \in 1 .. Len(v)
      PROVE  <<at + Len(u) + k - 1, v[k]>> \in Written(at, u \o v)
  <2>1. /\ Len(u) + k \in 1 .. Len(u \o v) /\ (u \o v)[Len(u) + k] = v[k]
        /\ at + (Len(u) + k) - 1 = at + Len(u) + k - 1
    BY <1>1
  <2> QED
    BY <2>1 DEF Written
<1> QED
  BY <1>2, <1>3, <1>4 DEF Written

-----------------------------------------------------------------------------
(* What a flush writes. *)

(* A slice of a buffer, put where it was, holds the slice's bytes.             *)
LEMMA SliceHolds ==
  ASSUME NEW buf \in Seq(Bytes), NEW at \in Nat, NEW lo \in Nat, NEW hi \in Nat,
         lo <= hi, hi <= Len(buf)
  PROVE  Written(at + lo, SubSeq(buf, lo + 1, hi)) = WrittenPart(at, buf, lo, hi)
<1> DEFINE data == SubSeq(buf, lo + 1, hi)
<1>1. \A k \in lo + 1 .. hi : buf[k] \in Bytes
  <2>1. Len(buf) \in Nat /\ \A k \in 1 .. Len(buf) : buf[k] \in Bytes
    BY LenProperties, ElementOfSeq
  <2> QED
    BY <2>1
<1>2. /\ Len(data) = IF lo + 1 <= hi THEN hi - (lo + 1) + 1 ELSE 0
      /\ \A j \in 1 .. hi - (lo + 1) + 1 : data[j] = buf[lo + 1 + j - 1]
  <2> DEFINE m == lo + 1
  <2>1. m \in Int /\ hi \in Int
    OBVIOUS
  <2>2. \A k \in m .. hi : buf[k] \in Bytes
    BY <1>1
  <2> HIDE DEF m
  <2>3. /\ SubSeq(buf, m, hi) \in Seq(Bytes)
        /\ Len(SubSeq(buf, m, hi)) = IF m <= hi THEN hi - m + 1 ELSE 0
        /\ \A j \in 1 .. hi - m + 1 : SubSeq(buf, m, hi)[j] = buf[m + j - 1]
    BY <2>1, <2>2, SubSeqProperties
  <2> QED
    BY <2>3 DEF m
<1> HIDE DEF data
<1>3. Len(data) = hi - lo
  BY <1>2
<1>4. ASSUME NEW x \in Written(at + lo, data)
      PROVE  x \in { <<at + k - 1, buf[k]>> : k \in lo + 1 .. hi }
  <2>1. PICK j \in 1 .. hi - lo : x = <<at + lo + j - 1, data[j]>>
    BY <1>3 DEF Written
  <2>2. /\ data[j] = buf[lo + 1 + j - 1] /\ lo + 1 + j - 1 \in lo + 1 .. hi
        /\ at + lo + j - 1 = at + (lo + 1 + j - 1) - 1
    BY <1>2
  <2> QED
    BY <2>1, <2>2
<1>5. ASSUME NEW k \in lo + 1 .. hi
      PROVE  <<at + k - 1, buf[k]>> \in Written(at + lo, data)
  <2>1. /\ k - lo \in 1 .. Len(data) /\ data[k - lo] = buf[lo + 1 + (k - lo) - 1]
        /\ lo + 1 + (k - lo) - 1 = k
    BY <1>2, <1>3
  <2>2. at + lo + (k - lo) - 1 = at + k - 1
    OBVIOUS
  <2> QED
    BY <2>1, <2>2 DEF Written
<1> QED
  BY <1>4, <1>5 DEF data, WrittenPart

(* The chunk a byte of a full part falls in.                                 *)
LEMMA ChunkNumber ==
  ASSUME NEW n \in Nat, NEW m \in Nat \ {0}, NEW k \in 1 .. n * m
  PROVE  \E i \in 0 .. n - 1 : i * m + 1 <= k /\ k <= (i + 1) * m
<1> DEFINE i == (k - 1) \div m
<1>1. n * m \in Nat /\ k - 1 \in Nat
  OBVIOUS
<1>2. ASSUME NEW a \in Nat
      PROVE  a \div m \in Nat /\ (a \div m) * m <= a /\ a < ((a \div m) + 1) * m
  OBVIOUS
<1>3. i \in Nat /\ i * m <= k - 1 /\ k - 1 < (i + 1) * m
  BY <1>1, <1>2
<1> HIDE DEF i
<1>4. i < n
  <2> SUFFICES ASSUME n <= i PROVE FALSE
    BY <1>3
  <2>1. n * m <= i * m
    BY <1>3
  <2> QED
    BY <1>1, <1>3, <2>1
<1>5. i * m + 1 <= k /\ k <= (i + 1) * m
  <2> DEFINE lo == i * m
             hi == (i + 1) * m
  <2>1. lo \in Int /\ hi \in Int /\ k \in Int /\ lo <= k - 1 /\ k - 1 < hi
    BY <1>1, <1>3
  <2> HIDE DEF lo, hi
  <2>2. lo + 1 <= k /\ k <= hi
    BY <2>1
  <2> QED
    BY <2>2 DEF lo, hi
<1>6. i \in 0 .. n - 1
  BY <1>3, <1>4
<1> QED
  BY <1>5, <1>6

(* The full chunks of a buffer hold its first FullLen bytes.                 *)
LEMMA FullChunksHold ==
  ASSUME NEW buf \in Seq(Bytes), NEW at \in Nat
  PROVE  Content(FullChunks(at, buf)) = WrittenPart(at, buf, 0, FullLen(buf))
<1> DEFINE n == FullChunkCount(buf)
           C(i) == [start |-> at + i * ChunkBytes,
                    data |-> SubSeq(buf, i * ChunkBytes + 1, (i + 1) * ChunkBytes)]
<1>1. /\ ChunkBytes \in Nat \ {0} /\ n \in Nat /\ Len(buf) \in Nat
      /\ FullLen(buf) = n * ChunkBytes /\ FullLen(buf) \in 0 .. Len(buf)
  BY SizesAssumption, FullLenBound DEF FullLen
<1>2. FullChunks(at, buf) = { C(i) : i \in 0 .. n - 1 }
  BY DEF FullChunks
<1>3. ASSUME NEW i \in 0 .. n - 1
      PROVE  BytesOf(C(i))
               = WrittenPart(at, buf, i * ChunkBytes, (i + 1) * ChunkBytes)
  <2> DEFINE lo == i * ChunkBytes
             hi == (i + 1) * ChunkBytes
  <2>1. lo \in Nat /\ hi \in Nat /\ hi = lo + ChunkBytes
    BY <1>1
  <2>2. hi <= Len(buf)
    BY <1>1, <2>1, FullChunkShape
  <2> HIDE DEF lo, hi
  <2>3. Written(at + lo, SubSeq(buf, lo + 1, hi)) = WrittenPart(at, buf, lo, hi)
    <3>1. lo <= hi
      BY <1>1, <2>1
    <3> QED
      BY <2>1, <2>2, <3>1, SliceHolds
  <2>4. BytesOf(C(i)) = Written(at + lo, SubSeq(buf, lo + 1, hi))
    BY DEF BytesOf, Written, lo, hi
  <2> QED
    BY <2>3, <2>4 DEF lo, hi
<1>4. \A i \in 0 .. n - 1 :
        i * ChunkBytes \in Nat /\ (i + 1) * ChunkBytes \in Nat
        /\ (i + 1) * ChunkBytes <= FullLen(buf)
  BY <1>1, FullChunkShape
<1> HIDE DEF C, n
<1>5. ASSUME NEW x \in Content(FullChunks(at, buf))
      PROVE  x \in WrittenPart(at, buf, 0, FullLen(buf))
  <2>1. PICK i \in 0 .. n - 1 : x \in BytesOf(C(i))
    BY <1>2, <1>5 DEF Content
  <2>2. PICK k \in i * ChunkBytes + 1 .. (i + 1) * ChunkBytes : x = <<at + k - 1, buf[k]>>
    BY <1>3, <2>1 DEF WrittenPart
  <2>3. k \in 0 + 1 .. FullLen(buf)
    BY <1>1, <1>4, <2>2
  <2> QED
    BY <2>2, <2>3 DEF WrittenPart
<1>6. ASSUME NEW k \in 0 + 1 .. FullLen(buf)
      PROVE  <<at + k - 1, buf[k]>> \in Content(FullChunks(at, buf))
  <2>0. k \in 1 .. n * ChunkBytes
    BY <1>1
  <2>1. PICK i \in 0 .. n - 1 : i * ChunkBytes + 1 <= k /\ k <= (i + 1) * ChunkBytes
    BY <1>1, <2>0, ChunkNumber
  <2>2. k \in i * ChunkBytes + 1 .. (i + 1) * ChunkBytes
    BY <1>1, <1>4, <2>1
  <2>3. <<at + k - 1, buf[k]>> \in BytesOf(C(i))
    BY <1>3, <2>2 DEF WrittenPart
  <2> QED
    BY <1>2, <2>3 DEF Content
<1> QED
  BY <1>5, <1>6 DEF WrittenPart

(* The rest of the buffer holds the others.                                   *)
LEMMA RemainderHolds ==
  ASSUME NEW buf \in Seq(Bytes), NEW at \in Nat
  PROVE  Content(FullChunks(at, buf)) \cup Written(at + FullLen(buf), Remainder(buf))
           = Written(at, buf)
<1> DEFINE f == FullLen(buf)
           rest == Remainder(buf)
<1>1. Len(buf) \in Nat /\ f \in 0 .. Len(buf)
  BY FullLenBound
<1>2. Content(FullChunks(at, buf)) = WrittenPart(at, buf, 0, f)
  BY FullChunksHold
<1> HIDE DEF f
<1>3. Written(at + f, rest) = WrittenPart(at, buf, f, Len(buf))
  <2>1. f \in Nat /\ f <= Len(buf)
    BY <1>1
  <2> QED
    BY <1>1, <2>1, SliceHolds DEF Remainder, f
<1> HIDE DEF rest
<1>4. Written(at, buf) = WrittenPart(at, buf, 0, f) \cup WrittenPart(at, buf, f, Len(buf))
  <2>1. \A k : k \in 1 .. Len(buf) <=> k \in 0 + 1 .. f \/ k \in f + 1 .. Len(buf)
    BY <1>1
  <2> QED
    BY <2>1 DEF Written, WrittenPart
<1> QED
  BY <1>2, <1>3, <1>4 DEF f, rest

-----------------------------------------------------------------------------
(* What a stream holds. *)

(* The bytes of a stream with these chunks and this row, and its end.        *)
Held(C, row) == Content(C) \cup Written(row.persisted, row.staging)
Top(row) == row.persisted + Len(row.staging)

LEMMA PlacedIsHeld ==
  ASSUME NEW s
  PROVE  Placed(s) = Held(chunks[s], rows[s]) /\ HighWater(s) = Top(rows[s])
<1> DEFINE row == rows[s]
<1>1. StagingChunk(s) = RemainderChunk(row.persisted, row.staging)
  BY DEF StagingChunk, RemainderChunk
<1>2. Placed(s) = Content(chunks[s] \cup {StagingChunk(s)})
  BY DEF Placed, Content
<1>3. Placed(s) = Content(chunks[s]) \cup Content({RemainderChunk(row.persisted, row.staging)})
  BY <1>1, <1>2, ContentOfUnion
<1> QED
  BY <1>3, ContentOfOne DEF Held, HighWater, Top

LEMMA RowParts ==
  ASSUME NEW row \in Row
  PROVE  /\ row.persisted \in Nat /\ row.staging \in Seq(Bytes)
         /\ Len(row.staging) \in Nat /\ Top(row) \in Nat
         /\ row.persisted <= Top(row)
<1>1. row.persisted \in Nat /\ row.staging \in Seq(Bytes)
  BY DEF Row
<1>2. Len(row.staging) \in Nat
  BY <1>1, LenProperties
<1> QED
  BY <1>1, <1>2 DEF Top

(* A byte of the chunk table is in a chunk, between its ends.                *)
LEMMA ContentInChunk ==
  ASSUME NEW C, NEW hi \in Nat, Settled(C, hi), NEW x \in Content(C)
  PROVE  \E c \in C : /\ x \in Written(c.start, c.data)
                      /\ c.start \in Nat /\ c.data \in Seq(Bytes)
                      /\ End(c) \in Nat /\ End(c) <= hi
                      /\ x[1] \in Int /\ c.start <= x[1] /\ x[1] < End(c)
<1>1. PICK c \in C : x \in BytesOf(c)
  BY DEF Content
<1>2. x \in Written(c.start, c.data)
  BY <1>1 DEF BytesOf, Written
<1>3. /\ c \in Chunk /\ c.start \in Nat /\ c.data \in Seq(Bytes)
      /\ End(c) \in Nat /\ End(c) <= hi
  BY ChunkSize DEF Settled, Chunk
<1>4. x[1] \in Int /\ c.start <= x[1] /\ x[1] < End(c)
  BY <1>2, <1>3, ContentBetween DEF End
<1> QED
  BY <1>2, <1>3, <1>4

(* A stream holds one byte at an offset, and none past its end.              *)
LEMMA HeldOnce ==
  ASSUME NEW row \in Row, NEW C, Settled(C, row.persisted)
  PROVE  /\ \A x \in Held(C, row) : x[1] \in Int /\ x[1] < Top(row)
         /\ \A x, y \in Held(C, row) : x[1] = y[1] => x = y
<1>0. /\ row.persisted \in Nat /\ row.staging \in Seq(Bytes)
      /\ Top(row) \in Nat /\ row.persisted <= Top(row)
  BY RowParts
<1>1. ASSUME NEW x \in Content(C)
      PROVE  x[1] \in Int /\ x[1] < row.persisted
  <2>1. PICK c \in C : /\ End(c) \in Nat /\ End(c) <= row.persisted
                       /\ x[1] \in Int /\ x[1] < End(c)
    BY <1>0, ContentInChunk
  <2> QED
    BY <1>0, <2>1
<1>2. ASSUME NEW x \in Written(row.persisted, row.staging)
      PROVE  x[1] \in Int /\ row.persisted <= x[1] /\ x[1] < Top(row)
  BY <1>0, ContentBetween DEF Top
<1>3. ASSUME NEW x \in Content(C), NEW y \in Content(C), x[1] = y[1]
      PROVE  x = y
  <2>1. PICK c \in C : /\ x \in Written(c.start, c.data)
                       /\ c.start \in Nat /\ c.data \in Seq(Bytes) /\ End(c) \in Nat
                       /\ x[1] \in Int /\ c.start <= x[1] /\ x[1] < End(c)
    BY <1>0, ContentInChunk
  <2>2. PICK d \in C : /\ y \in Written(d.start, d.data)
                       /\ d.start \in Nat /\ d.data \in Seq(Bytes) /\ End(d) \in Nat
                       /\ y[1] \in Int /\ d.start <= y[1] /\ y[1] < End(d)
    BY <1>0, ContentInChunk
  <2>3. c = d
    <3>1. c = d \/ End(c) <= d.start \/ End(d) <= c.start
      BY DEF Settled
    <3> QED
      BY <1>3, <2>1, <2>2, <3>1
  <2> QED
    BY <1>3, <2>1, <2>2, <2>3, WrittenOnce
<1>4. \A x \in Held(C, row) : x[1] \in Int /\ x[1] < Top(row)
  BY <1>0, <1>1, <1>2 DEF Held
<1>5. ASSUME NEW x \in Held(C, row), NEW y \in Held(C, row), x[1] = y[1]
      PROVE  x = y
  <2>1. CASE x \in Content(C) /\ y \in Content(C)
    BY <1>3, <1>5, <2>1
  <2>2. CASE /\ x \in Written(row.persisted, row.staging)
             /\ y \in Written(row.persisted, row.staging)
    BY <1>0, <1>5, <2>2, WrittenOnce
  <2>3. CASE /\ x \in Content(C)
             /\ y \in Written(row.persisted, row.staging)
    BY <1>0, <1>1, <1>2, <1>5, <2>3
  <2>4. CASE /\ y \in Content(C)
             /\ x \in Written(row.persisted, row.staging)
    BY <1>0, <1>1, <1>2, <1>5, <2>4
  <2> QED
    BY <2>1, <2>2, <2>3, <2>4 DEF Held
<1> QED
  BY <1>4, <1>5

(* What an append adds to a stream is its effective bytes, at the end.        *)
LEMMA AppendWrites ==
  ASSUME NEW old \in Row, NEW r \in Request, NEW aged \in BOOLEAN
  PROVE  LET new == AppendedRow(old, r, aged)
             bytes == EffectiveNewBytes(old, r)
         IN /\ Held(AppendedChunks(old, r, aged), new)
                 = Written(old.persisted, old.staging) \cup Written(Top(old), bytes)
            /\ Top(new) = Top(old) + Len(bytes)
<1> DEFINE bytes == EffectiveNewBytes(old, r)
           staged == old.staging \o bytes
           rest == Remainder(staged)
           flushed == FlushesRemainder(rest, r.force, aged)
           mid == old.persisted + FullLen(staged)
           new == AppendedRow(old, r, aged)
<1>1. old.persisted \in Nat /\ old.staging \in Seq(Bytes) /\ Len(old.staging) \in Nat
  BY RowParts
<1>2. bytes \in Seq(Bytes) /\ Len(bytes) \in Nat
  BY EffectiveType, LenProperties
<1>3. staged \in Seq(Bytes) /\ Len(staged) = Len(old.staging) + Len(bytes)
  BY <1>1, <1>2, ConcatProperties
<1>4. Written(old.persisted, staged)
        = Written(old.persisted, old.staging) \cup Written(Top(old), bytes)
  BY <1>1, <1>2, WrittenConcat DEF Top
<1>5. /\ AppendedChunks(old, r, aged)
           = FullChunks(old.persisted, staged) \cup
               (IF flushed THEN {RemainderChunk(mid, rest)} ELSE {})
      /\ new.persisted = old.persisted + (IF flushed THEN Len(staged) ELSE FullLen(staged))
      /\ new.staging = (IF flushed THEN <<>> ELSE rest)
  BY DEF AppendedChunks, AppendedRow
<1> HIDE DEF bytes, staged, flushed, new
<1>6. FullLen(staged) \in 0 .. Len(staged) /\ Len(staged) \in Nat
      /\ Len(rest) = Len(staged) - FullLen(staged)
  BY <1>3, FullLenBound, RemainderType
<1>7. Content(FullChunks(old.persisted, staged)) \cup Written(mid, rest)
        = Written(old.persisted, staged)
  BY <1>1, <1>3, RemainderHolds
<1> HIDE DEF mid, rest
<1>8. Held(AppendedChunks(old, r, aged), new)
        = Content(FullChunks(old.persisted, staged)) \cup Written(mid, rest)
  <2>1. CASE flushed
    <3>1. Content(AppendedChunks(old, r, aged))
            = Content(FullChunks(old.persisted, staged)) \cup Written(mid, rest)
      <4>1. AppendedChunks(old, r, aged)
              = FullChunks(old.persisted, staged) \cup {RemainderChunk(mid, rest)}
        BY <1>5, <2>1
      <4>2. Content(AppendedChunks(old, r, aged))
              = Content(FullChunks(old.persisted, staged)) \cup Content({RemainderChunk(mid, rest)})
        BY <4>1, ContentOfUnion
      <4> QED
        BY <4>2, ContentOfOne
    <3> QED
      BY <1>5, <2>1, <3>1, WrittenNothing DEF Held
  <2>2. CASE ~flushed
    <3>1. AppendedChunks(old, r, aged) = FullChunks(old.persisted, staged)
      BY <1>5, <2>2
    <3>2. new.persisted = mid /\ new.staging = rest
      BY <1>5, <2>2 DEF mid
    <3> QED
      BY <3>1, <3>2 DEF Held
  <2> QED
    BY <2>1, <2>2
<1>9. Top(new) = Top(old) + Len(bytes)
  <2>1. CASE flushed
    BY <1>1, <1>2, <1>3, <1>5, <1>6, <2>1, EmptySeq DEF Top
  <2>2. CASE ~flushed
    BY <1>1, <1>2, <1>3, <1>5, <1>6, <2>2 DEF Top
  <2> QED
    BY <2>1, <2>2
<1> QED
  BY <1>4, <1>7, <1>8, <1>9 DEF bytes, new

-----------------------------------------------------------------------------
(* The steps of the store. *)

(* Fresh chunks do not meet the stored ones: all of them are inserted.        *)
LEMMA InsertsAll ==
  ASSUME NEW C, NEW D, NEW lo \in Nat, NEW hi \in Nat,
         Settled(C, lo), Tiles(D, lo, hi)
  PROVE  InsertChunks(C, D) = C \cup D
<1>1. /\ \A c \in C : c.start \in Nat /\ End(c) \in Nat /\ c.start < End(c) /\ End(c) <= lo
      /\ \A d \in D : d.start \in Nat /\ lo <= d.start
  BY ChunkSize DEF Settled, Tiles
<1> QED
  BY <1>1 DEF InsertChunks

(* Eviction only takes bytes more than StreamCap behind the frontier.         *)
LEMMA EvictionDrops ==
  ASSUME NEW C, NEW hi \in Nat, NEW previous \in Nat, Settled(C, hi)
  PROVE  /\ Content(EvictOverCap(C, hi, previous)) \subseteq Content(C)
         /\ \A x \in Content(C) \ Content(EvictOverCap(C, hi, previous)) :
              x[1] \in Int /\ x[1] < hi - StreamCap
<1>1. StreamCap \in Nat
  BY SizesAssumption
<1>2. EvictOverCap(C, hi, previous) \subseteq C
  BY DEF EvictOverCap
<1>3. ASSUME NEW x \in Content(C), x \notin Content(EvictOverCap(C, hi, previous))
      PROVE  x[1] \in Int /\ x[1] < hi - StreamCap
  <2>1. PICK c \in C : x \in BytesOf(c)
    BY DEF Content
  <2>2. c \notin EvictOverCap(C, hi, previous)
    BY <1>3, <2>1 DEF Content
  <2>3. c \in Evicted(C, hi - StreamCap)
    BY <2>2 DEF EvictOverCap
  <2>4. End(c) <= hi - StreamCap
    BY <2>3 DEF Evicted
  <2>5. x \in Written(c.start, c.data)
    BY <2>1 DEF BytesOf, Written
  <2>6. /\ c.start \in Nat /\ c.data \in Seq(Bytes) /\ End(c) \in Nat
    BY ChunkSize DEF Settled, Chunk
  <2>7. x[1] \in Int /\ x[1] < End(c)
    BY <2>5, <2>6, ContentBetween DEF End
  <2> QED
    BY <1>1, <2>4, <2>6, <2>7
<1> QED
  BY <1>2, <1>3 DEF Content

(* One stream's part of LogStream's Append, from what it held to what it holds.  *)
AppendsTo(P, high1, Q, high2) ==
  /\ high2 >= high1
  /\ \A o \in high1 .. high2 - 1 : o < high2 - StreamCap \/ \E x \in Q : x[1] = o
  /\ { x \in Q : x[1] < high1 } \subseteq P
  /\ \A x \in P \ Q : x[1] < high2 - StreamCap

LEMMA AppendAppends ==
  ASSUME NEW old \in Row, NEW r \in Request, NEW aged \in BOOLEAN,
         NEW C, Settled(C, old.persisted),
         NEW new, new = AppendedRow(old, r, aged),
         NEW C2, C2 = EvictOverCap(InsertChunks(C, AppendedChunks(old, r, aged)),
                                   new.persisted, old.persisted)
  PROVE  AppendsTo(Held(C, old), Top(old), Held(C2, new), Top(new))
<1> DEFINE D == AppendedChunks(old, r, aged)
           bytes == EffectiveNewBytes(old, r)
           added == Written(Top(old), bytes)
           low == Top(new) - StreamCap
<1>1. new \in Row /\ old.persisted <= new.persisted
      /\ Tiles(D, old.persisted, new.persisted)
  BY AppendTiles
<1>2. /\ old.persisted \in Nat /\ new.persisted \in Nat
      /\ Top(old) \in Nat /\ Top(new) \in Nat /\ new.persisted <= Top(new)
      /\ StreamCap \in Nat
  BY <1>1, RowParts, SizesAssumption
<1>3. bytes \in Seq(Bytes) /\ Len(bytes) \in Nat
  BY EffectiveType, LenProperties
<1>4. /\ Held(D, new) = Written(old.persisted, old.staging) \cup added
      /\ Top(new) = Top(old) + Len(bytes)
  BY AppendWrites
<1>5. /\ InsertChunks(C, D) = C \cup D /\ Settled(InsertChunks(C, D), new.persisted)
  BY <1>1, <1>2, InsertsAll, InsertSettles
<1> HIDE DEF D, bytes, added
<1>6. /\ Content(C2) \subseteq Content(C \cup D)
      /\ \A x \in Content(C \cup D) \ Content(C2) :
           x[1] \in Int /\ x[1] < new.persisted - StreamCap
  <2>1. C2 = EvictOverCap(C \cup D, new.persisted, old.persisted)
    BY <1>5 DEF D
  <2> QED
    BY <1>2, <1>5, <2>1, EvictionDrops
<1>7. Content(C \cup D) \cup Written(new.persisted, new.staging) = Held(C, old) \cup added
  BY <1>4, ContentOfUnion DEF Held
<1>8. Held(C2, new) \subseteq Held(C, old) \cup added
  BY <1>6, <1>7 DEF Held
<1>9. \A x \in (Held(C, old) \cup added) \ Held(C2, new) : x[1] < low
  <2> SUFFICES ASSUME NEW x \in Held(C, old) \cup added, x \notin Held(C2, new)
               PROVE  x[1] < low
    OBVIOUS
  <2>1. x \in Content(C \cup D) \ Content(C2)
    BY <1>7 DEF Held
  <2>2. x[1] \in Int /\ x[1] < new.persisted - StreamCap
    BY <1>6, <2>1
  <2> QED
    BY <1>2, <2>2
<1>10. \A x \in added : x[1] \in Int /\ Top(old) <= x[1]
  BY <1>2, <1>3, ContentBetween DEF added
<1>11. ASSUME NEW o \in Top(old) .. Top(new) - 1
       PROVE  \E x \in added : x[1] = o
  <2>1. o \in Top(old) .. Top(old) + Len(bytes) - 1
    BY <1>2, <1>3, <1>4
  <2>2. \E x \in Written(Top(old), bytes) : x[1] = o
    BY <1>2, <1>3, <2>1, WrittenAt
  <2> QED
    BY <2>2 DEF added
<1>12. { x \in Held(C2, new) : x[1] < Top(old) } \subseteq Held(C, old)
  BY <1>2, <1>8, <1>10
<1>13. \A o \in Top(old) .. Top(new) - 1 : o < low \/ \E x \in Held(C2, new) : x[1] = o
  BY <1>9, <1>11
<1>14. Top(new) >= Top(old)
  BY <1>2, <1>3, <1>4
<1> QED
  BY <1>9, <1>12, <1>13, <1>14 DEF AppendsTo

(* A reset that drains a stream turns its staging buffer into a chunk in place.  *)
LEMMA DrainKeeps ==
  ASSUME NEW old \in Row, old.staging # <<>>, NEW C, Settled(C, old.persisted),
         NEW new, new.persisted = Top(old), new.staging = <<>>
  PROVE  /\ Held(InsertChunks(C, {RemainderChunk(old.persisted, old.staging)}), new)
              = Held(C, old)
         /\ Top(new) = Top(old)
<1> DEFINE D == {RemainderChunk(old.persisted, old.staging)}
<1>1. /\ old.persisted \in Nat /\ old.staging \in Seq(Bytes) /\ Top(old) \in Nat
  BY RowParts
<1>2. Tiles(D, old.persisted, Top(old))
  BY <1>1, RemainderTiles DEF Top
<1>3. InsertChunks(C, D) = C \cup D
  BY <1>1, <1>2, InsertsAll
<1>4. Content(C \cup D) = Held(C, old)
  <2>1. Content(D) = Written(old.persisted, old.staging)
    BY ContentOfOne
  <2> QED
    BY <2>1, ContentOfUnion DEF Held
<1>5. Written(new.persisted, new.staging) = {}
  BY WrittenNothing
<1>6. Top(new) = Top(old)
  BY <1>1, EmptySeq DEF Top
<1> QED
  BY <1>3, <1>4, <1>5, <1>6 DEF Held

-----------------------------------------------------------------------------
(* The refinement. *)

(* A step that is not a write of the store keeps it, and so does a reset.      *)
LEMMA ResetKeeps ==
  ASSUME WriterInv, NEW w \in Writers, SessionStep(w), ~WriteRow(w), NEW s \in Streams
  PROVE  /\ Held(chunks'[s], rows'[s]) = Held(chunks[s], rows[s])
         /\ Top(rows'[s]) = Top(rows[s])
<1> USE DEF WriterInv
<1>1. CASE ~ResetWrite(w)
  BY <1>1 DEF SessionStep, BeginAppend, ReadRow, LockFirstInsert, LoseRace,
     BeginReset, ResetLock, ResetList, LoseDrain, Abort, dbVars
<1>2. CASE ResetWrite(w)
  <2>1. /\ rows'[s] = ResetRow(w, s)
        /\ chunks'[s] = IF s \in Drained(w)
             THEN InsertChunks(chunks[s],
                    {RemainderChunk(seen[w][s].persisted, seen[w][s].staging)})
             ELSE chunks[s]
    BY <1>2 DEF ResetWrite
  <2>2. rows[s] \in Row /\ Settled(chunks[s], rows[s].persisted)
    BY TileIsSettled DEF TypeOK
  <2>3. CASE s \in Drained(w)
    <3>1. seen[w][s] = rows[s]
      BY <1>2, <2>3 DEF ResetWrite, WinsDrain, SnapshotsAreVersioned, HasRead
    <3>2. rows[s].staging # <<>> /\ ~IsNew(rows[s])
      BY <2>3, <3>1 DEF Drained, MissingRowsAreDefault, DefaultRow
    <3>3. rows'[s].persisted = Top(rows[s]) /\ rows'[s].staging = <<>>
      BY <2>1, <2>3, <3>1, <3>2 DEF ResetRow, Top
    <3> QED
      BY <2>1, <2>2, <2>3, <3>1, <3>2, <3>3, DrainKeeps
  <2>4. CASE s \notin Drained(w)
    <3>1. /\ rows'[s].persisted = rows[s].persisted
          /\ rows'[s].staging = rows[s].staging
      <4>1. rows[s].persisted + 0 = rows[s].persisted
        BY <2>2, RowParts
      <4> QED
        BY <2>1, <2>4, <4>1 DEF ResetRow
    <3> QED
      BY <2>1, <2>4, <3>1 DEF Held, Top
  <2> QED
    BY <2>3, <2>4
<1> QED
  BY <1>1, <1>2

(* A write appends to the stream of its call.                                 *)
LEMMA WriteAppends ==
  ASSUME WriterInv, NEW w \in Writers, WriteRow(w)
  PROVE  \E t \in Streams :
           /\ AppendsTo(Held(chunks[t], rows[t]), Top(rows[t]),
                        Held(chunks'[t], rows'[t]), Top(rows'[t]))
           /\ \A s \in Streams \ {t} : rows'[s] = rows[s] /\ chunks'[s] = chunks[s]
<1> USE DEF WriterInv
<1> DEFINE r == call[w]
           t == r.stream
           old == seen[w][t]
<1>1. r \in Request /\ t \in Streams
  BY CallIsRequest DEF Request
<1>2. old = rows[t]
  BY <1>1 DEF WriteRow, StillCurrent, SnapshotsAreVersioned, HasRead
<1>3. PICK aged \in BOOLEAN :
        /\ rows' = [rows EXCEPT ![t] = AppendedRow(old, r, aged)]
        /\ chunks' = [chunks EXCEPT ![t] =
             EvictOverCap(InsertChunks(chunks[t], AppendedChunks(old, r, aged)),
               AppendedRow(old, r, aged).persisted, old.persisted)]
  BY DEF WriteRow
<1> HIDE DEF r, t, old
<1>4. /\ rows'[t] = AppendedRow(rows[t], r, aged)
      /\ chunks'[t] = EvictOverCap(InsertChunks(chunks[t], AppendedChunks(rows[t], r, aged)),
                                   rows'[t].persisted, rows[t].persisted)
      /\ \A s \in Streams \ {t} : rows'[s] = rows[s] /\ chunks'[s] = chunks[s]
  BY <1>1, <1>2, <1>3 DEF TypeOK
<1>5. rows[t] \in Row /\ Settled(chunks[t], rows[t].persisted)
  BY <1>1, TileIsSettled DEF TypeOK
<1> HIDE DEF WriterInv
<1>6. AppendsTo(Held(chunks[t], rows[t]), Top(rows[t]), Held(chunks'[t], rows'[t]), Top(rows'[t]))
  BY <1>1, <1>4, <1>5, AppendAppends
<1> QED
  BY <1>1, <1>4, <1>6

(* The empty store is an empty log.                                           *)
LEMMA StoreInit == WriterInit => Log!Init
<1> SUFFICES ASSUME WriterInit PROVE Log!Init
  OBVIOUS
<1>1. ASSUME NEW s \in Streams PROVE Placed(s) = {} /\ HighWater(s) = 0
  <2>1. rows[s].persisted = 0 /\ rows[s].staging = <<>> /\ chunks[s] = {}
    BY DEF WriterInit, NoRows, DefaultRow
  <2>2. Placed(s) = {}
    BY <2>1, PlacedIsHeld, WrittenNothing DEF Held, Content
  <2>3. HighWater(s) = 0
    BY <2>1, EmptySeq DEF HighWater
  <2> QED
    BY <2>2, <2>3
<1> QED
  BY <1>1 DEF Log!Init

(* What PlacedIsHeld says of the next state.                                  *)
LEMMA PlacedIsHeldNext ==
  ASSUME NEW s
  PROVE  Placed(s)' = Held(chunks'[s], rows'[s]) /\ HighWater(s)' = Top(rows'[s])
<1>1. (Placed(s) = Held(chunks[s], rows[s]) /\ HighWater(s) = Top(rows[s]))'
  BY PlacedIsHeld, PTL
<1> QED
  BY <1>1

LEMMA StreamsSettled ==
  TypeOK /\ ChunksTile => \A s \in Streams : Settled(chunks[s], rows[s].persisted)
BY TileIsSettled

LEMMA StreamsSettledNext ==
  (TypeOK /\ ChunksTile => \A s \in Streams : Settled(chunks[s], rows[s].persisted))'
BY StreamsSettled, PTL

(* What HeldOnce says of the next state: no two bytes share an offset.         *)
LEMMA HeldOnceNext ==
  ASSUME WriterInv', NEW s \in Streams
  PROVE  /\ \A x \in Placed(s)' : x[1] < HighWater(s)'
         /\ \A x, y \in Placed(s)' : x[1] = y[1] => x = y
<1>1. rows'[s] \in Row
  BY DEF WriterInv, TypeOK
<1>2. Settled(chunks'[s], rows'[s].persisted)
  <2>1. (TypeOK /\ ChunksTile => \A u \in Streams : Settled(chunks[u], rows[u].persisted))'
    BY StreamsSettledNext
  <2>2. TypeOK' /\ ChunksTile'
    BY DEF WriterInv
  <2>3. \A u \in Streams : Settled(chunks'[u], rows'[u].persisted)
    BY <2>1, <2>2
  <2> QED
    BY <2>3
<1> QED
  BY <1>1, <1>2, HeldOnce, PlacedIsHeldNext

(* A stream whose bytes moved by AppendsTo, the others untouched, is an append.  *)
LEMMA AppendIsLogAppend ==
  ASSUME WriterInv, WriterInv', NEW t \in Streams,
         AppendsTo(Placed(t), HighWater(t), Placed(t)', HighWater(t)'),
         \A s \in Streams \ {t} : Placed(s)' = Placed(s) /\ HighWater(s)' = HighWater(s)
  PROVE  Log!Append(t)
<1>1. Log!Grows(t)
  BY HeldOnceNext DEF Log!Grows, Log!Evictable, AppendsTo
<1>2. Log!KeepsOrEvicts(t)
  BY DEF Log!KeepsOrEvicts, Log!Evictable, AppendsTo
<1> QED
  BY <1>1, <1>2 DEF Log!Append

(* Where no stream moves, the log does not.                                  *)
LEMMA LogStands ==
  ASSUME \A s \in Streams : Placed(s)' = Placed(s) /\ HighWater(s)' = HighWater(s)
  PROVE  UNCHANGED Log!vars
BY DEF Log!vars

LEMMA LogStandsWithRows ==
  ASSUME UNCHANGED <<rows, chunks>>
  PROVE  UNCHANGED Log!vars
BY LogStands DEF Placed, HighWater, StagingChunk

(* A step of a session is an append to one stream, or moves no byte.          *)
LEMMA SessionAppends ==
  ASSUME WriterInv, WriterInv', NEW w \in Writers, SessionStep(w)
  PROVE  Log!Next \/ UNCHANGED Log!vars
<1>1. CASE ~WriteRow(w)
  <2>1. ASSUME NEW s \in Streams
        PROVE  Placed(s)' = Placed(s) /\ HighWater(s)' = HighWater(s)
    BY <1>1, ResetKeeps, PlacedIsHeld, PlacedIsHeldNext
  <2> QED
    BY <2>1, LogStands
<1>2. CASE WriteRow(w)
  <2>1. PICK t \in Streams :
          /\ AppendsTo(Held(chunks[t], rows[t]), Top(rows[t]),
                       Held(chunks'[t], rows'[t]), Top(rows'[t]))
          /\ \A s \in Streams \ {t} : rows'[s] = rows[s] /\ chunks'[s] = chunks[s]
    BY <1>2, WriteAppends
  <2>2. AppendsTo(Placed(t), HighWater(t), Placed(t)', HighWater(t)')
    BY <2>1, PlacedIsHeld, PlacedIsHeldNext
  <2>3. \A s \in Streams \ {t} : Placed(s)' = Placed(s) /\ HighWater(s)' = HighWater(s)
    BY <2>1, PlacedIsHeld, PlacedIsHeldNext
  <2>4. Log!Append(t)
    BY <2>2, <2>3, AppendIsLogAppend
  <2> QED
    BY <2>4 DEF Log!Next
<1> QED
  BY <1>1, <1>2

LEMMA StoreStep ==
  WriterInv /\ WriterInv' /\ [Next]_writerVars => [Log!Next]_(Log!vars)
<1> SUFFICES ASSUME WriterInv, WriterInv', [Next]_writerVars
             PROVE  Log!Next \/ UNCHANGED Log!vars
  OBVIOUS
<1>1. CASE UNCHANGED writerVars
  BY <1>1, LogStandsWithRows DEF writerVars, dbVars
<1>2. CASE Next
  BY <1>2, NextIsSessionStep, SessionAppends
<1> QED
  BY <1>1, <1>2

(* Every behaviour of the store, whatever its sessions race, reset or evict,    *)
(* is one of an append-only log: a byte once accepted by append is never        *)
(* rewritten, moved or overwritten, and is dropped only behind the cap.       *)
THEOREM StoreIsAppendOnlyLog == Spec => IsAppendOnlyLog
BY StoreInit, StoreStep, WriterInvariant, PTL DEF Spec, IsAppendOnlyLog, Log!Spec
=============================================================================
