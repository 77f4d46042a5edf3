---------------------------- MODULE LogWriterProofs ----------------------------
(***************************************************************************)
(* Type correctness of LogWriter, and its safety properties for every       *)
(* number of sessions, streams, allocations and bytes.                      *)
(***************************************************************************)
EXTENDS LogWriter, SequenceTheorems, FiniteSetTheorems, TLAPS

-----------------------------------------------------------------------------
(* Types of what a step computes. *)

(* The frame of a session that runs no append is a well-typed request.       *)
LEMMA NoCallIsRequest == NoCall \in Request
<1>1. (CHOOSE s \in Streams : TRUE) \in Streams
  BY StreamsAssumption
<1>2. <<>> \in Seq(Bytes)
  BY EmptySeq
<1> QED
  BY <1>1, <1>2 DEF NoCall, Request

(* The row build_default returns is a well-typed row.                        *)
LEMMA DefaultRowIsRow == DefaultRow \in Row
<1>1. <<>> \in Seq(Bytes)
  BY EmptySeq
<1> QED
  BY <1>1 DEF DefaultRow, Row

(* EffectiveNewBytes returns a suffix of the new bytes.                      *)
LEMMA EffectiveType ==
  ASSUME NEW row \in Row, NEW r \in Request
  PROVE  EffectiveNewBytes(row, r) \in Seq(Bytes)
<1> DEFINE before == r.after - Len(r.data)
           skip == IF row.producer > before THEN row.producer - before ELSE 0
<1>1. r.data \in Seq(Bytes) /\ row.producer \in Nat /\ r.after \in Int
  BY DEF Row, Request, None
<1>2. Len(r.data) \in Nat /\ \A i \in 1 .. Len(r.data) : r.data[i] \in Bytes
  BY <1>1, LenProperties, ElementOfSeq
<1>3. skip \in Nat
  BY <1>1, <1>2
<1>4. SubSeq(r.data, skip + 1, Len(r.data)) \in Seq(Bytes)
  <2>1. \A i \in skip + 1 .. Len(r.data) : r.data[i] \in Bytes
    BY <1>2, <1>3
  <2> QED
    BY <2>1, <1>2, <1>3, SubSeqProperties
<1> QED
  BY <1>1, <1>4 DEF EffectiveNewBytes

(* The full chunks of a buffer take FullLen(buf) of its bytes.              *)
LEMMA FullLenBound ==
  ASSUME NEW buf \in Seq(Bytes)
  PROVE  /\ Len(buf) \in Nat
         /\ FullChunkCount(buf) \in Nat
         /\ FullLen(buf) \in 0 .. Len(buf)
<1>1. Len(buf) \in Nat
  BY LenProperties
<1>2. ChunkBytes \in Nat \ {0}
  BY SizesAssumption
<1>3. ASSUME NEW n \in Nat, NEW m \in Nat \ {0}
      PROVE  n \div m \in Nat /\ (n \div m) * m <= n
  BY <1>3
<1>4. FullChunkCount(buf) \in Nat /\ FullChunkCount(buf) * ChunkBytes <= Len(buf)
  BY <1>1, <1>2, <1>3 DEF FullChunkCount
<1>5. FullChunkCount(buf) * ChunkBytes \in Nat
  BY <1>4, <1>2
<1> QED
  BY <1>1, <1>4, <1>5 DEF FullLen

(* What the full chunks leave of a buffer is a sequence of bytes.            *)
LEMMA RemainderType ==
  ASSUME NEW buf \in Seq(Bytes)
  PROVE  /\ Remainder(buf) \in Seq(Bytes)
         /\ Len(Remainder(buf)) = Len(buf) - FullLen(buf)
<1>1. /\ Len(buf) \in Nat /\ FullLen(buf) \in 0 .. Len(buf)
      /\ \A i \in 1 .. Len(buf) : buf[i] \in Bytes
  BY FullLenBound, ElementOfSeq
<1>2. \A i \in FullLen(buf) + 1 .. Len(buf) : buf[i] \in Bytes
  BY <1>1
<1> QED
  BY <1>1, <1>2, SubSeqProperties DEF Remainder

-----------------------------------------------------------------------------
(* Tilings: what a flush adds to the chunk table. *)

(* The chunks of C cover [lo, hi) without a gap and without an overlap.      *)
Tiles(C, lo, hi) ==
  /\ \A c \in C : c \in Chunk /\ c.data # <<>> /\ lo <= c.start /\ End(c) <= hi
  /\ \A c, d \in C : c = d \/ End(c) <= d.start \/ End(d) <= c.start
  /\ \A c \in C : End(c) = hi \/ \E d \in C : d.start = End(c)
  /\ lo = hi \/ \E c \in C : c.start = lo

(* The chunks of a stream whose frontier is hi (the eviction may have taken  *)
(* the oldest, so no lower bound is claimed).                                *)
Settled(C, hi) ==
  /\ \A c \in C : c \in Chunk /\ c.data # <<>> /\ End(c) <= hi
  /\ \A c, d \in C : c = d \/ End(c) <= d.start \/ End(d) <= c.start
  /\ \A c \in C : End(c) = hi \/ \E d \in C : d.start = End(c)

(* Where a chunk of the table ends.                                          *)
LEMMA ChunkSize ==
  ASSUME NEW c \in Chunk
  PROVE  /\ c.start \in Nat /\ Len(c.data) \in Nat /\ End(c) \in Nat
         /\ c.data # <<>> => c.start < End(c)
<1>1. c.start \in Nat /\ c.data \in Seq(Bytes)
  BY DEF Chunk
<1>2. Len(c.data) \in Nat /\ (c.data # <<>> => Len(c.data) \in Nat \ {0})
  BY <1>1, LenProperties, EmptySeq
<1> QED
  BY <1>1, <1>2 DEF End

(* A full chunk holds ChunkBytes bytes.                                     *)
LEMMA FullChunkShape ==
  ASSUME NEW buf \in Seq(Bytes), NEW at \in Nat,
         NEW i \in 0 .. FullChunkCount(buf) - 1
  PROVE  LET c == [start |-> at + i * ChunkBytes,
                   data |-> SubSeq(buf, i * ChunkBytes + 1, (i + 1) * ChunkBytes)]
         IN /\ c \in Chunk /\ c.data # <<>>
            /\ c.start = at + i * ChunkBytes
            /\ End(c) = at + (i + 1) * ChunkBytes
            /\ (i + 1) * ChunkBytes <= FullLen(buf)
<1> DEFINE lo == i * ChunkBytes
           hi == (i + 1) * ChunkBytes
           data == SubSeq(buf, lo + 1, hi)
<1>1. /\ ChunkBytes \in Nat \ {0} /\ FullChunkCount(buf) \in Nat
      /\ Len(buf) \in Nat /\ FullLen(buf) \in 0 .. Len(buf)
  BY SizesAssumption, FullLenBound
<1>2. i \in Nat /\ i + 1 <= FullChunkCount(buf)
  BY <1>1
<1>3. lo \in Nat /\ hi \in Nat /\ hi = lo + ChunkBytes
  BY <1>1, <1>2
<1>4. hi <= FullLen(buf)
  <2>1. ASSUME NEW a \in Nat, NEW b \in Nat, a <= b
        PROVE  a * ChunkBytes <= b * ChunkBytes
    BY <2>1, <1>1
  <2> QED
    BY <2>1, <1>1, <1>2 DEF FullLen
<1>5. \A k \in lo + 1 .. hi : buf[k] \in Bytes
  <2>1. \A k \in 1 .. Len(buf) : buf[k] \in Bytes
    BY ElementOfSeq
  <2> QED
    BY <2>1, <1>1, <1>3, <1>4
<1>6. data \in Seq(Bytes) /\ Len(data) = ChunkBytes
  <2>1. /\ data \in Seq(Bytes)
        /\ Len(data) = IF lo + 1 <= hi THEN hi - (lo + 1) + 1 ELSE 0
    BY <1>3, <1>5, SubSeqProperties
  <2> QED
    BY <2>1, <1>1, <1>3
<1>7. data # <<>>
  BY <1>1, <1>6, EmptySeq
<1> HIDE DEF lo, hi, data
<1>8. [start |-> at + lo, data |-> data] \in Chunk
  BY <1>3, <1>6 DEF Chunk
<1>9. at + lo + ChunkBytes = at + hi
  BY <1>1, <1>3
<1> QED
  BY <1>4, <1>6, <1>7, <1>8, <1>9 DEF End, lo, hi, data

(* The full chunks of a buffer placed at an offset tile its FullLen bytes.   *)
LEMMA FullChunksTile ==
  ASSUME NEW buf \in Seq(Bytes), NEW at \in Nat
  PROVE  Tiles(FullChunks(at, buf), at, at + FullLen(buf))
<1> DEFINE n == FullChunkCount(buf)
           C(i) == [start |-> at + i * ChunkBytes,
                    data |-> SubSeq(buf, i * ChunkBytes + 1, (i + 1) * ChunkBytes)]
<1>1. /\ ChunkBytes \in Nat \ {0} /\ n \in Nat
      /\ FullLen(buf) = n * ChunkBytes /\ FullLen(buf) \in Nat
  BY SizesAssumption, FullLenBound DEF FullLen
<1>2. FullChunks(at, buf) = { C(i) : i \in 0 .. n - 1 }
  BY DEF FullChunks
<1>3. \A i \in 0 .. n - 1 :
        /\ C(i) \in Chunk /\ C(i).data # <<>>
        /\ C(i).start = at + i * ChunkBytes
        /\ End(C(i)) = at + (i + 1) * ChunkBytes
        /\ (i + 1) * ChunkBytes <= FullLen(buf)
  BY FullChunkShape
<1> HIDE DEF C, n
<1>4. \A i \in 0 .. n - 1 : i * ChunkBytes \in Nat /\ (i + 1) * ChunkBytes \in Nat
  BY <1>1
<1>5. \A c \in FullChunks(at, buf) :
        c \in Chunk /\ c.data # <<>> /\ at <= c.start /\ End(c) <= at + FullLen(buf)
  BY <1>1, <1>2, <1>3, <1>4
<1>6. ASSUME NEW i \in 0 .. n - 1, NEW j \in 0 .. n - 1, i < j
      PROVE  End(C(i)) <= C(j).start
  <2>1. i + 1 <= j /\ i \in Nat /\ j \in Nat
    BY <1>1, <1>6
  <2>2. (i + 1) * ChunkBytes <= j * ChunkBytes
    BY <1>1, <2>1
  <2> QED
    BY <1>3, <1>4, <2>2
<1>7. \A c, d \in FullChunks(at, buf) :
        c = d \/ End(c) <= d.start \/ End(d) <= c.start
  <2> SUFFICES ASSUME NEW i \in 0 .. n - 1, NEW j \in 0 .. n - 1
               PROVE  C(i) = C(j) \/ End(C(i)) <= C(j).start \/ End(C(j)) <= C(i).start
    BY <1>2
  <2>1. i = j \/ i < j \/ j < i
    BY <1>1
  <2> QED
    BY <2>1, <1>6
<1>8. \A c \in FullChunks(at, buf) :
        End(c) = at + FullLen(buf) \/ \E d \in FullChunks(at, buf) : d.start = End(c)
  <2> SUFFICES ASSUME NEW i \in 0 .. n - 1
               PROVE  \/ End(C(i)) = at + FullLen(buf)
                      \/ \E d \in FullChunks(at, buf) : d.start = End(C(i))
    BY <1>2
  <2>1. CASE i = n - 1
    BY <2>1, <1>1, <1>3
  <2>2. CASE i # n - 1
    <3>1. i + 1 \in 0 .. n - 1
      BY <2>2, <1>1
    <3>2. C(i + 1).start = End(C(i)) /\ C(i + 1) \in FullChunks(at, buf)
      BY <3>1, <1>2, <1>3
    <3> QED
      BY <3>2
  <2> QED
    BY <2>1, <2>2
<1>9. at = at + FullLen(buf) \/ \E c \in FullChunks(at, buf) : c.start = at
  <2>1. CASE n = 0
    BY <2>1, <1>1
  <2>2. CASE n # 0
    <3>1. 0 \in 0 .. n - 1
      BY <2>2, <1>1
    <3>2. C(0).start = at + 0 * ChunkBytes /\ C(0) \in FullChunks(at, buf)
      BY <3>1, <1>2, <1>3
    <3>3. at + 0 * ChunkBytes = at
      BY <1>1
    <3> QED
      BY <3>2, <3>3
  <2> QED
    BY <2>1, <2>2
<1> QED
  BY <1>5, <1>7, <1>8, <1>9 DEF Tiles

(* A chunk of all of a non-empty buffer is a tiling of its own.             *)
LEMMA RemainderTiles ==
  ASSUME NEW at \in Nat, NEW rest \in Seq(Bytes), rest # <<>>
  PROVE  Tiles({RemainderChunk(at, rest)}, at, at + Len(rest))
BY DEF Tiles, RemainderChunk, End, Chunk

(* Two tilings that meet make one.                                          *)
LEMMA TilesMeet ==
  ASSUME NEW C, NEW D, NEW lo \in Nat, NEW mid \in Nat, NEW hi \in Nat,
         lo <= mid, mid <= hi, Tiles(C, lo, mid), Tiles(D, mid, hi)
  PROVE  Tiles(C \cup D, lo, hi)
<1>1. \A c \in C \cup D : c.start \in Nat /\ End(c) \in Nat
  BY ChunkSize DEF Tiles
<1> QED
  BY <1>1 DEF Tiles

(* What an append flushes tiles the offsets its row advances over.          *)
LEMMA AppendTiles ==
  ASSUME NEW old \in Row, NEW r \in Request, NEW aged \in BOOLEAN
  PROVE  /\ AppendedRow(old, r, aged) \in Row
         /\ AppendedRow(old, r, aged).version = old.version + 1
         /\ old.persisted <= AppendedRow(old, r, aged).persisted
         /\ Tiles(AppendedChunks(old, r, aged), old.persisted,
                  AppendedRow(old, r, aged).persisted)
<1> DEFINE staged == old.staging \o EffectiveNewBytes(old, r)
           rest == Remainder(staged)
           flushed == FlushesRemainder(rest, r.force, aged)
           persisted == old.persisted + (IF flushed THEN Len(staged) ELSE FullLen(staged))
           staging == IF flushed THEN <<>> ELSE rest
<1>1. /\ old.persisted \in Nat /\ old.producer \in Nat /\ old.nomad \in Nat
      /\ old.epoch \in Nat /\ old.staging \in Seq(Bytes) /\ old.version \in Nat
  BY DEF Row
<1>2. staged \in Seq(Bytes)
  BY <1>1, EffectiveType, ConcatProperties
<1>3. Len(staged) \in Nat /\ FullLen(staged) \in Nat /\ FullLen(staged) <= Len(staged)
  <2> HIDE DEF staged
  <2> QED
    BY <1>2, FullLenBound
<1>4. rest \in Seq(Bytes) /\ Len(rest) = Len(staged) - FullLen(staged)
  BY <1>2, RemainderType
<1>5. /\ Kept(r.after, old.producer) \in Nat
      /\ Kept(r.nomadAfter, old.nomad) \in Nat
      /\ Kept(r.epoch, old.epoch) \in Nat
  BY <1>1, EpochsAssumption DEF Kept, Request
<1>6. staging \in Seq(Bytes)
  BY <1>4, EmptySeq
<1>7. /\ AppendedRow(old, r, aged).persisted = persisted
      /\ AppendedRow(old, r, aged).version = old.version + 1
  BY DEF AppendedRow
<1>8. persisted \in Nat /\ old.persisted <= persisted
  BY <1>1, <1>3
<1>9. AppendedRow(old, r, aged) \in Row
  <2> HIDE DEF staging, persisted
  <2>1. AppendedRow(old, r, aged) =
          [persisted |-> persisted, producer |-> Kept(r.after, old.producer),
           nomad |-> Kept(r.nomadAfter, old.nomad), epoch |-> Kept(r.epoch, old.epoch),
           staging |-> staging, version |-> old.version + 1]
    BY DEF AppendedRow, staging, persisted
  <2> QED
    BY <2>1, <1>1, <1>5, <1>6, <1>8 DEF Row
<1>10. Tiles(AppendedChunks(old, r, aged), old.persisted, persisted)
  <2> DEFINE mid == old.persisted + FullLen(staged)
             full == FullChunks(old.persisted, staged)
  <2>1. Tiles(full, old.persisted, mid)
    BY <1>1, <1>2, FullChunksTile
  <2>2. CASE ~flushed
    <3>1. AppendedChunks(old, r, aged) = full /\ persisted = mid
      BY <2>2 DEF AppendedChunks
    <3> QED
      BY <2>1, <3>1
  <2>3. CASE flushed
    <3>1. AppendedChunks(old, r, aged) = full \cup {RemainderChunk(mid, rest)}
      BY <2>3 DEF AppendedChunks
    <3>2. mid \in Nat /\ mid + Len(rest) = persisted /\ rest # <<>>
      BY <2>3, <1>1, <1>3, <1>4 DEF FlushesRemainder
    <3> HIDE DEF mid, full, rest, persisted, staged
    <3>3. Tiles({RemainderChunk(mid, rest)}, mid, persisted)
      BY <3>2, <1>4, RemainderTiles
    <3>4. old.persisted <= mid /\ mid <= persisted
      BY <3>2, <1>1, <1>3, <1>4 DEF mid
    <3> QED
      BY <3>1, <3>2, <3>3, <3>4, <2>1, <1>1, <1>8, TilesMeet
  <2> QED
    BY <2>2, <2>3
<1> QED
  BY <1>7, <1>8, <1>9, <1>10

(* A tiling that starts at the frontier meets no stored chunk, so every chunk *)
(* of it is inserted, and the frontier moves to its end.                      *)
LEMMA InsertSettles ==
  ASSUME NEW C, NEW D, NEW lo \in Nat, NEW hi \in Nat, lo <= hi,
         Settled(C, lo), Tiles(D, lo, hi)
  PROVE  Settled(InsertChunks(C, D), hi)
<1>1. /\ \A c \in C : c.start \in Nat /\ End(c) \in Nat /\ c.start < End(c) /\ End(c) <= lo
      /\ \A d \in D : d.start \in Nat /\ End(d) \in Nat /\ lo <= d.start
  BY ChunkSize DEF Settled, Tiles
<1>2. InsertChunks(C, D) = C \cup D
  BY <1>1 DEF InsertChunks
<1> QED
  BY <1>1, <1>2 DEF Settled, Tiles

(* The chunks of a stream are finitely many: their starts differ.           *)
LEMMA SettledFinite ==
  ASSUME NEW C, NEW hi \in Nat, Settled(C, hi)
  PROVE  IsFiniteSet(C)
<1> DEFINE f == [c \in C |-> c.start]
<1>1. \A c \in C : c.start \in Nat /\ End(c) \in Nat /\ c.start < End(c) /\ End(c) <= hi
  BY ChunkSize DEF Settled
<1>2. f \in [C -> 0 .. hi]
  BY <1>1
<1>3. \A c, d \in C : f[c] = f[d] => c = d
  BY <1>1 DEF Settled
<1>4. f \in Injection(C, 0 .. hi)
  BY <1>2, <1>3 DEF Injection, IsInjective
<1>5. IsFiniteSet(0 .. hi)
  BY FS_Interval
<1> QED
  BY <1>4, <1>5, FS_Injection

(* Eviction takes a chunk only after the ones before it, so no gap opens.    *)
LEMMA EvictionSettles ==
  ASSUME NEW C, NEW hi \in Nat, NEW previous \in Nat, Settled(C, hi)
  PROVE  Settled(EvictOverCap(C, hi, previous), hi)
<1> DEFINE low == hi - StreamCap
           Before(c) == { d \in C : End(d) < End(c) }
<1>1. StreamCap \in Nat /\ EvictionMaxRows \in Nat
  BY SizesAssumption
<1>2. IsFiniteSet(C)
  BY SettledFinite
<1>3. \A c \in C : c.start \in Nat /\ End(c) \in Nat /\ c.start < End(c)
  BY ChunkSize DEF Settled
<1>4. ASSUME NEW c \in C, NEW d \in C, End(d) <= End(c), c \in Evicted(C, low)
      PROVE  d \in Evicted(C, low)
  <2>1. IsFiniteSet(Before(c)) /\ Before(d) \in SUBSET Before(c)
    <3>1. Before(c) \in SUBSET C
      OBVIOUS
    <3>2. IsFiniteSet(Before(c))
      BY <3>1, <1>2, FS_Subset
    <3>3. Before(d) \in SUBSET Before(c)
      BY <1>3, <1>4
    <3> QED
      BY <3>2, <3>3
  <2>2. /\ Cardinality(Before(d)) <= Cardinality(Before(c))
        /\ Cardinality(Before(d)) \in Nat /\ Cardinality(Before(c)) \in Nat
    BY <2>1, FS_Subset, FS_CardinalityType
  <2>3. End(c) <= low /\ Cardinality(Before(c)) < EvictionMaxRows
    BY <1>4 DEF Evicted
  <2>4. End(d) <= low /\ Cardinality(Before(d)) < EvictionMaxRows
    BY <2>2, <2>3, <1>1, <1>3, <1>4
  <2> QED
    BY <2>4 DEF Evicted
<1>5. CASE EvictOverCap(C, hi, previous) = C
  BY <1>5
<1>6. CASE EvictOverCap(C, hi, previous) = C \ Evicted(C, low)
  <2> DEFINE K == C \ Evicted(C, low)
  <2>1. ASSUME NEW c \in K
        PROVE  End(c) = hi \/ \E d \in K : d.start = End(c)
    <3>1. CASE End(c) = hi
      BY <3>1
    <3>2. CASE End(c) # hi
      <4>1. PICK d \in C : d.start = End(c)
        BY <3>2 DEF Settled
      <4>2. d \notin Evicted(C, low)
        BY <4>1, <1>3, <1>4
      <4> QED
        BY <4>1, <4>2
    <3> QED
      BY <3>1, <3>2
  <2> QED
    BY <1>6, <2>1 DEF Settled
<1> QED
  BY <1>5, <1>6 DEF EvictOverCap

-----------------------------------------------------------------------------
(* Steps. *)

(* What a session may do; Next only adds the bound on new calls.            *)
SessionStep(w) ==
  \/ \E r \in Requests : BeginAppend(w, r)
  \/ ReadRow(w)
  \/ LockFirstInsert(w)
  \/ WriteRow(w)
  \/ LoseRace(w)
  \/ \E e \in Epochs : BeginReset(w, e)
  \/ ResetLock(w)
  \/ ResetList(w)
  \/ ResetWrite(w)
  \/ LoseDrain(w)
  \/ Abort(w)

(* Every step of the store is a step of one session.                         *)
LEMMA NextIsSessionStep == Next => \E w \in Writers : SessionStep(w)
BY DEF Next, WriterStep, SessionStep

(* The arguments a session holds are those of a request.                     *)
LEMMA CallIsRequest ==
  ASSUME TypeOK, NEW w \in Writers
  PROVE  call[w] \in Request
BY NoCallIsRequest, RequestsAssumption DEF TypeOK

(* An empty state table is well typed.                                       *)
LEMMA NoRowsAreRows == NoRows \in [Streams -> Row]
BY DefaultRowIsRow DEF NoRows

(* A call that ends leaves well-typed frames.                               *)
LEMMA ReturnType ==
  ASSUME TypeOK, NEW w \in Writers, NEW outcome \in {"idle", "raised"},
         Return(w, outcome)
  PROVE  /\ pc' \in [Writers -> Places]
         /\ call' \in [Writers -> Requests \cup {NoCall}]
         /\ target' \in [Writers -> Nat]
         /\ seen' \in [Writers -> [Streams -> Row]]
         /\ tries' \in [Writers -> Nat]
BY NoRowsAreRows DEF TypeOK, Return, Places

(* A session that waits for no lock takes or gives back only its own.       *)
LEMMA UnlockedType ==
  ASSUME TypeOK, NEW w \in Writers, Unlocked(w)
  PROVE  lock' \in Writers \cup {Free}
BY DEF TypeOK, Unlocked

(* A reset leaves a row, and keeps the end of its log where it was.         *)
LEMMA ResetRowType ==
  ASSUME TypeOK, NEW w \in Writers, NEW s \in Streams
  PROVE  ResetRow(w, s) \in Row
<1> DEFINE drained == s \in Drained(w)
           old == IF drained THEN seen[w][s] ELSE rows[s]
           persisted == old.persisted + (IF drained THEN Len(old.staging) ELSE 0)
           staging == IF drained THEN <<>> ELSE old.staging
           version == old.version + (IF drained THEN 2 ELSE 1)
<1>1. rows[s] \in Row /\ old \in Row /\ target[w] \in Nat
  BY DEF TypeOK
<1>2. ResetRow(w, s) = IF IsNew(rows[s]) THEN rows[s]
                       ELSE [persisted |-> persisted, producer |-> 0, nomad |-> 0,
                             epoch |-> target[w], staging |-> staging,
                             version |-> version]
  BY DEF ResetRow
<1> HIDE DEF old
<1>3. /\ old.persisted \in Nat /\ old.staging \in Seq(Bytes) /\ old.version \in Nat
      /\ Len(old.staging) \in Nat
  BY <1>1, LenProperties DEF Row
<1>4. persisted \in Nat /\ staging \in Seq(Bytes) /\ version \in Nat
  BY <1>3, EmptySeq
<1> HIDE DEF persisted, staging, version
<1> QED
  BY <1>1, <1>2, <1>4 DEF Row

(* What an append flushes are chunks.                                        *)
LEMMA AppendedChunksType ==
  ASSUME NEW old \in Row, NEW r \in Request, NEW aged \in BOOLEAN
  PROVE  AppendedChunks(old, r, aged) \subseteq Chunk
BY AppendTiles DEF Tiles

-----------------------------------------------------------------------------
(* Type correctness *)

(* The empty store is well typed.                                            *)
LEMMA TypeInit == WriterInit => TypeOK
<1> SUFFICES ASSUME WriterInit PROVE TypeOK
  OBVIOUS
<1>1. /\ rows \in [Streams -> Row] /\ seen \in [Writers -> [Streams -> Row]]
  BY NoRowsAreRows DEF WriterInit
<1>2. /\ chunks \in [Streams -> SUBSET Chunk] /\ mark \in Nat
      /\ lock \in Writers \cup {Free} /\ pc \in [Writers -> Places]
      /\ call \in [Writers -> Requests \cup {NoCall}]
      /\ target \in [Writers -> Nat] /\ tries \in [Writers -> Nat]
  BY DEF WriterInit, Places
<1> QED
  BY <1>1, <1>2 DEF TypeOK

(* What one session does leaves every variable in its type.                 *)
LEMMA TypeStep ==
  ASSUME TypeOK, NEW w \in Writers, SessionStep(w)
  PROVE  TypeOK'
<1>1. CASE \E r \in Requests : BeginAppend(w, r)
  BY <1>1 DEF TypeOK, BeginAppend, Places, dbVars
<1>2. CASE ReadRow(w)
  <2>1. /\ UNCHANGED dbVars
        /\ \/ Return(w, "idle")
           \/ /\ GoTo(w, "lock") \/ GoTo(w, "write")
              /\ seen' = [seen EXCEPT ![w][call[w].stream] = rows[call[w].stream]]
              /\ UNCHANGED tries
    BY <1>2 DEF ReadRow
  <2>2. call[w].stream \in Streams
    BY CallIsRequest DEF Request
  <2>3. CASE Return(w, "idle")
    BY <2>1, <2>3, ReturnType DEF TypeOK, dbVars
  <2>4. CASE ~Return(w, "idle")
    <3>1. seen' \in [Writers -> [Streams -> Row]]
      <4>1. PICK s \in Streams : seen' = [seen EXCEPT ![w][s] = rows[s]]
        BY <2>1, <2>2, <2>4
      <4>2. seen' = [seen EXCEPT ![w] = [seen[w] EXCEPT ![s] = rows[s]]]
        BY <4>1
      <4>3. [seen[w] EXCEPT ![s] = rows[s]] \in [Streams -> Row]
        BY DEF TypeOK
      <4> QED
        BY <4>2, <4>3 DEF TypeOK
    <3>2. pc' \in [Writers -> Places] /\ UNCHANGED <<call, target, tries, dbVars>>
      BY <2>1, <2>4 DEF TypeOK, GoTo, Places
    <3> QED
      BY <3>1, <3>2 DEF TypeOK, dbVars
  <2> QED
    BY <2>3, <2>4
<1>3. CASE LockFirstInsert(w)
  <2>1. /\ UNCHANGED <<rows, chunks, mark>>
        /\ \/ Return(w, "idle") /\ Unlocked(w)
           \/ lock' = w /\ GoTo(w, "write") /\ UNCHANGED <<seen, tries>>
    BY <1>3 DEF LockFirstInsert, TakesLock
  <2>2. CASE Return(w, "idle") /\ Unlocked(w)
    BY <2>1, <2>2, ReturnType, UnlockedType DEF TypeOK
  <2>3. CASE lock' = w /\ GoTo(w, "write") /\ UNCHANGED <<seen, tries>>
    BY <2>1, <2>3 DEF TypeOK, GoTo, Places
  <2> QED
    BY <2>1, <2>2, <2>3
<1>4. CASE WriteRow(w)
  <2> DEFINE r == call[w]
             t == r.stream
             old == seen[w][t]
             new(aged) == AppendedRow(old, r, aged)
             stored(aged) == InsertChunks(chunks[t], AppendedChunks(old, r, aged))
  <2>1. PICK aged \in BOOLEAN :
          /\ rows' = [rows EXCEPT ![t] = new(aged)]
          /\ chunks' = [chunks EXCEPT ![t] =
               EvictOverCap(stored(aged), new(aged).persisted, old.persisted)]
    BY <1>4 DEF WriteRow
  <2>2. mark' = mark /\ Unlocked(w) /\ Return(w, "idle")
    BY <1>4 DEF WriteRow
  <2>3. r \in Request /\ t \in Streams /\ old \in Row
    BY CallIsRequest DEF Request, TypeOK
  <2>4. new(aged) \in Row /\ AppendedChunks(old, r, aged) \subseteq Chunk
    BY <2>3, AppendTiles, AppendedChunksType
  <2>5. EvictOverCap(stored(aged), new(aged).persisted, old.persisted) \subseteq Chunk
    <3>1. stored(aged) \subseteq Chunk
      BY <2>3, <2>4 DEF InsertChunks, TypeOK
    <3> QED
      BY <3>1 DEF EvictOverCap
  <2> HIDE DEF r, t, old, new, stored
  <2>6. rows' \in [Streams -> Row] /\ chunks' \in [Streams -> SUBSET Chunk]
    BY <2>1, <2>3, <2>4, <2>5 DEF TypeOK
  <2> QED
    BY <2>2, <2>6, ReturnType, UnlockedType DEF TypeOK
<1>5. CASE LoseRace(w)
  <2>1. /\ UNCHANGED <<rows, chunks, mark>> /\ Unlocked(w)
        /\ \/ /\ GoTo(w, "read")
              /\ tries' = [tries EXCEPT ![w] = @ + 1]
              /\ seen' = [seen EXCEPT ![w] = NoRows]
           \/ Return(w, "raised")
    BY <1>5 DEF LoseRace
  <2>2. CASE Return(w, "raised")
    BY <2>1, <2>2, ReturnType, UnlockedType DEF TypeOK
  <2>3. CASE ~Return(w, "raised")
    <3>1. seen' \in [Writers -> [Streams -> Row]]
      BY <2>1, <2>3, NoRowsAreRows DEF TypeOK
    <3>2. pc' \in [Writers -> Places] /\ UNCHANGED <<call, target>>
      BY <2>1, <2>3 DEF TypeOK, GoTo, Places
    <3>3. tries' \in [Writers -> Nat]
      BY <2>1, <2>3 DEF TypeOK
    <3> QED
      BY <2>1, <3>1, <3>2, <3>3, UnlockedType DEF TypeOK
  <2> QED
    BY <2>2, <2>3
<1>6. CASE \E e \in Epochs : BeginReset(w, e)
  BY <1>6, EpochsAssumption DEF TypeOK, BeginReset, Places, dbVars
<1>7. CASE ResetLock(w)
  BY <1>7 DEF TypeOK, ResetLock, TakesLock, GoTo, Places
<1>8. CASE ResetList(w)
  BY <1>8 DEF TypeOK, ResetList, GoTo, Places, dbVars
<1>9. CASE ResetWrite(w)
  <2>1. /\ rows' = [s \in Streams |-> ResetRow(w, s)]
        /\ chunks' = [s \in Streams |->
             IF s \in Drained(w)
             THEN InsertChunks(chunks[s],
                    {RemainderChunk(seen[w][s].persisted, seen[w][s].staging)})
             ELSE chunks[s]]
        /\ mark' = IF mark < target[w] THEN target[w] ELSE mark
        /\ Unlocked(w) /\ Return(w, "idle")
    BY <1>9 DEF ResetWrite
  <2>2. rows' \in [Streams -> Row]
    BY <2>1, ResetRowType
  <2>3. \A s \in Streams :
          RemainderChunk(seen[w][s].persisted, seen[w][s].staging) \in Chunk
    BY DEF TypeOK, Row, Chunk, RemainderChunk
  <2>4. chunks' \in [Streams -> SUBSET Chunk]
    BY <2>1, <2>3 DEF TypeOK, InsertChunks
  <2>5. mark' \in Nat
    BY <2>1 DEF TypeOK
  <2> QED
    BY <2>1, <2>2, <2>4, <2>5, ReturnType, UnlockedType DEF TypeOK
<1>10. CASE LoseDrain(w)
  BY <1>10, ReturnType, UnlockedType DEF TypeOK, LoseDrain
<1>11. CASE Abort(w)
  BY <1>11, ReturnType, UnlockedType DEF TypeOK, Abort
<1> QED
  BY <1>1, <1>2, <1>3, <1>4, <1>5, <1>6, <1>7, <1>8, <1>9, <1>10, <1>11
  DEF SessionStep

(* Every reachable state is well typed.                                     *)
THEOREM TypeCorrect == Spec => []TypeOK
<1>1. WriterInit => TypeOK
  BY TypeInit
<1>2. TypeOK /\ [Next]_writerVars => TypeOK'
  <2> SUFFICES ASSUME TypeOK, [Next]_writerVars PROVE TypeOK'
    OBVIOUS
  <2>1. CASE Next
    BY <2>1, NextIsSessionStep, TypeStep
  <2>2. CASE UNCHANGED writerVars
    BY <2>2 DEF TypeOK, writerVars, dbVars, frameVars
  <2> QED
    BY <2>1, <2>2
<1> QED
  BY <1>1, <1>2, PTL DEF Spec

-----------------------------------------------------------------------------
(* What one session's step leaves of the others. *)

(* A session's step leaves the frames of the other sessions alone.           *)
LEMMA OthersKeepFrame ==
  ASSUME TypeOK, NEW w \in Writers, SessionStep(w), NEW v \in Writers, v # w
  PROVE  pc'[v] = pc[v] /\ call'[v] = call[v] /\ seen'[v] = seen[v]
<1>1. \A outcome : Return(w, outcome) =>
        pc'[v] = pc[v] /\ call'[v] = call[v] /\ seen'[v] = seen[v]
  BY DEF Return, TypeOK
<1>2. \A place : GoTo(w, place) => pc'[v] = pc[v] /\ call'[v] = call[v]
  BY DEF GoTo, TypeOK
<1>3. CASE \E r \in Requests : BeginAppend(w, r)
  BY <1>3 DEF BeginAppend, TypeOK
<1>4. CASE ReadRow(w)
  BY <1>1, <1>2, <1>4 DEF ReadRow, TypeOK
<1>5. CASE LockFirstInsert(w)
  BY <1>1, <1>2, <1>5 DEF LockFirstInsert
<1>6. CASE WriteRow(w)
  BY <1>1, <1>6 DEF WriteRow
<1>7. CASE LoseRace(w)
  BY <1>1, <1>2, <1>7 DEF LoseRace, TypeOK
<1>8. CASE \E e \in Epochs : BeginReset(w, e)
  BY <1>8 DEF BeginReset, TypeOK
<1>9. CASE ResetLock(w)
  BY <1>2, <1>9 DEF ResetLock
<1>10. CASE ResetList(w)
  BY <1>2, <1>10 DEF ResetList, TypeOK
<1>11. CASE ResetWrite(w)
  BY <1>1, <1>11 DEF ResetWrite
<1>12. CASE LoseDrain(w)
  BY <1>1, <1>12 DEF LoseDrain
<1>13. CASE Abort(w)
  BY <1>1, <1>13 DEF Abort
<1> QED
  BY <1>3, <1>4, <1>5, <1>6, <1>7, <1>8, <1>9, <1>10, <1>11, <1>12, <1>13
  DEF SessionStep

(* Only its holder gives the row lock back, and only when free it is taken.  *)
LEMMA LockMoves ==
  ASSUME NEW w \in Writers, SessionStep(w)
  PROVE  \/ lock' = lock
         \/ lock = Free /\ lock' = w
         \/ lock = w /\ lock' = Free
BY DEF SessionStep, BeginAppend, ReadRow, LockFirstInsert, WriteRow, LoseRace,
       BeginReset, ResetLock, ResetList, ResetWrite, LoseDrain, Abort,
       Unlocked, TakesLock, dbVars

-----------------------------------------------------------------------------
(* The row lock *)

(* A session waits for the row lock only to insert a first row with an epoch. *)
LEMMA WaitersStep ==
  ASSUME TypeOK, WaitersInsert, NEW w \in Writers, SessionStep(w)
  PROVE  WaitersInsert'
<1> SUFFICES ASSUME NEW v \in Writers, pc'[v] = "lock"
             PROVE  call'[v].epoch # None /\ IsNew(seen'[v][call'[v].stream])
  BY DEF WaitersInsert
<1>1. CASE v # w
  BY <1>1, OthersKeepFrame DEF WaitersInsert
<1>2. CASE v = w
  <2>1. ReadRow(w)
    BY <1>2 DEF SessionStep, BeginAppend, ReadRow, LockFirstInsert, WriteRow,
       LoseRace, BeginReset, ResetLock, ResetList, ResetWrite, LoseDrain, Abort,
       Return, GoTo, TypeOK
  <2>2. call[w].stream \in Streams
    BY CallIsRequest DEF Request
  <2>3. /\ IsNew(rows[call[w].stream]) /\ call[w].epoch # None
        /\ call' = call
        /\ seen' = [seen EXCEPT ![w][call[w].stream] = rows[call[w].stream]]
    BY <2>1, <1>2 DEF ReadRow, Return, GoTo, TypeOK
  <2> QED
    BY <1>2, <2>2, <2>3 DEF TypeOK
<1> QED
  BY <1>1, <1>2

(* A step keeps the row lock with exactly the session whose place needs it.   *)
LEMMA LockStep ==
  ASSUME TypeOK, WaitersInsert, LockOwned, NEW w \in Writers, SessionStep(w)
  PROVE  LockOwned'
<1> SUFFICES ASSUME NEW v \in Writers PROVE (HoldsLock(v) <=> lock = v)'
  BY DEF LockOwned
<1> USE WritersAssumption
<1>1. CASE v # w
  <2>1. HoldsLock(v)' <=> HoldsLock(v)
    BY <1>1, OthersKeepFrame DEF HoldsLock
  <2>2. lock' = v <=> lock = v
    BY <1>1, LockMoves
  <2> QED
    BY <2>1, <2>2 DEF LockOwned
<1>2. HoldsLock(w) <=> lock = w
  BY DEF LockOwned
<1>3. \A outcome \in {"idle", "raised"} :
        Return(w, outcome) /\ Unlocked(w) => (HoldsLock(w) <=> lock = w)'
  BY DEF Return, Unlocked, HoldsLock, TypeOK
<1>4. CASE \E r \in Requests : BeginAppend(w, r)
  <2>1. pc'[w] = "read" /\ lock' = lock /\ AtRest(w)
    BY <1>4 DEF BeginAppend, dbVars, TypeOK
  <2> QED
    BY <1>1, <1>2, <2>1 DEF HoldsLock, AtRest
<1>5. CASE ReadRow(w)
  <2>1. /\ pc[w] = "read" /\ lock' = lock
        /\ \/ pc'[w] \in {"idle", "lock"}
           \/ /\ pc'[w] = "write" /\ call' = call
              /\ seen' = [seen EXCEPT ![w][call[w].stream] = rows[call[w].stream]]
              /\ ~(IsNew(rows[call[w].stream]) /\ call[w].epoch # None)
    BY <1>5 DEF ReadRow, Return, GoTo, TypeOK, dbVars
  <2>2. call[w].stream \in Streams
    BY CallIsRequest DEF Request
  <2> QED
    BY <1>1, <1>2, <2>1, <2>2 DEF HoldsLock, TypeOK
<1>6. CASE LockFirstInsert(w)
  <2>1. CASE Return(w, "idle") /\ Unlocked(w)
    BY <2>1, <1>1, <1>3
  <2>2. CASE TakesLock(w) /\ GoTo(w, "write") /\ UNCHANGED <<seen, tries>>
    <3>1. pc[w] = "lock" /\ pc'[w] = "write" /\ lock' = w
      BY <1>6, <2>2 DEF LockFirstInsert, TakesLock, GoTo, TypeOK
    <3>2. call'[w].epoch # None /\ IsNew(seen'[w][call'[w].stream])
      BY <3>1, <2>2 DEF WaitersInsert, GoTo
    <3> QED
      BY <1>1, <3>1, <3>2 DEF HoldsLock
  <2> QED
    BY <1>6, <2>1, <2>2 DEF LockFirstInsert
<1>7. CASE WriteRow(w)
  BY <1>1, <1>3, <1>7 DEF WriteRow
<1>8. CASE LoseRace(w)
  <2>1. CASE Return(w, "raised")
    BY <2>1, <1>1, <1>3, <1>8 DEF LoseRace
  <2>2. CASE GoTo(w, "read")
    BY <2>2, <1>1, <1>8 DEF LoseRace, GoTo, Unlocked, HoldsLock, TypeOK
  <2> QED
    BY <1>8, <2>1, <2>2 DEF LoseRace
<1>9. CASE \E e \in Epochs : BeginReset(w, e)
  <2>1. pc'[w] = "resetLock" /\ lock' = lock /\ AtRest(w)
    BY <1>9 DEF BeginReset, dbVars, TypeOK
  <2> QED
    BY <1>1, <1>2, <2>1 DEF HoldsLock, AtRest
<1>10. CASE ResetLock(w)
  BY <1>1, <1>10 DEF ResetLock, TakesLock, GoTo, HoldsLock, TypeOK
<1>11. CASE ResetList(w)
  BY <1>1, <1>2, <1>11 DEF ResetList, GoTo, HoldsLock, TypeOK, dbVars
<1>12. CASE ResetWrite(w)
  BY <1>1, <1>3, <1>12 DEF ResetWrite
<1>13. CASE LoseDrain(w)
  BY <1>1, <1>3, <1>13 DEF LoseDrain
<1>14. CASE Abort(w)
  BY <1>1, <1>3, <1>14 DEF Abort
<1> QED
  BY <1>4, <1>5, <1>6, <1>7, <1>8, <1>9, <1>10, <1>11, <1>12, <1>13, <1>14
  DEF SessionStep

-----------------------------------------------------------------------------
(* The epoch check *)

(* Only the reset that holds the row lock moves the mark.                    *)
LEMMA MarkMoves ==
  ASSUME LockOwned, NEW w \in Writers, SessionStep(w)
  PROVE  mark' = mark \/ lock = w
BY DEF SessionStep, BeginAppend, ReadRow, LockFirstInsert, WriteRow, LoseRace,
       BeginReset, ResetLock, ResetList, ResetWrite, LoseDrain, Abort,
       dbVars, LockOwned, HoldsLock

(* A session about to write has passed the epoch check, and a step of another *)
(* session does not take that back: the mark moves only under the row lock.   *)
LEMMA JudgedStep ==
  ASSUME TypeOK, WaitersInsert, LockOwned, WritersWereJudged,
         NEW w \in Writers, SessionStep(w)
  PROVE  WritersWereJudged'
<1> DEFINE Judged(v) ==
      IF IsNew(seen[v][call[v].stream]) THEN call[v].epoch >= mark
      ELSE call[v].epoch >= seen[v][call[v].stream].epoch
<1> SUFFICES ASSUME NEW v \in Writers, pc'[v] = "write", call'[v].epoch # None
             PROVE  Judged(v)'
  BY DEF WritersWereJudged
<1>1. CASE v # w
  <2>1. /\ pc[v] = "write" /\ call'[v] = call[v] /\ seen'[v] = seen[v]
        /\ call[v].epoch # None
    BY <1>1, OthersKeepFrame
  <2>2. Judged(v)
    BY <2>1 DEF WritersWereJudged
  <2>3. IsNew(seen[v][call[v].stream]) => mark' = mark
    BY <1>1, <2>1, MarkMoves DEF LockOwned, HoldsLock
  <2> QED
    BY <2>1, <2>2, <2>3
<1>2. CASE v = w
  <2>1. ReadRow(w) \/ LockFirstInsert(w)
    BY <1>2 DEF SessionStep, BeginAppend, ReadRow, LockFirstInsert, WriteRow,
       LoseRace, BeginReset, ResetLock, ResetList, ResetWrite, LoseDrain, Abort,
       Return, GoTo, TypeOK
  <2>2. call[w] \in Request /\ call[w].stream \in Streams
    BY CallIsRequest DEF Request
  <2>3. CASE ReadRow(w)
    <3> DEFINE row == rows[call[w].stream]
    <3>1. /\ ~(IsNew(row) /\ call[w].epoch # None)
          /\ ~(~IsNew(row) /\ call[w].epoch # None /\ call[w].epoch < row.epoch)
          /\ call' = call
          /\ seen' = [seen EXCEPT ![w][call[w].stream] = row]
      BY <2>3, <1>2 DEF ReadRow, Return, GoTo, TypeOK
    <3>2. call'[v].epoch = call[w].epoch /\ seen'[v][call'[v].stream] = row
      BY <1>2, <2>2, <3>1 DEF TypeOK
    <3>3. ~IsNew(row) /\ ~(call[w].epoch < row.epoch)
      BY <3>1, <3>2
    <3>4. row \in Row
      BY <2>2 DEF TypeOK
    <3>5. row.epoch \in Int
      BY <3>4 DEF Row
    <3>6. call[w].epoch \in Int
      <4>1. call[w].epoch \in Epochs \cup {None}
        BY <2>2 DEF Request
      <4>2. \A e \in Epochs \cup {None} : e \in Int
        BY EpochsAssumption DEF None
      <4> QED
        BY <4>1, <4>2, Zenon
    <3> QED
      BY <3>2, <3>3, <3>5, <3>6
  <2>4. CASE LockFirstInsert(w)
    <3>1. /\ pc[w] = "lock" /\ ~(call[w].epoch < mark)
          /\ call' = call /\ seen' = seen /\ mark' = mark
      BY <2>4, <1>2 DEF LockFirstInsert, Return, GoTo, TypeOK
    <3>2. IsNew(seen[w][call[w].stream])
      BY <3>1 DEF WaitersInsert
    <3>3. call[w].epoch \in Int /\ mark \in Int
      BY <2>2, EpochsAssumption DEF TypeOK, Request, None
    <3> QED
      BY <1>2, <3>1, <3>2, <3>3
  <2> QED
    BY <2>1, <2>3, <2>4
<1> QED
  BY <1>1, <1>2

-----------------------------------------------------------------------------
(* Versions *)

(* A row changes by an append of a session that saw its present version, by   *)
(* a reset, or not at all.                                                   *)
LEMMA RowChanges ==
  ASSUME TypeOK, SnapshotsAreVersioned, MissingRowsAreDefault,
         NEW w \in Writers, SessionStep(w), NEW s \in Streams
  PROVE  \/ rows'[s] = rows[s] /\ chunks'[s] = chunks[s]
         \/ /\ seen[w][s] = rows[s]
            /\ \E r \in Request, aged \in BOOLEAN :
                 /\ rows'[s] = AppendedRow(rows[s], r, aged)
                 /\ chunks'[s] =
                      EvictOverCap(InsertChunks(chunks[s],
                                     AppendedChunks(rows[s], r, aged)),
                                   rows'[s].persisted, rows[s].persisted)
         \/ /\ seen[w][s] = rows[s] /\ s \in Drained(w) /\ ~IsNew(rows[s])
            /\ rows'[s] = ResetRow(w, s)
            /\ chunks'[s] = InsertChunks(chunks[s],
                 {RemainderChunk(rows[s].persisted, rows[s].staging)})
         \/ /\ s \notin Drained(w) /\ ~IsNew(rows[s])
            /\ rows'[s] = ResetRow(w, s) /\ chunks'[s] = chunks[s]
<1>1. CASE WriteRow(w)
  <2> DEFINE r == call[w]
             t == r.stream
             old == seen[w][t]
  <2>1. r \in Request /\ t \in Streams
    BY CallIsRequest DEF Request
  <2>2. old = rows[t]
    BY <1>1, <2>1 DEF WriteRow, StillCurrent, SnapshotsAreVersioned, HasRead
  <2>3. PICK aged \in BOOLEAN :
          /\ rows' = [rows EXCEPT ![t] = AppendedRow(old, r, aged)]
          /\ chunks' = [chunks EXCEPT ![t] =
               EvictOverCap(InsertChunks(chunks[t], AppendedChunks(old, r, aged)),
                 AppendedRow(old, r, aged).persisted, old.persisted)]
    BY <1>1 DEF WriteRow
  <2> HIDE DEF r, t, old
  <2>4. CASE s = t
    BY <2>1, <2>2, <2>3, <2>4 DEF TypeOK, old, t
  <2>5. CASE s # t
    BY <2>1, <2>3, <2>5 DEF TypeOK
  <2> QED
    BY <2>4, <2>5
<1>2. CASE ResetWrite(w)
  <2>1. /\ rows'[s] = ResetRow(w, s)
        /\ chunks'[s] = IF s \in Drained(w)
             THEN InsertChunks(chunks[s],
                    {RemainderChunk(seen[w][s].persisted, seen[w][s].staging)})
             ELSE chunks[s]
    BY <1>2 DEF ResetWrite
  <2>2. CASE s \in Drained(w)
    <3>1. seen[w][s] = rows[s]
      BY <1>2, <2>2 DEF ResetWrite, WinsDrain, SnapshotsAreVersioned, HasRead
    <3>2. ~IsNew(rows[s])
      BY <2>2, <3>1 DEF Drained, MissingRowsAreDefault, DefaultRow
    <3> QED
      BY <2>1, <2>2, <3>1, <3>2
  <2>3. CASE s \notin Drained(w)
    BY <2>1, <2>3 DEF ResetRow
  <2> QED
    BY <2>2, <2>3
<1>3. CASE ~WriteRow(w) /\ ~ResetWrite(w)
  BY <1>3 DEF SessionStep, BeginAppend, ReadRow, LockFirstInsert, LoseRace,
     BeginReset, ResetLock, ResetList, LoseDrain, Abort, dbVars
<1> QED
  BY <1>1, <1>2, <1>3

(* The version of a row never falls, and grows when the row changes.          *)
LEMMA VersionsGrow ==
  ASSUME TypeOK, SnapshotsAreVersioned, MissingRowsAreDefault,
         NEW w \in Writers, SessionStep(w), NEW s \in Streams
  PROVE  rows'[s] = rows[s] \/ rows[s].version < rows'[s].version
<1>1. rows[s] \in Row /\ rows[s].version \in Nat
  BY DEF TypeOK, Row
<1>2. ASSUME NEW r \in Request, NEW aged \in BOOLEAN
      PROVE  AppendedRow(rows[s], r, aged).version = rows[s].version + 1
  BY <1>1, AppendTiles
<1>3. ASSUME ~IsNew(rows[s]), s \notin Drained(w) \/ seen[w][s] = rows[s]
      PROVE  ResetRow(w, s).version \in {rows[s].version + 1, rows[s].version + 2}
  BY <1>3 DEF ResetRow
<1>4. \/ rows'[s] = rows[s]
      \/ \E r \in Request, aged \in BOOLEAN : rows'[s] = AppendedRow(rows[s], r, aged)
      \/ /\ rows'[s] = ResetRow(w, s) /\ ~IsNew(rows[s])
         /\ s \notin Drained(w) \/ seen[w][s] = rows[s]
  BY RowChanges
<1> QED
  BY <1>1, <1>2, <1>3, <1>4

(* A row read in a transaction is the present one or an older version of it.  *)
LEMMA SnapshotsStep ==
  ASSUME TypeOK, SnapshotsAreVersioned, MissingRowsAreDefault,
         NEW w \in Writers, SessionStep(w)
  PROVE  SnapshotsAreVersioned'
<1> SUFFICES ASSUME NEW v \in Writers, NEW s \in Streams, HasRead(v, s)'
             PROVE  /\ seen'[v][s].version <= rows'[s].version
                    /\ seen'[v][s].version = rows'[s].version => seen'[v][s] = rows'[s]
  BY DEF SnapshotsAreVersioned
<1>1. CASE v # w
  <2>1. HasRead(v, s) /\ seen'[v][s] = seen[v][s]
    BY <1>1, OthersKeepFrame DEF HasRead
  <2>2. /\ seen[v][s].version <= rows[s].version
        /\ seen[v][s].version = rows[s].version => seen[v][s] = rows[s]
    BY <2>1 DEF SnapshotsAreVersioned
  <2>3. /\ seen[v][s].version \in Int /\ rows[s].version \in Int
        /\ rows'[s].version \in Int
    <3>1. TypeOK'
      BY TypeStep
    <3>2. seen[v][s] \in Row /\ rows[s] \in Row /\ rows'[s] \in Row
      BY <3>1 DEF TypeOK
    <3> QED
      BY <3>2 DEF Row
  <2> QED
    BY <2>1, <2>2, <2>3, VersionsGrow
<1>2. CASE v = w
  <2>1. ReadRow(w) \/ LockFirstInsert(w) \/ ResetList(w)
    BY <1>2 DEF SessionStep, BeginAppend, ReadRow, LockFirstInsert, WriteRow,
       LoseRace, BeginReset, ResetLock, ResetList, ResetWrite, LoseDrain, Abort,
       Return, GoTo, TypeOK, HasRead
  <2>2. rows' = rows /\ rows[s].version \in Int
    <3>1. rows' = rows
      BY <2>1 DEF ReadRow, LockFirstInsert, ResetList, dbVars
    <3>2. rows[s] \in Row
      BY DEF TypeOK
    <3> QED
      BY <3>1, <3>2 DEF Row
  <2>3. CASE ReadRow(w)
    <3>1. call' = call /\ pc'[w] # "resetWrite"
          /\ seen' = [seen EXCEPT ![w][call[w].stream] = rows[call[w].stream]]
      BY <2>3, <1>2 DEF ReadRow, Return, GoTo, TypeOK, HasRead
    <3>2. s = call[w].stream
      BY <3>1, <1>2 DEF HasRead
    <3>3. seen'[w][s] = rows[s]
      BY <3>1, <3>2 DEF TypeOK
    <3> QED
      BY <1>2, <2>2, <3>3
  <2>4. CASE LockFirstInsert(w)
    <3>1. pc[w] = "lock" /\ pc'[w] = "write" /\ call' = call /\ seen' = seen
      BY <2>4, <1>2 DEF LockFirstInsert, Return, GoTo, TypeOK, HasRead
    <3>2. HasRead(w, s)
      BY <3>1, <1>2 DEF HasRead
    <3> QED
      BY <1>2, <2>2, <3>1, <3>2 DEF SnapshotsAreVersioned
  <2>5. CASE ResetList(w)
    BY <1>2, <2>2, <2>5 DEF ResetList, TypeOK
  <2> QED
    BY <2>1, <2>3, <2>4, <2>5
<1> QED
  BY <1>1, <1>2

(* A row of version 0 is one that no append has inserted yet.                 *)
LEMMA MissingStep ==
  ASSUME TypeOK, SnapshotsAreVersioned, MissingRowsAreDefault,
         NEW w \in Writers, SessionStep(w)
  PROVE  MissingRowsAreDefault'
<1> SUFFICES ASSUME NEW s \in Streams, IsNew(rows'[s])
             PROVE  rows'[s] = DefaultRow
  BY DEF MissingRowsAreDefault, IsNew
<1>1. rows[s].version \in Nat
  BY DEF TypeOK, Row
<1>2. rows'[s] = rows[s]
  BY <1>1, VersionsGrow DEF IsNew
<1> QED
  BY <1>2 DEF MissingRowsAreDefault

-----------------------------------------------------------------------------
(* The chunk table *)

(* ChunksTile speaks of the frontier of each stream's state row.            *)
LEMMA TileIsSettled ==
  ASSUME TypeOK
  PROVE  ChunksTile <=> \A s \in Streams : Settled(chunks[s], rows[s].persisted)
<1>1. \A s \in Streams : chunks[s] \subseteq Chunk
  BY DEF TypeOK
<1> QED
  BY <1>1 DEF ChunksTile, NoOverlap, NoGap, Settled

(* A step of a session keeps every stream's chunks a tiling of its offsets.   *)
LEMMA TileStep ==
  ASSUME TypeOK, SnapshotsAreVersioned, MissingRowsAreDefault, ChunksTile,
         NEW w \in Writers, SessionStep(w)
  PROVE  ChunksTile'
<1>1. TypeOK'
  BY TypeStep
<1> SUFFICES ASSUME NEW s \in Streams
             PROVE  Settled(chunks'[s], rows'[s].persisted)
  BY <1>1 DEF ChunksTile, NoOverlap, NoGap, Settled
<1>2. Settled(chunks[s], rows[s].persisted)
  BY TileIsSettled
<1>3. rows[s] \in Row /\ rows'[s] \in Row
  BY <1>1 DEF TypeOK
<1>4. /\ rows[s].persisted \in Nat /\ rows[s].staging \in Seq(Bytes)
      /\ rows'[s].persisted \in Nat
  BY <1>3 DEF Row
<1>5. CASE rows'[s] = rows[s] /\ chunks'[s] = chunks[s]
  BY <1>2, <1>5
<1>6. ASSUME NEW r \in Request, NEW aged \in BOOLEAN,
             rows'[s] = AppendedRow(rows[s], r, aged),
             chunks'[s] = EvictOverCap(InsertChunks(chunks[s],
                                         AppendedChunks(rows[s], r, aged)),
                                       rows'[s].persisted, rows[s].persisted)
      PROVE  Settled(chunks'[s], rows'[s].persisted)
  <2>1. /\ rows[s].persisted <= rows'[s].persisted
        /\ Tiles(AppendedChunks(rows[s], r, aged), rows[s].persisted, rows'[s].persisted)
    BY <1>3, <1>6, AppendTiles
  <2>2. Settled(InsertChunks(chunks[s], AppendedChunks(rows[s], r, aged)),
                rows'[s].persisted)
    BY <1>2, <1>4, <2>1, InsertSettles
  <2> QED
    BY <1>4, <1>6, <2>2, EvictionSettles
<1>7. CASE /\ seen[w][s] = rows[s] /\ s \in Drained(w) /\ ~IsNew(rows[s])
           /\ rows'[s] = ResetRow(w, s)
           /\ chunks'[s] = InsertChunks(chunks[s],
                {RemainderChunk(rows[s].persisted, rows[s].staging)})
  <2> DEFINE hi == rows[s].persisted + Len(rows[s].staging)
  <2>1. rows[s].staging # <<>>
    BY <1>7 DEF Drained
  <2>2. rows'[s].persisted = hi
    BY <1>7 DEF ResetRow
  <2>3. Len(rows[s].staging) \in Nat
    BY <1>4, LenProperties
  <2>4. Tiles({RemainderChunk(rows[s].persisted, rows[s].staging)},
              rows[s].persisted, hi)
    BY <1>4, <2>1, RemainderTiles
  <2>5. hi \in Nat /\ rows[s].persisted <= hi
    BY <1>4, <2>3
  <2> HIDE DEF hi
  <2> QED
    BY <1>2, <1>4, <1>7, <2>2, <2>4, <2>5, InsertSettles
<1>8. CASE /\ s \notin Drained(w) /\ ~IsNew(rows[s])
           /\ rows'[s] = ResetRow(w, s) /\ chunks'[s] = chunks[s]
  <2>1. rows'[s].persisted = rows[s].persisted
    BY <1>4, <1>8 DEF ResetRow
  <2> QED
    BY <1>2, <1>8, <2>1
<1>9. \/ rows'[s] = rows[s] /\ chunks'[s] = chunks[s]
      \/ \E r \in Request, aged \in BOOLEAN :
           /\ rows'[s] = AppendedRow(rows[s], r, aged)
           /\ chunks'[s] = EvictOverCap(InsertChunks(chunks[s],
                                          AppendedChunks(rows[s], r, aged)),
                                        rows'[s].persisted, rows[s].persisted)
      \/ /\ seen[w][s] = rows[s] /\ s \in Drained(w) /\ ~IsNew(rows[s])
         /\ rows'[s] = ResetRow(w, s)
         /\ chunks'[s] = InsertChunks(chunks[s],
              {RemainderChunk(rows[s].persisted, rows[s].staging)})
      \/ /\ s \notin Drained(w) /\ ~IsNew(rows[s])
         /\ rows'[s] = ResetRow(w, s) /\ chunks'[s] = chunks[s]
  BY RowChanges
<1> QED
  BY <1>5, <1>6, <1>7, <1>8, <1>9

-----------------------------------------------------------------------------
(* The theorems *)

(* The empty store satisfies the inductive invariant.                        *)
LEMMA InvInit == WriterInit => WriterInv
<1> SUFFICES ASSUME WriterInit PROVE WriterInv
  OBVIOUS
<1>1. TypeOK
  BY TypeInit
<1>2. LockOwned /\ WaitersInsert /\ WritersWereJudged /\ SnapshotsAreVersioned
  BY WritersAssumption
  DEF WriterInit, LockOwned, HoldsLock, WaitersInsert, WritersWereJudged,
      SnapshotsAreVersioned, HasRead
<1>3. MissingRowsAreDefault
  BY DEF WriterInit, NoRows, MissingRowsAreDefault
<1>4. ChunksTile
  BY DEF WriterInit, ChunksTile, NoOverlap, NoGap
<1> QED
  BY <1>1, <1>2, <1>3, <1>4 DEF WriterInv

(* Every step preserves the inductive invariant.                             *)
LEMMA InvStep == WriterInv /\ [Next]_writerVars => WriterInv'
<1> SUFFICES ASSUME WriterInv, [Next]_writerVars PROVE WriterInv'
  OBVIOUS
<1> USE DEF WriterInv
<1>1. CASE Next
  <2>1. PICK w \in Writers : SessionStep(w)
    BY <1>1, NextIsSessionStep
  <2> QED
    BY <2>1, TypeStep, WaitersStep, LockStep, JudgedStep, SnapshotsStep,
       MissingStep, TileStep
<1>2. CASE UNCHANGED writerVars
  <2>1. /\ TypeOK' /\ LockOwned' /\ ChunksTile'
    BY <1>2 DEF TypeOK, LockOwned, HoldsLock, ChunksTile, NoOverlap, NoGap,
       writerVars, dbVars, frameVars
  <2>2. /\ SnapshotsAreVersioned' /\ MissingRowsAreDefault' /\ WaitersInsert'
        /\ WritersWereJudged'
    BY <1>2 DEF SnapshotsAreVersioned, HasRead, MissingRowsAreDefault,
       WaitersInsert, WritersWereJudged, writerVars, dbVars, frameVars
  <2> QED
    BY <2>1, <2>2
<1> QED
  BY <1>1, <1>2

(* What a session has read, checked and locked stays true up to its commit.  *)
THEOREM WriterInvariant == Spec => []WriterInv
BY InvInit, InvStep, PTL DEF Spec

(* The row lock is held by exactly the sessions whose protocol needs it.    *)
THEOREM LockIsOwned == Spec => []LockOwned
<1>1. WriterInv => LockOwned
  BY DEF WriterInv
<1> QED
  BY <1>1, WriterInvariant, PTL

(* The chunk rows of every stream tile its offsets, for every number of       *)
(* racing appends, resets and evictions.                                     *)
THEOREM ChunksAlwaysTile == Spec => []ChunksTile
<1>1. WriterInv => ChunksTile
  BY DEF WriterInv
<1> QED
  BY <1>1, WriterInvariant, PTL

(* A write that commits belongs to the newest allocation its stream knows.   *)
THEOREM StaleBytesAreDiscarded == Spec => StaleBytesDiscarded
<1> DEFINE Judged(w) ==
      (pc[w] = "write" /\ pc'[w] = "idle" /\ call[w].epoch # None) =>
        IF IsNew(rows[call[w].stream]) THEN call[w].epoch >= mark
        ELSE call[w].epoch >= rows[call[w].stream].epoch
<1>1. WriterInv /\ [Next]_writerVars => [\A w \in Writers : Judged(w)]_writerVars
  <2> SUFFICES ASSUME WriterInv, Next, NEW v \in Writers, pc[v] = "write",
                      pc'[v] = "idle", call[v].epoch # None
               PROVE  IF IsNew(rows[call[v].stream]) THEN call[v].epoch >= mark
                      ELSE call[v].epoch >= rows[call[v].stream].epoch
    OBVIOUS
  <2>1. PICK w \in Writers : SessionStep(w)
    BY NextIsSessionStep
  <2> USE DEF WriterInv
  <2>2. v = w
    BY <2>1, OthersKeepFrame
  <2>3. WriteRow(w)
    BY <2>1, <2>2 DEF SessionStep, BeginAppend, ReadRow, LockFirstInsert, WriteRow,
       LoseRace, BeginReset, ResetLock, ResetList, ResetWrite, LoseDrain, Abort,
       AtRest, Return, GoTo, TypeOK
  <2>4. call[w].stream \in Streams
    BY CallIsRequest DEF Request
  <2>5. seen[w][call[w].stream] = rows[call[w].stream]
    BY <2>3, <2>4 DEF WriteRow, StillCurrent, SnapshotsAreVersioned, HasRead
  <2> QED
    BY <2>2, <2>5 DEF WritersWereJudged
<1>2. Spec => [][\A w \in Writers : Judged(w)]_writerVars
  BY <1>1, WriterInvariant, PTL DEF Spec
<1> QED
  BY <1>2 DEF StaleBytesDiscarded

================================================================================
