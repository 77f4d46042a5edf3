---------------------------- MODULE NomadLogProofs -----------------------------
(***************************************************************************)
(* What the syncs of NomadLogSync store: the bytes of an allocation in their  *)
(* order and without a hole, none of them twice, and all of them once the     *)
(* task is recorded as finished.                                            *)
(*                                                                         *)
(* None of this holds of every instance (the runs that expect a violation     *)
(* show why), so each theorem names the scenario it is about: syncs that       *)
(* overlap on one allocation of a task that starts with this release, or       *)
(* syncs that follow one another, over any number of allocations, on a task    *)
(* of either release.  None needs a bound on bytes, streams, syncs or retries. *)
(***************************************************************************)
EXTENDS NomadLogSyncProofs

(* No stream has grown beyond its cap: nothing was evicted yet.               *)
BelowCap == \A s \in Streams : rows[s].persisted <= StreamCap

-----------------------------------------------------------------------------
(* What a step places. *)

(* The bytes the call of a session would store, were it to commit now.        *)
AddedBytes(w) == EffectiveNewBytes(rows[call[w].stream], call[w])

(* A write places the effective bytes of its call at the end of its stream, and  *)
(* drops none as long as the stream is below its cap.                         *)
WriteEffect(w, t, r) ==
  /\ r \in Request /\ t \in Streams /\ seen[w][t] = rows[t]
  /\ rows'[t] \in Row
  /\ rows'[t].producer = Kept(r.after, rows[t].producer)
  /\ rows'[t].nomad = Kept(r.nomadAfter, rows[t].nomad)
  /\ rows'[t].epoch = Kept(r.epoch, rows[t].epoch)
  /\ rows'[t].version = rows[t].version + 1
  /\ rows'[t].persisted >= rows[t].persisted
  /\ r.force => rows'[t].staging = <<>>
  /\ Placed(t)' \subseteq Placed(t) \cup Written(HighWater(t), AddedBytes(w))
  /\ rows'[t].persisted <= StreamCap =>
       Placed(t)' = Placed(t) \cup Written(HighWater(t), AddedBytes(w))
  /\ \A s \in Streams \ {t} : rows'[s] = rows[s] /\ Placed(s)' = Placed(s)

LEMMA WritePlaces ==
  ASSUME WriterInv, NEW w \in Writers, WriteRow(w)
  PROVE  \E t \in Streams, r \in Request :
           t = r.stream /\ r = call[w] /\ WriteEffect(w, t, r)
<1> SUFFICES ASSUME NEW r, r = call[w], NEW t, t = r.stream,
                    NEW bytes, bytes = EffectiveNewBytes(rows[t], r)
             PROVE  t \in Streams /\ r \in Request /\ WriteEffect(w, t, r)
  OBVIOUS
<1> USE DEF WriterInv
<1>1. r \in Request /\ t \in Streams
  BY CallIsRequest DEF Request
<1>2. seen[w][t] = rows[t]
  BY <1>1 DEF WriteRow, StillCurrent, SnapshotsAreVersioned, HasRead
<1>3. PICK aged \in BOOLEAN :
        /\ rows' = [rows EXCEPT ![t] = AppendedRow(rows[t], r, aged)]
        /\ chunks' = [chunks EXCEPT ![t] =
             EvictOverCap(InsertChunks(chunks[t], AppendedChunks(rows[t], r, aged)),
               AppendedRow(rows[t], r, aged).persisted, rows[t].persisted)]
  BY <1>2 DEF WriteRow
<1> DEFINE old == rows[t]
           C == chunks[t]
           D == AppendedChunks(old, r, aged)
           new == AppendedRow(old, r, aged)
           added == Written(Top(old), bytes)
<1>4. /\ rows'[t] = new
      /\ chunks'[t] = EvictOverCap(InsertChunks(C, D), new.persisted, old.persisted)
      /\ \A s \in Streams \ {t} : rows'[s] = rows[s] /\ chunks'[s] = chunks[s]
  BY <1>1, <1>3 DEF TypeOK
<1>5. old \in Row /\ Settled(C, old.persisted)
  BY <1>1, TileIsSettled DEF TypeOK
<1> HIDE DEF WriterInv
<1>6. /\ new \in Row /\ old.persisted <= new.persisted
      /\ Tiles(D, old.persisted, new.persisted)
  BY <1>1, <1>5, AppendTiles
<1>7. old.persisted \in Nat /\ new.persisted \in Nat /\ StreamCap \in Nat
  BY <1>5, <1>6, RowParts, SizesAssumption
<1>8. Held(D, new) = Written(old.persisted, old.staging) \cup added
  BY <1>1, <1>5, AppendWrites
<1>9. /\ InsertChunks(C, D) = C \cup D /\ Settled(InsertChunks(C, D), new.persisted)
  BY <1>5, <1>6, <1>7, InsertsAll, InsertSettles
<1>10. /\ new.producer = Kept(r.after, old.producer)
       /\ new.nomad = Kept(r.nomadAfter, old.nomad)
       /\ new.epoch = Kept(r.epoch, old.epoch)
       /\ new.version = old.version + 1
       /\ r.force => new.staging = <<>>
  BY DEF AppendedRow, FlushesRemainder
<1>11. Content(C \cup D) \cup Written(new.persisted, new.staging) = Held(C, old) \cup added
  BY <1>8, ContentOfUnion DEF Held
<1> HIDE DEF C, D, new, old, added
<1>12. Content(chunks'[t]) \subseteq Content(C \cup D)
  BY <1>4, <1>7, <1>9, EvictionDrops
<1>13. new.persisted <= StreamCap => chunks'[t] = C \cup D
  BY <1>4, <1>7, <1>9 DEF EvictOverCap
<1>14. /\ Placed(t)' = Content(chunks'[t]) \cup Written(new.persisted, new.staging)
       /\ Placed(t) = Held(C, old) /\ HighWater(t) = Top(old)
  BY <1>4, PlacedIsHeld, PlacedIsHeldNext DEF Held, C, old
<1>15. /\ Placed(t)' \subseteq Placed(t) \cup Written(HighWater(t), bytes)
       /\ new.persisted <= StreamCap =>
            Placed(t)' = Placed(t) \cup Written(HighWater(t), bytes)
  BY <1>11, <1>12, <1>13, <1>14 DEF added
<1>16. \A s \in Streams \ {t} : rows'[s] = rows[s] /\ Placed(s)' = Placed(s)
  BY <1>4, PlacedIsHeld, PlacedIsHeldNext
<1> QED
  BY <1>1, <1>2, <1>4, <1>6, <1>7, <1>10, <1>15, <1>16 DEF old, WriteEffect, AddedBytes

(* Any other step of a session, a reset included, moves no byte.             *)
LEMMA OthersPlace ==
  ASSUME WriterInv, NEW w \in Writers, WriterMove(w), ~WriteRow(w), NEW s \in Streams
  PROVE  Placed(s)' = Placed(s) /\ rows'[s].persisted >= rows[s].persisted
<1>0. rows[s] \in Row /\ rows[s].persisted \in Nat /\ Len(rows[s].staging) \in Nat
  <2>1. rows[s] \in Row
    BY DEF WriterInv, TypeOK
  <2> QED
    BY <2>1, RowParts
<1>1. CASE Quit(w)
  <2>1. rows' = rows /\ chunks' = chunks
    BY <1>1 DEF Quit
  <2> QED
    BY <1>0, <2>1, PlacedIsHeld, PlacedIsHeldNext
<1>2. CASE SessionStep(w)
  <2>1. Held(chunks'[s], rows'[s]) = Held(chunks[s], rows[s])
    BY <1>2, ResetKeeps
  <2>2. rows'[s].persisted >= rows[s].persisted
    <3>1. CASE ~ResetWrite(w)
      <4>1. rows' = rows
        BY <1>2, <3>1 DEF SessionStep, BeginAppend, ReadRow, LockFirstInsert, LoseRace,
           BeginReset, ResetLock, ResetList, LoseDrain, Abort, dbVars
      <4> QED
        BY <1>0, <4>1
    <3>2. CASE ResetWrite(w)
      <4>1. rows'[s] = ResetRow(w, s)
        BY <3>2 DEF ResetWrite
      <4>2. s \in Drained(w) => seen[w][s] = rows[s]
        BY <3>2 DEF ResetWrite, WinsDrain, WriterInv, SnapshotsAreVersioned, HasRead
      <4>3. \/ rows'[s] = rows[s]
            \/ rows'[s].persisted = rows[s].persisted + Len(rows[s].staging)
            \/ rows'[s].persisted = rows[s].persisted + 0
        BY <4>1, <4>2 DEF ResetRow
      <4> QED
        BY <1>0, <4>3
    <3> QED
      BY <3>1, <3>2
  <2> QED
    BY <2>1, <2>2, PlacedIsHeld, PlacedIsHeldNext
<1> QED
  BY <1>1, <1>2, MoveIsSessionStep

(* So streams only grow, and a stream below its cap has lost nothing.         *)
LEMMA MovePlaces ==
  ASSUME WriterInv, WriterInv', UNCHANGED writerVars \/ \E w \in Writers : WriterMove(w)
  PROVE  /\ BelowCap' => BelowCap
         /\ BelowCap' => \A s \in Streams : Placed(s) \subseteq Placed(s)'
<1>0. \A s \in Streams : rows[s].persisted \in Nat /\ rows'[s].persisted \in Nat
  BY DEF WriterInv, TypeOK, Row
<1>1. ASSUME NEW s \in Streams
      PROVE  /\ rows'[s].persisted >= rows[s].persisted
             /\ rows'[s].persisted <= StreamCap => Placed(s) \subseteq Placed(s)'
  <2>1. CASE UNCHANGED writerVars
    <3>1. rows' = rows /\ chunks' = chunks
      BY <2>1 DEF writerVars, dbVars
    <3> QED
      BY <1>0, <3>1, PlacedIsHeld, PlacedIsHeldNext
  <2>2. CASE \E w \in Writers : WriterMove(w)
    <3>1. PICK w \in Writers : WriterMove(w)
      BY <2>2
    <3>2. CASE WriteRow(w)
      <4>1. PICK t \in Streams, r \in Request : WriteEffect(w, t, r)
        BY <3>2, WritePlaces
      <4>2. CASE s = t
        BY <4>1, <4>2 DEF WriteEffect
      <4>3. CASE s # t
        BY <1>0, <4>1, <4>3 DEF WriteEffect
      <4> QED
        BY <4>2, <4>3
    <3>3. CASE ~WriteRow(w)
      BY <3>1, <3>3, OthersPlace
    <3> QED
      BY <3>2, <3>3
  <2> QED
    BY <2>1, <2>2
<1>2. BelowCap' => \A s \in Streams : rows'[s].persisted <= StreamCap
  BY DEF BelowCap
<1>3. StreamCap \in Nat
  BY SizesAssumption
<1>4. ASSUME NEW s \in Streams, rows'[s].persisted <= StreamCap
      PROVE  rows[s].persisted <= StreamCap
  BY <1>0, <1>1, <1>3, <1>4
<1> QED
  BY <1>1, <1>2, <1>4 DEF BelowCap

-----------------------------------------------------------------------------
(* Pieces of a log. *)

(* Bytes lo + 1 .. hi of an allocation, one after the other from an offset.    *)
Piece(at, e, lo, hi) == { <<at + k - 1, <<e, lo + k>>>> : k \in 1 .. hi - lo }

(* The bytes of a fetched part that the row's producer offset already covers.  *)
Skipped(row, r) ==
  IF row.producer > r.after - Len(r.data) THEN row.producer - (r.after - Len(r.data)) ELSE 0

(* Of a part, an append stores what follows the bytes it skips.              *)
LEMMA PartWrites ==
  ASSUME NEW e \in Epochs, NEW from \in 0 .. LogLength, NEW to \in 0 .. LogLength,
         from <= to, NEW at \in Nat, NEW r, r.data = Part(e, from, to),
         r.after \in Nat, NEW row, row.producer \in Nat
  PROVE  /\ Skipped(row, r) \in Nat
         /\ Written(at, EffectiveNewBytes(row, r)) = Piece(at, e, from + Skipped(row, r), to)
<1> DEFINE data == Part(e, from, to)
           skip == Skipped(row, r)
           n == to - from
<1>1. n \in Nat /\ LogLength \in Nat /\ from \in Nat /\ to \in Nat
  BY SyncAssumption
<1>2. data \in Seq(Bytes) /\ Len(data) = n
  BY PartType
<1>3. skip \in Nat
  BY <1>1, <1>2 DEF Skipped
<1>4. EffectiveNewBytes(row, r) = SubSeq(data, skip + 1, n)
  <2>1. r.after # None
    BY DEF None
  <2> QED
    BY <1>2, <2>1 DEF EffectiveNewBytes, Skipped
<1>5. \A k \in 1 .. n : data[k] = <<e, from + k>>
  BY DEF Part
<1> HIDE DEF data, skip
<1>6. CASE skip >= n
  <2>1. SubSeq(data, skip + 1, n) = <<>>
    <3>1. \A i \in skip + 1 .. n : data[i] \in Bytes
      BY <1>1, <1>3, <1>6
    <3>2. skip + 1 \in Int /\ n \in Int /\ ~(skip + 1 <= n)
      BY <1>1, <1>3, <1>6
    <3> DEFINE m == skip + 1
    <3>3. m \in Int /\ \A i \in m .. n : data[i] \in Bytes
      BY <3>1, <3>2
    <3> HIDE DEF m, n
    <3>4. Len(SubSeq(data, m, n)) = IF m <= n THEN n - m + 1 ELSE 0
      BY <3>2, <3>3, SubSeqProperties
    <3>5. SubSeq(data, m, n) \in Seq(Bytes)
      BY <3>2, <3>3, SubSeqProperties
    <3> QED
      BY <3>2, <3>4, <3>5, EmptySeq DEF m
  <2>2. Written(at, EffectiveNewBytes(row, r)) = {}
    BY <1>4, <2>1, WrittenNothing
  <2>3. \A k : k \notin 1 .. to - (from + skip)
    BY <1>1, <1>3, <1>6
  <2>4. Piece(at, e, from + skip, to) = {}
    BY <2>3 DEF Piece
  <2> QED
    BY <1>3, <2>2, <2>4 DEF skip
<1>7. CASE skip < n
  <2>1. n <= Len(data) /\ skip <= n
    BY <1>1, <1>2, <1>3, <1>7
  <2>2. /\ Len(SubSeq(data, skip + 1, n)) = n - skip
        /\ \A j \in 1 .. n - skip : SubSeq(data, skip + 1, n)[j] = data[skip + j]
    <3> DEFINE m == skip + 1
    <3>1. m \in Int /\ n \in Int /\ m <= n
      BY <1>1, <1>3, <1>7
    <3>2. \A i \in m .. n : data[i] \in Bytes
      <4>1. \A i \in 1 .. n : data[i] \in Bytes
        BY <1>2, ElementOfSeq
      <4> QED
        BY <1>1, <1>3, <4>1
    <3> HIDE DEF m, n
    <3>3. /\ Len(SubSeq(data, m, n)) = IF m <= n THEN n - m + 1 ELSE 0
          /\ \A j \in 1 .. n - m + 1 : SubSeq(data, m, n)[j] = data[m + j - 1]
      BY <3>1, <3>2, SubSeqProperties
    <3>4. n - m + 1 = n - skip /\ \A j \in 1 .. n - skip : m + j - 1 = skip + j
      BY <1>3, <3>1 DEF m
    <3> QED
      BY <3>1, <3>3, <3>4 DEF m
  <2> DEFINE bytes == SubSeq(data, skip + 1, n)
  <2>3. \A j \in 1 .. n - skip : bytes[j] = <<e, from + skip + j>>
    <3>1. \A j \in 1 .. n - skip : skip + j \in 1 .. n /\ from + (skip + j) = from + skip + j
      BY <1>1, <1>3
    <3> QED
      BY <1>5, <2>2, <3>1
  <2>4. Len(bytes) = to - (from + skip) /\ n - skip = to - (from + skip)
    BY <1>1, <1>3, <2>2
  <2> HIDE DEF bytes, n
  <2>5. Written(at, bytes) = Piece(at, e, from + skip, to)
    BY <2>3, <2>4 DEF Written, Piece
  <2> QED
    BY <1>3, <1>4, <2>5 DEF bytes, skip, n
<1> QED
  BY <1>1, <1>3, <1>6, <1>7

(* The first n bytes of an allocation are there; the bytes of each allocation   *)
(* stand in their order, none is missing before one that is there.            *)
Holds(P, e, n) == \A i \in 1 .. n : \E y \in P : y[2] = <<e, i>>
Ordered(P) ==
  \A x \in P : \A i \in 1 .. x[2][2] - 1 :
    \E y \in P : y[1] < x[1] /\ y[2] = <<x[2][1], i>>

LEMMA HoldsOn ==
  ASSUME NEW P, NEW Q, P \subseteq Q, NEW e, NEW n, Holds(P, e, n)
  PROVE  Holds(Q, e, n)
BY DEF Holds

LEMMA HoldsNothing ==
  ASSUME NEW P, NEW e
  PROVE  Holds(P, e, 0)
BY DEF Holds

(* A piece that begins after a stored prefix continues it.                   *)
LEMMA PieceContinues ==
  ASSUME NEW P, NEW high \in Nat, \A x \in P : x[1] \in Int /\ x[1] < high, Ordered(P),
         NEW e, NEW lo \in Nat, NEW hi \in Nat, Holds(P, e, lo),
         NEW Q, Q = P \cup Piece(high, e, lo, hi)
  PROVE  Ordered(Q) /\ Holds(Q, e, hi)
<1>1. ASSUME NEW i \in 1 .. hi
      PROVE  \E y \in Q : y[2] = <<e, i>> /\ (i <= lo => y \in P)
                            /\ (i > lo => y[1] = high + (i - lo) - 1)
  <2>1. CASE i <= lo
    <3>1. i \in 1 .. lo
      BY <2>1
    <3>2. PICK y \in P : y[2] = <<e, i>>
      BY <3>1 DEF Holds
    <3> QED
      BY <2>1, <3>2
  <2>2. CASE i > lo
    <3>1. i - lo \in 1 .. hi - lo /\ lo + (i - lo) = i
      BY <2>2
    <3>2. <<high + (i - lo) - 1, <<e, lo + (i - lo)>>>> \in Piece(high, e, lo, hi)
      BY <3>1 DEF Piece
    <3> QED
      BY <2>2, <3>1, <3>2
  <2> QED
    BY <2>1, <2>2
<1>2. Holds(Q, e, hi)
  BY <1>1 DEF Holds
<1>3. ASSUME NEW x \in Q, NEW i \in 1 .. x[2][2] - 1
      PROVE  \E y \in Q : y[1] < x[1] /\ y[2] = <<x[2][1], i>>
  <2>1. CASE x \in P
    BY <2>1 DEF Ordered
  <2>2. CASE x \in Piece(high, e, lo, hi)
    <3>1. PICK k \in 1 .. hi - lo : x = <<high + k - 1, <<e, lo + k>>>>
      BY <2>2 DEF Piece
    <3>2. x[1] = high + k - 1 /\ x[2][1] = e /\ i \in 1 .. lo + k - 1
      BY <3>1
    <3>3. i \in 1 .. hi
      BY <3>2
    <3>4. PICK y \in Q : /\ y[2] = <<e, i>> /\ (i <= lo => y \in P)
                         /\ (i > lo => y[1] = high + (i - lo) - 1)
      BY <1>1, <3>3
    <3>5. y[1] < x[1]
      <4>1. CASE i <= lo
        <5>1. y[1] \in Int /\ y[1] < high
          BY <3>4, <4>1
        <5> QED
          BY <3>2, <5>1
      <4>2. CASE i > lo
        BY <3>2, <3>4, <4>2
      <4> QED
        BY <3>2, <4>1, <4>2
    <3> QED
      BY <3>2, <3>4, <3>5
  <2> QED
    BY <2>1, <2>2
<1> QED
  BY <1>2, <1>3 DEF Ordered

LEMMA StreamIsOrdered == PrefixKept <=> \A s \in Streams : Ordered(Placed(s))
BY DEF PrefixKept, Ordered

LEMMA StreamIsOrderedNext == PrefixKept' <=> \A s \in Streams : Ordered(Placed(s)')
BY DEF PrefixKept, Ordered

(* The bytes of a stream are below its end, one at each offset.               *)
LEMMA PlacedBelow ==
  ASSUME WriterInv, NEW s \in Streams
  PROVE  /\ HighWater(s) \in Nat
         /\ \A x \in Placed(s) : x[1] \in Int /\ x[1] < HighWater(s)
         /\ \A x, y \in Placed(s) : x[1] = y[1] => x = y
<1>1. rows[s] \in Row /\ Settled(chunks[s], rows[s].persisted)
  BY StreamsSettled DEF WriterInv, TypeOK
<1> QED
  BY <1>1, HeldOnce, PlacedIsHeld, RowParts

-----------------------------------------------------------------------------
(* What each step of a sync makes of its frame. *)

(* Frames that differ in nothing but where they are in the sync.              *)
Alike(f, g) ==
  /\ g.prev = f.prev /\ g.alloc = f.alloc /\ g.legacy = f.legacy
  /\ g.result = f.result /\ g.advanced = f.advanced /\ g.polls = f.polls

(* A record with the fields of a frame.                                      *)
IsFrame(f) ==
  f \in [step: {f.step}, prev: {f.prev}, alloc: {f.alloc}, legacy: {f.legacy},
         result: {f.result}, delta: {f.delta}, todo: {f.todo}, advanced: {f.advanced},
         polls: {f.polls}, final: {f.final}]

MigratedTo(f, g) ==
  /\ g.step = IF SeesAnotherAllocation(f) THEN "reset" ELSE "offsets"
  /\ g.final = f.final

DrainedTo(f, g) ==
  \/ g.step = "list" /\ g.final = f.final /\ (Anonymized = {} \/ f.final)
  \/ g.step = "offsets" /\ g.final = TRUE /\ f.final = FALSE /\ Anonymized # {}

WrittenTo(f, g) ==
  \/ ~Terminal(f) /\ g.step = "save" /\ g.final = f.final
  \/ /\ Terminal(f) /\ ~f.final /\ f.polls < DrainAttempts
     /\ g.step = "poll" /\ g.final = f.final
  \/ /\ Terminal(f) /\ (f.final \/ ~(f.polls < DrainAttempts))
     /\ DrainedTo(f, g)

LEMMA FrameIsFrame ==
  ASSUME NEW f \in Frame
  PROVE  IsFrame(f) /\ f.final \in BOOLEAN
BY DEF Frame, IsFrame

LEMMA MigrationGoes ==
  ASSUME NEW f, IsFrame(f), NEW g, g = AfterMigration(f)
  PROVE  Alike(f, g) /\ MigratedTo(f, g) /\ g.delta = f.delta /\ g.todo = f.todo
BY DEF AfterMigration, Alike, MigratedTo, IsFrame

LEMMA DrainGoes ==
  ASSUME NEW f, IsFrame(f), f.final \in BOOLEAN, NEW g, g = AfterDrain(f)
  PROVE  Alike(f, g) /\ DrainedTo(f, g) /\ g.delta = f.delta /\ g.todo = f.todo
<1>1. CASE Anonymized = {} \/ f.final
  BY <1>1 DEF AfterDrain, Alike, DrainedTo, IsFrame
<1>2. CASE ~(Anonymized = {} \/ f.final)
  BY <1>2 DEF AfterDrain, Alike, DrainedTo, IsFrame
<1> QED
  BY <1>1, <1>2

LEMMA WritesGo ==
  ASSUME NEW f, IsFrame(f), f.final \in BOOLEAN, NEW g, g = AfterWrites(f)
  PROVE  Alike(f, g) /\ WrittenTo(f, g) /\ g.delta = f.delta /\ g.todo = f.todo
<1>1. CASE ~Terminal(f)
  BY <1>1 DEF AfterWrites, Alike, WrittenTo, IsFrame
<1>2. CASE Terminal(f) /\ ~f.final /\ f.polls < DrainAttempts
  BY <1>2 DEF AfterWrites, Alike, WrittenTo, IsFrame
<1>3. CASE Terminal(f) /\ ~(~f.final /\ f.polls < DrainAttempts)
  <2>1. g = AfterDrain(f)
    BY <1>3 DEF AfterWrites
  <2> QED
    BY <1>3, <2>1, DrainGoes DEF WrittenTo
<1> QED
  BY <1>1, <1>2, <1>3

LEMMA AdvanceMoves ==
  ASSUME FramesOK, NEW w \in Writers, NEW g, Advance(w, g)
  PROVE  sync'[w] = g /\ \A v \in Writers \ {w} : sync'[v] = sync[v]
BY DEF Advance, FramesOK

LEMMA StartGoes ==
  ASSUME FramesOK, NEW w \in Writers, StartSync(w), NEW g, g = sync'[w]
  PROVE  /\ sync[w].step = "idle" /\ status = "RUNNING" /\ AtRest(w)
         /\ g.step = "resolve" /\ g.prev = tracked /\ g.legacy = legacy
         /\ g.alloc = NoAlloc /\ g.result = "RUNNING" /\ g.delta = NoDelta
         /\ g.todo = {} /\ g.advanced = {} /\ g.polls = 0 /\ g.final = FALSE
<1>1. g = [NoFrame EXCEPT !.step = "resolve", !.prev = tracked, !.legacy = legacy]
  BY AdvanceMoves DEF StartSync
<1> QED
  BY <1>1 DEF StartSync, NoFrame

LEMMA ResolveGoes ==
  ASSUME FramesOK, NEW w \in Writers, Resolve(w), NEW f, f = sync[w], NEW g, g = sync'[w]
  PROVE  /\ At(w, "resolve") /\ alloc # NoAlloc
         /\ g.prev = f.prev /\ g.legacy = f.legacy /\ g.advanced = f.advanced
         /\ g.polls = f.polls /\ g.final = f.final /\ g.delta = f.delta /\ g.todo = f.todo
         /\ g.alloc = alloc /\ g.result = (IF dead THEN "DONE" ELSE "RUNNING")
         /\ \/ f.legacy > 0 /\ g.step = "migrate"
            \/ ~(f.legacy > 0) /\ MigratedTo(g, g)
<1> DEFINE h == [f EXCEPT !.alloc = alloc, !.result = IF dead THEN "DONE" ELSE "RUNNING"]
<1>0. f \in Frame
  BY DEF FramesOK
<1>1. g = IF h.legacy > 0 THEN [h EXCEPT !.step = "migrate"] ELSE AfterMigration(h)
  BY AdvanceMoves DEF Resolve
<1>2. /\ h.prev = f.prev /\ h.legacy = f.legacy /\ h.advanced = f.advanced
      /\ h.polls = f.polls /\ h.final = f.final /\ h.delta = f.delta /\ h.todo = f.todo
      /\ h.alloc = alloc /\ h.result = (IF dead THEN "DONE" ELSE "RUNNING")
  BY <1>0 DEF Frame
<1>3. [h EXCEPT !.step = "migrate"] = [f EXCEPT !.alloc = alloc,
         !.result = IF dead THEN "DONE" ELSE "RUNNING", !.step = "migrate"]
  OBVIOUS
<1>4. CASE f.legacy > 0
  <2>1. g = [f EXCEPT !.alloc = alloc, !.result = IF dead THEN "DONE" ELSE "RUNNING",
                      !.step = "migrate"]
    BY <1>1, <1>2, <1>3, <1>4
  <2> QED
    BY <1>0, <1>4, <2>1 DEF Frame, Resolve
<1>5. CASE ~(f.legacy > 0)
  <2>1. g = [f EXCEPT !.alloc = alloc, !.result = IF dead THEN "DONE" ELSE "RUNNING",
               !.step = IF SeesAnotherAllocation(h) THEN "reset" ELSE "offsets"]
    BY <1>1, <1>2, <1>5 DEF AfterMigration
  <2>2. SeesAnotherAllocation(h) = SeesAnotherAllocation(g)
    <3>1. h.prev = g.prev /\ h.alloc = g.alloc
      BY <1>0, <1>2, <2>1 DEF Frame
    <3> QED
      BY <3>1 DEF SeesAnotherAllocation
  <2> HIDE DEF h
  <2> QED
    BY <1>0, <1>5, <2>1, <2>2 DEF Frame, Resolve, MigratedTo
<1> QED
  BY <1>4, <1>5

LEMMA ResolveNothingGoes ==
  ASSUME FramesOK, NEW w \in Writers, ResolveNothing(w),
         NEW f, f = sync[w], NEW g, g = sync'[w]
  PROVE  /\ At(w, "resolve") /\ alloc = NoAlloc
         /\ g.prev = f.prev /\ g.legacy = f.legacy /\ g.advanced = f.advanced
         /\ g.polls = f.polls /\ g.final = f.final /\ g.delta = f.delta /\ g.todo = f.todo
         /\ g.alloc = f.alloc /\ g.result = (IF dead THEN "LOST" ELSE "RUNNING")
         /\ g.step = "save"
<1>0. f \in Frame
  BY DEF FramesOK
<1>1. g = [f EXCEPT !.step = "save", !.result = IF dead THEN "LOST" ELSE "RUNNING"]
  BY AdvanceMoves DEF ResolveNothing
<1> QED
  BY <1>0, <1>1 DEF Frame, ResolveNothing

LEMMA ListLegacyGoes ==
  ASSUME FramesOK, NEW w \in Writers, ListLegacy(w), NEW f, f = sync[w], NEW g, g = sync'[w]
  PROVE  /\ At(w, "migrate")
         /\ Alike(f, g) /\ g.delta = f.delta
         /\ \/ MigratedTo(f, g) /\ g.todo = f.todo
            \/ /\ g.step = "backfill" /\ g.final = f.final
               /\ g.todo = { s \in Streams : IsNew(rows[s]) }
<1> DEFINE missing == { s \in Streams : IsNew(rows[s]) }
<1>0. f \in Frame
  BY DEF FramesOK
<1>1. g = IF missing = {} THEN AfterMigration(f)
          ELSE [f EXCEPT !.todo = missing, !.step = "backfill"]
  BY AdvanceMoves DEF ListLegacy
<1> HIDE DEF missing
<1>2. CASE g = AfterMigration(f)
  BY <1>0, <1>2, FrameIsFrame, MigrationGoes DEF ListLegacy
<1>3. CASE g = [f EXCEPT !.todo = missing, !.step = "backfill"]
  BY <1>0, <1>3 DEF Frame, Alike, ListLegacy, missing
<1> QED
  BY <1>1, <1>2, <1>3

LEMMA BackfillGoes ==
  ASSUME FramesOK, NEW w \in Writers, Backfill(w), NEW f, f = sync[w], NEW g, g = sync'[w]
  PROVE  /\ At(w, "backfill")
         /\ Alike(f, g) /\ g.delta = f.delta
         /\ \E s \in f.todo :
              /\ BeginAppend(w, LegacyRequest(w, s))
              /\ g.todo = f.todo \ {s}
              /\ \/ g.step = "backfill" /\ g.final = f.final
                 \/ MigratedTo(f, g)
<1>0. f \in Frame
  BY DEF FramesOK
<1>1. PICK s \in f.todo :
        /\ BeginAppend(w, LegacyRequest(w, s))
        /\ LET left == [f EXCEPT !.todo = @ \ {s}] IN
           Advance(w, IF left.todo # {} THEN left ELSE AfterMigration(left))
  BY DEF Backfill
<1> DEFINE left == [f EXCEPT !.todo = f.todo \ {s}]
<1>2. g = IF left.todo # {} THEN left ELSE AfterMigration(left)
  BY <1>1, AdvanceMoves
<1>3. /\ left \in Frame /\ Alike(f, left) /\ left.delta = f.delta
      /\ left.todo = f.todo \ {s} /\ left.step = f.step /\ left.final = f.final
  BY <1>0 DEF Frame, Alike
<1>4. f.step = "backfill"
  BY DEF Backfill, At
<1> HIDE DEF left
<1>5. CASE g = left
  BY <1>1, <1>3, <1>4, <1>5 DEF Backfill
<1>6. CASE g = AfterMigration(left)
  <2>1. Alike(left, g) /\ MigratedTo(left, g) /\ g.delta = left.delta /\ g.todo = left.todo
    BY <1>3, <1>6, FrameIsFrame, MigrationGoes
  <2>2. MigratedTo(f, g) /\ Alike(f, g)
    BY <1>3, <2>1 DEF MigratedTo, Alike, SeesAnotherAllocation
  <2> QED
    BY <1>1, <1>3, <2>1, <2>2 DEF Backfill
<1> QED
  BY <1>2, <1>5, <1>6

LEMMA ResetGoes ==
  ASSUME FramesOK, NEW w \in Writers, Reset(w), NEW f, f = sync[w], NEW g, g = sync'[w]
  PROVE  /\ At(w, "reset") /\ BeginReset(w, f.alloc)
         /\ Alike(f, g) /\ g.delta = f.delta /\ g.todo = f.todo /\ g.final = f.final
         /\ g.step = "offsets"
<1>0. f \in Frame
  BY DEF FramesOK
<1>1. g = [f EXCEPT !.step = "offsets"]
  BY AdvanceMoves DEF Reset
<1> QED
  BY <1>0, <1>1 DEF Frame, Reset, Alike

LEMMA OffsetsGoes ==
  ASSUME FramesOK, NEW w \in Writers, Offsets(w), NEW f, f = sync[w], NEW g, g = sync'[w]
  PROVE  /\ At(w, "offsets")
         /\ Alike(f, g) /\ g.todo = f.todo /\ g.final = f.final
         /\ g.step = "fetch"
         /\ g.delta = [s \in Streams |-> Cursor(rows[s], f.alloc)]
<1> DEFINE delta == [s \in Streams |-> Cursor(rows[s], f.alloc)]
<1>0. f \in Frame
  BY DEF FramesOK
<1>1. g = [f EXCEPT !.step = "fetch", !.delta = delta]
  BY AdvanceMoves DEF Offsets
<1> HIDE DEF delta
<1>2. /\ Alike(f, g) /\ g.todo = f.todo /\ g.final = f.final
      /\ g.step = "fetch" /\ g.delta = delta
  BY <1>0, <1>1 DEF Frame, Alike
<1> QED
  BY <1>2 DEF Offsets, delta

(* What a fetch that reached these streams adds to the cursors.               *)
FetchedDelta(f, ok) ==
  [s \in Streams |->
     IF s \in ok THEN [f.delta[s] EXCEPT !.to = Readable(f, s)] ELSE f.delta[s]]

Refuses(ok) ==
  IF Purged THEN ok = {} /\ UNCHANGED refused
  ELSE /\ refused' = refused + Cardinality(Streams \ ok)
       /\ refused' <= MaxFetchErrors

Fetched(f, g, ok) ==
  /\ g.delta = FetchedDelta(f, ok)
  /\ g.todo = Due(f, g.delta)
  /\ g.advanced = IF f.polls > 0 THEN f.advanced \cup Produced(g.delta) ELSE f.advanced
  /\ \/ g.todo # {} /\ g.step = "write" /\ g.final = f.final
     \/ /\ g.todo = {} /\ f.polls > 0 /\ DrainIsQuiet(f, g.delta, ok)
        /\ DrainedTo(f, g)
     \/ /\ g.todo = {} /\ ~(f.polls > 0 /\ DrainIsQuiet(f, g.delta, ok))
        /\ WrittenTo(f, g)

LEMMA FetchGoes ==
  ASSUME FramesOK, NEW w \in Writers, Fetch(w), NEW f, f = sync[w], NEW g, g = sync'[w]
  PROVE  /\ At(w, "fetch")
         /\ g.prev = f.prev /\ g.alloc = f.alloc /\ g.legacy = f.legacy
         /\ g.result = f.result /\ g.polls = f.polls
         /\ \E ok \in SUBSET Streams : Refuses(ok) /\ Fetched(f, g, ok)
<1>0. f \in Frame
  BY DEF FramesOK
<1>9. At(w, "fetch")
  BY DEF Fetch
<1>10. PICK ok \in SUBSET Streams :
        /\ Refuses(ok)
        /\ LET h == sync[w]
               delta == [s \in Streams |->
                IF s \in ok THEN [h.delta[s] EXCEPT !.to = Readable(h, s)] ELSE h.delta[s]]
               got == [h EXCEPT !.delta = delta, !.todo = Due(h, delta),
                        !.advanced = IF h.polls > 0 THEN @ \cup Produced(delta) ELSE @]
          IN Advance(w, IF got.todo # {} THEN [got EXCEPT !.step = "write"]
                        ELSE IF h.polls > 0 /\ DrainIsQuiet(h, delta, ok)
                        THEN AfterDrain(got) ELSE AfterWrites(got))
  BY DEF Fetch, Refuses
<1>1.   /\ Refuses(ok)
        /\ LET delta == FetchedDelta(f, ok)
               got == [f EXCEPT !.delta = delta, !.todo = Due(f, delta),
                         !.advanced = IF f.polls > 0 THEN @ \cup Produced(delta) ELSE @]
           IN Advance(w, IF got.todo # {} THEN [got EXCEPT !.step = "write"]
                         ELSE IF f.polls > 0 /\ DrainIsQuiet(f, delta, ok)
                         THEN AfterDrain(got) ELSE AfterWrites(got))
  BY <1>10 DEF FetchedDelta
<1> DEFINE delta == FetchedDelta(f, ok)
           reached == IF f.polls > 0 THEN f.advanced \cup Produced(delta) ELSE f.advanced
           got == [f EXCEPT !.delta = delta, !.todo = Due(f, delta), !.advanced = reached]
<1>2. g = IF got.todo # {} THEN [got EXCEPT !.step = "write"]
          ELSE IF f.polls > 0 /\ DrainIsQuiet(f, delta, ok)
          THEN AfterDrain(got) ELSE AfterWrites(got)
  BY <1>1, AdvanceMoves
<1> HIDE DEF delta, reached
<1>3. /\ IsFrame(got) /\ got.final \in BOOLEAN /\ Alike([f EXCEPT !.advanced = reached], got)
      /\ got.delta = delta /\ got.todo = Due(f, delta)
      /\ got.step = f.step /\ got.final = f.final
  BY <1>0 DEF Frame, IsFrame, Alike
<1>4. /\ got.prev = f.prev /\ got.alloc = f.alloc /\ got.legacy = f.legacy
      /\ got.result = f.result /\ got.polls = f.polls /\ got.advanced = reached
  BY <1>0 DEF Frame
<1> HIDE DEF got
<1>5. /\ \A h : DrainedTo(got, h) => DrainedTo(f, h)
      /\ \A h : WrittenTo(got, h) => WrittenTo(f, h)
  BY <1>3, <1>4 DEF DrainedTo, WrittenTo, Terminal
<1>6. CASE got.todo # {}
  <2>1. g = [got EXCEPT !.step = "write"]
    BY <1>2, <1>6
  <2>2. /\ Alike(got, g) /\ g.delta = got.delta /\ g.todo = got.todo
        /\ g.step = "write" /\ g.final = got.final
    BY <1>3, <2>1 DEF IsFrame, Alike
  <2>3. /\ g.prev = f.prev /\ g.alloc = f.alloc /\ g.legacy = f.legacy
        /\ g.result = f.result /\ g.polls = f.polls
        /\ g.delta = delta /\ g.todo = Due(f, g.delta) /\ g.advanced = reached
        /\ g.todo # {} /\ g.step = "write" /\ g.final = f.final
    BY <1>3, <1>4, <1>6, <2>2 DEF Alike
  <2>4. g.advanced = IF f.polls > 0 THEN f.advanced \cup Produced(g.delta) ELSE f.advanced
    BY <2>3 DEF reached
  <2>5. Fetched(f, g, ok)
    BY <2>3, <2>4 DEF delta, Fetched
  <2> QED
    BY <1>1, <1>9, <2>3, <2>5
<1>7. CASE got.todo = {} /\ f.polls > 0 /\ DrainIsQuiet(f, delta, ok)
  <2>1. g = AfterDrain(got)
    BY <1>2, <1>7
  <2>2. Alike(got, g) /\ DrainedTo(got, g) /\ g.delta = got.delta /\ g.todo = got.todo
    BY <1>3, <2>1, DrainGoes
  <2>3. Fetched(f, g, ok)
    BY <1>3, <1>4, <1>5, <1>7, <2>2 DEF Alike, delta, reached, Fetched
  <2> QED
    BY <1>1, <1>3, <1>4, <1>9, <2>2, <2>3 DEF Alike
<1>8. CASE got.todo = {} /\ ~(f.polls > 0 /\ DrainIsQuiet(f, delta, ok))
  <2>1. g = AfterWrites(got)
    BY <1>2, <1>8
  <2>2. Alike(got, g) /\ WrittenTo(got, g) /\ g.delta = got.delta /\ g.todo = got.todo
    BY <1>3, <2>1, WritesGo
  <2>3. Fetched(f, g, ok)
    BY <1>3, <1>4, <1>5, <1>8, <2>2 DEF Alike, delta, reached, Fetched
  <2> QED
    BY <1>1, <1>3, <1>4, <1>9, <2>2, <2>3 DEF Alike
<1> QED
  BY <1>6, <1>7, <1>8

LEMMA PollGoes ==
  ASSUME FramesOK, NEW w \in Writers, Poll(w), NEW f, f = sync[w], NEW g, g = sync'[w]
  PROVE  /\ At(w, "poll")
         /\ g.prev = f.prev /\ g.alloc = f.alloc /\ g.legacy = f.legacy
         /\ g.result = f.result /\ g.advanced = f.advanced /\ g.polls = f.polls + 1
         /\ g.delta = f.delta /\ g.todo = f.todo /\ g.final = f.final
         /\ g.step = "offsets"
<1>0. f \in Frame
  BY DEF FramesOK
<1>1. g = [f EXCEPT !.step = "offsets", !.polls = f.polls + 1]
  BY AdvanceMoves DEF Poll
<1> QED
  BY <1>0, <1>1 DEF Frame, Poll

LEMMA WriteDeltaGoes ==
  ASSUME FramesOK, NEW w \in Writers, WriteDelta(w), NEW f, f = sync[w], NEW g, g = sync'[w]
  PROVE  /\ At(w, "write")
         /\ Alike(f, g)
         /\ \E s \in f.todo :
              /\ BeginAppend(w, DeltaRequest(w, s))
              /\ g.todo = f.todo \ {s}
              /\ \/ /\ g.todo # {} /\ g.step = "write" /\ g.final = f.final
                    /\ g.delta = f.delta
                 \/ g.todo = {} /\ WrittenTo(f, g) /\ g.delta = NoDelta
<1>0. f \in Frame
  BY DEF FramesOK
<1>1. PICK s \in f.todo :
        /\ BeginAppend(w, DeltaRequest(w, s))
        /\ LET left == [f EXCEPT !.todo = @ \ {s}] IN
           Advance(w, IF left.todo # {} THEN left
                      ELSE [AfterWrites(left) EXCEPT !.delta = NoDelta])
  BY DEF WriteDelta
<1> DEFINE left == [f EXCEPT !.todo = f.todo \ {s}]
<1>2. g = IF left.todo # {} THEN left ELSE [AfterWrites(left) EXCEPT !.delta = NoDelta]
  BY <1>1, AdvanceMoves
<1>3. /\ IsFrame(left) /\ left.final \in BOOLEAN /\ Alike(f, left) /\ left.delta = f.delta
      /\ left.todo = f.todo \ {s} /\ left.step = f.step /\ left.final = f.final
  BY <1>0 DEF Frame, IsFrame, Alike
<1>4. At(w, "write") /\ f.step = "write"
  BY DEF WriteDelta, At
<1> HIDE DEF left
<1>5. CASE left.todo # {}
  BY <1>1, <1>2, <1>3, <1>4, <1>5
<1>6. CASE left.todo = {}
  <2> DEFINE h == AfterWrites(left)
  <2>1. Alike(left, h) /\ WrittenTo(left, h) /\ h.delta = left.delta /\ h.todo = left.todo
    BY <1>3, WritesGo
  <2>2. IsFrame(h)
    <3>1. \/ h = [left EXCEPT !.step = "save"]
          \/ h = [left EXCEPT !.step = "poll"]
          \/ h = [left EXCEPT !.step = "list"]
          \/ h = [left EXCEPT !.step = "offsets", !.final = TRUE]
      BY DEF AfterWrites, AfterDrain
    <3> HIDE DEF h
    <3> QED
      BY <1>3, <3>1 DEF IsFrame
  <2> HIDE DEF h
  <2>3. g = [h EXCEPT !.delta = NoDelta]
    BY <1>2, <1>6 DEF h
  <2>4. /\ Alike(h, g) /\ g.step = h.step /\ g.final = h.final /\ g.todo = h.todo
        /\ g.delta = NoDelta
    BY <2>2, <2>3 DEF IsFrame, Alike
  <2>5. Alike(f, g)
    BY <1>3, <2>1, <2>4 DEF Alike
  <2>6. WrittenTo(f, g)
    BY <1>3, <2>1, <2>4 DEF Alike, WrittenTo, DrainedTo, Terminal
  <2> QED
    BY <1>1, <1>3, <1>4, <1>6, <2>1, <2>4, <2>5, <2>6
<1> QED
  BY <1>5, <1>6

LEMMA ListRowsGoes ==
  ASSUME FramesOK, NEW w \in Writers, ListRows(w), NEW f, f = sync[w], NEW g, g = sync'[w]
  PROVE  /\ At(w, "list")
         /\ Alike(f, g) /\ g.delta = NoDelta /\ g.final = f.final
         /\ g.todo = { s \in Streams : ~IsNew(rows[s]) }
         /\ \/ g.todo = {} /\ g.step = "save"
            \/ g.todo # {} /\ g.step = "flush"
<1> DEFINE stored == { s \in Streams : ~IsNew(rows[s]) }
<1>0. f \in Frame
  BY DEF FramesOK
<1>1. g = [f EXCEPT !.todo = stored, !.delta = NoDelta,
                    !.step = IF stored = {} THEN "save" ELSE "flush"]
  BY AdvanceMoves DEF ListRows
<1> HIDE DEF stored
<1>2. /\ Alike(f, g) /\ g.delta = NoDelta /\ g.final = f.final /\ g.todo = stored
      /\ g.step = IF stored = {} THEN "save" ELSE "flush"
  BY <1>0, <1>1 DEF Frame, Alike
<1> QED
  BY <1>2 DEF ListRows, stored

LEMMA FlushRowGoes ==
  ASSUME FramesOK, NEW w \in Writers, FlushRow(w), NEW f, f = sync[w], NEW g, g = sync'[w]
  PROVE  /\ At(w, "flush")
         /\ Alike(f, g) /\ g.delta = f.delta /\ g.final = f.final
         /\ \E s \in f.todo :
              /\ BeginAppend(w, FlushRequest(s))
              /\ g.todo = f.todo \ {s}
              /\ \/ g.todo # {} /\ g.step = "flush"
                 \/ g.todo = {} /\ g.step = "save"
<1>0. f \in Frame
  BY DEF FramesOK
<1>1. PICK s \in f.todo :
        /\ BeginAppend(w, FlushRequest(s))
        /\ LET left == [f EXCEPT !.todo = @ \ {s}] IN
           Advance(w, IF left.todo # {} THEN left ELSE [left EXCEPT !.step = "save"])
  BY DEF FlushRow
<1> DEFINE left == [f EXCEPT !.todo = f.todo \ {s}]
<1>2. g = IF left.todo # {} THEN left ELSE [left EXCEPT !.step = "save"]
  BY <1>1, AdvanceMoves
<1>3. /\ IsFrame(left) /\ Alike(f, left) /\ left.delta = f.delta
      /\ left.todo = f.todo \ {s} /\ left.step = f.step /\ left.final = f.final
  BY <1>0 DEF Frame, IsFrame, Alike
<1>4. At(w, "flush") /\ f.step = "flush"
  BY DEF FlushRow, At
<1> HIDE DEF left
<1>5. CASE left.todo # {}
  BY <1>1, <1>2, <1>3, <1>4, <1>5
<1>6. CASE left.todo = {}
  <2>1. g = [left EXCEPT !.step = "save"]
    BY <1>2, <1>6
  <2>2. /\ Alike(left, g) /\ g.delta = left.delta /\ g.todo = left.todo
        /\ g.step = "save" /\ g.final = left.final
    BY <1>3, <2>1 DEF IsFrame, Alike
  <2>3. Alike(f, g)
    BY <1>3, <2>2 DEF Alike
  <2> QED
    BY <1>1, <1>3, <1>4, <1>6, <2>2, <2>3
<1> QED
  BY <1>5, <1>6

(* A sync that saves, raises or dies is over; the writer's steps are not its own. *)
LEMMA EndGoes ==
  ASSUME FramesOK, NEW w \in Writers, Save(w) \/ Raise(w) \/ AbortSync(w)
  PROVE  sync'[w] = NoFrame
BY AdvanceMoves DEF Save, Raise, AbortSync

(* The other syncs' frames stand still.                                      *)
LEMMA OtherFrames ==
  ASSUME FramesOK, NEW w \in Writers, StartSync(w) \/ SyncStep(w) \/ AbortSync(w)
  PROVE  \/ sync' = sync
         \/ ~InWriter(w) /\ \A v \in Writers \ {w} : sync'[v] = sync[v]
<1>1. CASE InWriter(w)
  BY <1>1 DEF InWriter
<1>2. CASE \E g : Advance(w, g)
  <2>1. PICK g : Advance(w, g)
    BY <1>2
  <2>2. \A v \in Writers \ {w} : sync'[v] = sync[v]
    BY <2>1, AdvanceMoves
  <2> QED
    BY <2>2 DEF InWriter
<1>3. ~InWriter(w) => \E g : Advance(w, g)
  BY DEF StartSync, SyncStep, Resolve, ResolveNothing, ListLegacy, Backfill, Reset, Offsets,
     Fetch, Poll, WriteDelta, ListRows, FlushRow, Save, Raise, AbortSync
<1> QED
  BY <1>1, <1>2, <1>3

-----------------------------------------------------------------------------
(* What each step makes of the cursors, the rows and the calls. *)

(* A step of the syncs moves the writer by at most one session's move.        *)
LEMMA NextMoves ==
  ASSUME LogSyncInv, [SyncNext]_syncVars
  PROVE  UNCHANGED writerVars \/ \E w \in Writers : WriterMove(w)
<1>1. WriterInv /\ FramesOK /\ NomadOK
  BY InvParts
<1> QED
  BY <1>1, SyncMoves, NomadSteps DEF SyncNext, NomadStep, syncVars

(* What does not write an append's row changes a row only by a reset.         *)
LEMMA RowsGo ==
  ASSUME WriterInv, NEW w \in Writers, WriterMove(w), ~WriteRow(w), NEW s \in Streams
  PROVE  \/ rows'[s] = rows[s]
         \/ /\ ResetWrite(w) /\ ~IsNew(rows[s]) /\ ~IsNew(rows'[s])
            /\ rows'[s].nomad = 0 /\ rows'[s].producer = 0 /\ rows'[s].epoch = target[w]
<1>1. CASE ResetWrite(w)
  <2>1. rows'[s] = ResetRow(w, s)
    BY <1>1 DEF ResetWrite
  <2>2. s \in Drained(w) => seen[w][s] = rows[s]
    BY <1>1 DEF ResetWrite, WinsDrain, WriterInv, SnapshotsAreVersioned, HasRead
  <2>3. rows[s].version \in Nat
    BY DEF WriterInv, TypeOK, Row
  <2>4. IsNew(rows[s]) => rows'[s] = rows[s]
    BY <2>1 DEF ResetRow
  <2>5. ASSUME ~IsNew(rows[s])
        PROVE  /\ rows'[s].nomad = 0 /\ rows'[s].producer = 0 /\ rows'[s].epoch = target[w]
               /\ ~IsNew(rows'[s])
    <3>1. /\ rows'[s].nomad = 0 /\ rows'[s].producer = 0 /\ rows'[s].epoch = target[w]
          /\ rows'[s].version = rows[s].version + 2 \/ rows'[s].version = rows[s].version + 1
      BY <2>1, <2>2, <2>5 DEF ResetRow
    <3> QED
      BY <2>3, <3>1 DEF IsNew
  <2> QED
    BY <1>1, <2>4, <2>5
<1>2. CASE ~ResetWrite(w)
  <2>1. rows' = rows
    BY <1>2 DEF WriterMove, BeginAppend, BeginReset, WriterStep, ReadRow,
       LockFirstInsert, LoseRace, ResetLock, ResetList, LoseDrain, Quit, dbVars
  <2> QED
    BY <2>1
<1> QED
  BY <1>1, <1>2

LEMMA FetchKeepsCursor ==
  ASSUME FramesOK, NEW w \in Writers, Fetch(w), NEW s \in Streams,
         NEW d, d = sync[w].delta[s], NEW x, x = sync'[w].delta[s]
  PROVE  x.nomad = d.nomad /\ x.producer = d.producer
<1> SUFFICES ASSUME NEW f, f = sync[w], NEW g, g = sync'[w]
             PROVE  x.nomad = d.nomad /\ x.producer = d.producer
  OBVIOUS
<1>1. PICK ok \in SUBSET Streams : g.delta = FetchedDelta(f, ok)
  <2>1. \E ok \in SUBSET Streams : Refuses(ok) /\ Fetched(f, g, ok)
    BY FetchGoes
  <2> QED
    BY <2>1 DEF Fetched
<1>2. x = IF s \in ok THEN [f.delta[s] EXCEPT !.to = Readable(f, s)] ELSE f.delta[s]
  BY <1>1 DEF FetchedDelta
<1>3. f.delta[s] \in Delta
  BY DEF FramesOK, Frame
<1> QED
  BY <1>2, <1>3 DEF Delta

(* A sync's cursors are kept, forgotten, or read anew.                        *)
LEMMA CursorsGo ==
  ASSUME FramesOK, NEW w \in Writers, StartSync(w) \/ SyncStep(w) \/ AbortSync(w),
         NEW s \in Streams, NEW d, d = sync[w].delta[s], NEW x, x = sync'[w].delta[s]
  PROVE  \/ x.nomad = d.nomad /\ x.producer = d.producer
         \/ x.nomad = 0 /\ x.producer = 0
         \/ Offsets(w) /\ x = Cursor(rows[s], sync[w].alloc)
<1> DEFINE f == sync[w]
           g == sync'[w]
<1>0. NoDelta[s].nomad = 0 /\ NoDelta[s].producer = 0
  BY DEF NoDelta, Nothing
<1>1. CASE g.delta = f.delta
  BY <1>1
<1>2. CASE g.delta = NoDelta
  BY <1>0, <1>2
<1>3. CASE Fetch(w)
  BY <1>3, FetchKeepsCursor
<1>4. CASE Offsets(w)
  <2>1. g.delta = [t \in Streams |-> Cursor(rows[t], f.alloc)]
    BY <1>4, OffsetsGoes
  <2> QED
    BY <1>4, <2>1
<1>5. CASE Save(w) \/ Raise(w) \/ AbortSync(w)
  BY <1>2, <1>5, EndGoes DEF NoFrame
<1>6. CASE StartSync(w)
  <2>1. g.delta = NoDelta
    BY <1>6, StartGoes
  <2> QED
    BY <1>2, <2>1
<1>11. CASE ListRows(w)
  <2>1. g.delta = NoDelta
    BY <1>11, ListRowsGoes
  <2> QED
    BY <1>2, <2>1
<1>7. CASE WriteDelta(w)
  BY <1>1, <1>2, <1>7, WriteDeltaGoes
<1>8. CASE Resolve(w) \/ ResolveNothing(w) \/ ListLegacy(w)
  BY <1>1, <1>8, ResolveGoes, ResolveNothingGoes, ListLegacyGoes
<1>9. CASE Backfill(w) \/ Reset(w) \/ Poll(w) \/ FlushRow(w)
  BY <1>1, <1>9, BackfillGoes, ResetGoes, PollGoes, FlushRowGoes
<1>10. CASE InWriter(w)
  BY <1>1, <1>10 DEF InWriter
<1> QED
  BY <1>3, <1>4, <1>5, <1>6, <1>7, <1>8, <1>9, <1>10, <1>11 DEF SyncStep

(* A session's call is kept, given up, or one of the three a sync makes.       *)
LEMMA CallsGo ==
  ASSUME LogSyncInv, NEW w \in Writers, StartSync(w) \/ SyncStep(w) \/ AbortSync(w)
  PROVE  /\ \A v \in Writers \ {w} : call'[v] = call[v] /\ pc'[v] = pc[v]
         /\ \/ call'[w] = call[w]
            \/ call'[w] = NoCall
            \/ Backfill(w) /\ \E s \in sync[w].todo : call'[w] = LegacyRequest(w, s)
            \/ WriteDelta(w) /\ \E s \in sync[w].todo : call'[w] = DeltaRequest(w, s)
            \/ FlushRow(w) /\ \E s \in sync[w].todo : call'[w] = FlushRequest(s)
<1>0. TypeOK
  BY DEF LogSyncInv, WriterInv
<1>1. ASSUME NEW r, BeginAppend(w, r)
      PROVE  /\ \A v \in Writers \ {w} : call'[v] = call[v] /\ pc'[v] = pc[v]
             /\ call'[w] = r
  BY <1>0, <1>1 DEF BeginAppend, TypeOK
<1>2. CASE Backfill(w)
  <2>1. PICK s \in sync[w].todo : BeginAppend(w, LegacyRequest(w, s))
    BY <1>2 DEF Backfill
  <2> QED
    BY <1>1, <1>2, <2>1
<1>3. CASE WriteDelta(w)
  <2>1. PICK s \in sync[w].todo : BeginAppend(w, DeltaRequest(w, s))
    BY <1>3 DEF WriteDelta
  <2> QED
    BY <1>1, <1>3, <2>1
<1>4. CASE FlushRow(w)
  <2>1. PICK s \in sync[w].todo : BeginAppend(w, FlushRequest(s))
    BY <1>4 DEF FlushRow
  <2> QED
    BY <1>1, <1>4, <2>1
<1>5. CASE UNCHANGED writerVars
  BY <1>5 DEF writerVars, frameVars
<1>6. CASE StartSync(w) \/ Raise(w) \/ AbortSync(w)
  BY <1>0, <1>6 DEF StartSync, Raise, AbortSync, Return, TypeOK
<1>7. CASE InWriter(w)
  BY <1>0, <1>7 DEF InWriter, WriterStep, ReadRow, LockFirstInsert, WriteRow, LoseRace,
     ResetLock, ResetList, ResetWrite, LoseDrain, Return, GoTo, TypeOK
<1>8. CASE Reset(w)
  BY <1>0, <1>8 DEF Reset, BeginReset, TypeOK
<1>9. CASE Resolve(w) \/ ResolveNothing(w) \/ ListLegacy(w) \/ Offsets(w) \/ Fetch(w)
           \/ Poll(w) \/ ListRows(w) \/ Save(w)
  <2>1. UNCHANGED writerVars
    BY <1>9 DEF Resolve, ResolveNothing, ListLegacy, Offsets, Fetch, Poll, ListRows, Save
  <2> QED
    BY <1>5, <2>1
<1> QED
  BY <1>2, <1>3, <1>4, <1>6, <1>7, <1>8, <1>9 DEF SyncStep

-----------------------------------------------------------------------------
(* Syncs that overlap. *)

(* Any number of syncs of one allocation, of a task that starts with this      *)
(* release.  A log to migrate breaks what follows, as the run overlap_migration *)
(* shows, and so does a second allocation, for the reason unsaved_tracking does. *)
OneAllocation == LegacyLength = 0 /\ \E e \in Epochs : Epochs = {e}

(* A cursor, of a row or of a sync, counts for the producer what it counts for  *)
(* Nomad, and the stream holds all of that.                                  *)
InLockstep(cursor, P) ==
  /\ cursor.producer = cursor.nomad
  /\ \A e \in Epochs : Holds(P, e, cursor.nomad)

(* A call brings a part of the log, and the stream holds all that precedes it.  *)
CarriesOn(r, P) ==
  IF r.nomadAfter = None THEN r.data = <<>> /\ r.after = None
  ELSE \E e \in Epochs, from \in Nat :
         /\ from <= r.nomadAfter /\ r.after = r.nomadAfter
         /\ r.data = Part(e, from, r.nomadAfter)
         /\ Holds(P, e, from)

(* So an append, which skips what the row's offset covers, leaves no hole.     *)
SharedParts ==
  /\ \A s \in Streams : InLockstep(rows[s], Placed(s)) /\ Ordered(Placed(s))
  /\ \A w \in Writers, s \in Streams : InLockstep(sync[w].delta[s], Placed(s))
  /\ \A w \in Writers, s \in Streams :
       s = call[w].stream => CarriesOn(call[w], Placed(s))
SharedInv == BelowCap => SharedParts

SharedPartsNext ==
  /\ \A s \in Streams : InLockstep(rows'[s], Placed(s)') /\ Ordered(Placed(s)')
  /\ \A w \in Writers, s \in Streams : InLockstep(sync'[w].delta[s], Placed(s)')
  /\ \A w \in Writers, s \in Streams :
       s = call'[w].stream => CarriesOn(call'[w], Placed(s)')

LEMMA SharedNext == SharedParts' <=> SharedPartsNext
BY DEF SharedParts, SharedPartsNext, InLockstep, CarriesOn, Holds, Ordered

LEMMA LockstepGrows ==
  ASSUME NEW P, NEW Q, P \subseteq Q, NEW c, InLockstep(c, P), NEW d,
         d.producer = c.producer, d.nomad = c.nomad
  PROVE  InLockstep(d, Q)
BY HoldsOn DEF InLockstep

LEMMA LockstepAtZero ==
  ASSUME NEW P, NEW d, d.producer = 0, d.nomad = 0
  PROVE  InLockstep(d, P)
BY HoldsNothing DEF InLockstep

LEMMA CallGrows ==
  ASSUME NEW P, NEW Q, P \subseteq Q, NEW r, CarriesOn(r, P)
  PROVE  CarriesOn(r, Q)
<1>1. CASE r.nomadAfter = None
  BY <1>1 DEF CarriesOn
<1>2. CASE r.nomadAfter # None
  <2>1. PICK e \in Epochs, from \in Nat :
          /\ from <= r.nomadAfter /\ r.after = r.nomadAfter
          /\ r.data = Part(e, from, r.nomadAfter) /\ Holds(P, e, from)
    BY <1>2 DEF CarriesOn
  <2>2. Holds(Q, e, from)
    BY <2>1, HoldsOn
  <2> QED
    BY <1>2, <2>1, <2>2 DEF CarriesOn
<1> QED
  BY <1>1, <1>2

(* A write of such a call to such a row.                                     *)
LEMMA SharedWrite ==
  ASSUME OneAllocation, WriterInv, CallsInStep, SharedParts, BelowCap',
         NEW w \in Writers, WriteRow(w), NEW s \in Streams
  PROVE  InLockstep(rows'[s], Placed(s)') /\ Ordered(Placed(s)')
<1>1. PICK t \in Streams, r \in Request :
        t = r.stream /\ r = call[w] /\ WriteEffect(w, t, r)
  BY WritePlaces
<1>2. CASE s # t
  BY <1>1, <1>2 DEF SharedParts, WriteEffect
<1>3. CASE s = t
  <2> DEFINE row == rows[s]
             new == rows'[s]
             high == HighWater(s)
  <2>1. /\ InLockstep(row, Placed(s)) /\ Ordered(Placed(s))
        /\ CarriesOn(r, Placed(s))
    BY <1>1, <1>3 DEF SharedParts
  <2>2. /\ high \in Nat /\ \A x \in Placed(s) : x[1] \in Int /\ x[1] < high
        /\ row.producer \in Nat
    BY PlacedBelow DEF WriterInv, TypeOK, Row
  <2>3. Placed(s)' = Placed(s) \cup Written(high, EffectiveNewBytes(row, r))
    <3>1. rows'[t].persisted <= StreamCap
      BY DEF BelowCap
    <3> QED
      BY <1>1, <1>3, <3>1 DEF WriteEffect, AddedBytes
  <2>4. new.producer = Kept(r.after, row.producer) /\ new.nomad = Kept(r.nomadAfter, row.nomad)
    BY <1>1, <1>3 DEF WriteEffect
  <2> HIDE DEF row, new, high
  <2>5. CASE r.nomadAfter = None
    <3>1. r.after = None /\ r.data = <<>>
      BY <2>1, <2>5 DEF CarriesOn
    <3>2. Placed(s)' = Placed(s)
      BY <2>3, <3>1, WrittenNothing DEF EffectiveNewBytes
    <3>3. new.producer = row.producer /\ new.nomad = row.nomad
      BY <2>4, <2>5, <3>1 DEF Kept
    <3> QED
      BY <2>1, <3>2, <3>3, LockstepGrows DEF new
  <2>6. CASE r.nomadAfter # None
    <3>1. PICK e \in Epochs, from \in Nat :
            /\ from <= r.nomadAfter /\ r.after = r.nomadAfter
            /\ r.data = Part(e, from, r.nomadAfter)
            /\ Holds(Placed(s), e, from)
      BY <2>1, <2>6 DEF CarriesOn
    <3> DEFINE to == r.nomadAfter
    <3>2. to \in 0 .. LogLength /\ from \in 0 .. LogLength /\ LogLength \in Nat
      <4>1. to \in Nat /\ InStep(to, r.after)
        BY <1>1, <2>6 DEF CallsInStep, Request
      <4> QED
        BY <3>1, <4>1, SyncAssumption DEF InStep
    <3> DEFINE skip == Skipped(row, r)
               lo == from + skip
    <3>3. /\ skip \in Nat
          /\ Written(high, EffectiveNewBytes(row, r)) = Piece(high, e, lo, to)
      <4>1. r.after \in Nat
        BY <3>1, <3>2
      <4> QED
        BY <2>2, <3>1, <3>2, <4>1, PartWrites
    <3>4. lo = from \/ lo = row.producer
      <4>1. Len(r.data) = to - from
        BY <3>1, <3>2, PartType
      <4>2. r.after - Len(r.data) = from
        BY <3>1, <3>2, <4>1
      <4> QED
        BY <2>2, <3>2, <4>2 DEF Skipped
    <3>5. Holds(Placed(s), e, lo) /\ lo \in Nat
      BY <2>1, <3>1, <3>2, <3>3, <3>4 DEF InLockstep
    <3>6. to \in Nat /\ Placed(s)' = Placed(s) \cup Piece(high, e, lo, to)
      BY <2>3, <3>2, <3>3
    <3> HIDE DEF lo, skip, to
    <3>7. Ordered(Placed(s)') /\ Holds(Placed(s)', e, to)
      BY <2>1, <2>2, <3>5, <3>6, PieceContinues
    <3>8. new.producer = to /\ new.nomad = to
      <4>1. to # None
        BY <2>6 DEF to
      <4> QED
        BY <2>4, <3>1, <4>1 DEF Kept, to
    <3>9. \A d \in Epochs : d = e
      BY DEF OneAllocation
    <3> QED
      BY <3>7, <3>8, <3>9 DEF InLockstep, new
  <2> QED
    BY <2>5, <2>6
<1> QED
  BY <1>2, <1>3

(* The calls a sync makes from cursors in lockstep.                           *)
LEMMA SharedCalls ==
  ASSUME OneAllocation, FramesOK, NEW w \in Writers, NEW s \in Streams, NEW P,
         InLockstep(sync[w].delta[s], P)
  PROVE  /\ sync[w].step # "backfill"
         /\ CarriesOn(NoCall, P) /\ CarriesOn(FlushRequest(s), P)
         /\ sync[w].step = "write" => CarriesOn(DeltaRequest(w, s), P)
<1>1. sync[w].step # "backfill"
  <2>1. FrameOK(sync[w]) /\ sync[w].legacy \in {0, LegacyLength}
    BY DEF FramesOK, Frame
  <2> QED
    BY <2>1 DEF FrameOK, OneAllocation
<1>2. CarriesOn(NoCall, P) /\ CarriesOn(FlushRequest(s), P)
  BY DEF CarriesOn, NoCall, FlushRequest
<1>3. ASSUME sync[w].step = "write" PROVE CarriesOn(DeltaRequest(w, s), P)
  <2> DEFINE f == sync[w]
             d == f.delta[s]
             r == DeltaRequest(w, s)
  <2>1. /\ d \in Delta /\ d.nomad <= d.to /\ f.alloc \in Epochs
    BY <1>3 DEF FramesOK, FrameOK, Frame
  <2>2. /\ r.data = Part(f.alloc, d.nomad, d.to) /\ r.nomadAfter = d.to
        /\ r.after = d.producer + (d.to - d.nomad)
    BY DEF DeltaRequest
  <2>3. Holds(P, f.alloc, d.nomad) /\ d.producer = d.nomad
    BY <2>1 DEF InLockstep
  <2>4. d.nomad \in Nat /\ d.to \in Nat /\ d.to # None
    BY <2>1, SyncAssumption DEF Delta, None
  <2> HIDE DEF r, d, f
  <2>5. r.after = r.nomadAfter
    BY <2>2, <2>3, <2>4
  <2> QED
    BY <2>1, <2>2, <2>3, <2>4, <2>5 DEF CarriesOn, r
<1> QED
  BY <1>1, <1>2, <1>3

(* A step is one of Nomad's, one of a sync's, or none.                        *)
LEMMA NextSteps ==
  ASSUME LogSyncInv, [SyncNext]_syncVars
  PROVE  \/ UNCHANGED <<call, pc, sync>>
         \/ \E w \in Writers : StartSync(w) \/ SyncStep(w) \/ AbortSync(w)
<1>1. NomadOK
  BY InvParts
<1>2. CASE NomadStep \/ UNCHANGED syncVars
  BY <1>1, <1>2, NomadSteps DEF syncVars, writerVars, frameVars
<1> QED
  BY <1>2 DEF SyncNext, NomadStep

LEMMA SharedStep ==
  ASSUME OneAllocation, LogSyncInv, LogSyncInv', SharedInv, [SyncNext]_syncVars
  PROVE  SharedInv'
<1> SUFFICES ASSUME BelowCap' PROVE SharedPartsNext
  BY SharedNext DEF SharedInv
<1>0. /\ WriterInv /\ WriterInv' /\ CallsInStep /\ FramesOK
      /\ UNCHANGED writerVars \/ \E w \in Writers : WriterMove(w)
  BY InvParts, InvPartsNext, NextMoves
<1>1. BelowCap /\ \A s \in Streams : Placed(s) \subseteq Placed(s)'
  BY <1>0, MovePlaces
<1>2. SharedParts
  BY <1>1 DEF SharedInv
<1>3. ASSUME NEW s \in Streams
      PROVE  InLockstep(rows'[s], Placed(s)') /\ Ordered(Placed(s)')
  <2>1. InLockstep(rows[s], Placed(s)) /\ Ordered(Placed(s))
    BY <1>2 DEF SharedParts
  <2>2. CASE rows'[s] = rows[s] /\ Placed(s)' = Placed(s)
    BY <2>1, <2>2
  <2>3. CASE UNCHANGED writerVars
    <3>1. rows' = rows /\ chunks' = chunks
      BY <2>3 DEF writerVars, dbVars
    <3> QED
      BY <2>2, <3>1, PlacedIsHeld, PlacedIsHeldNext
  <2>4. ASSUME NEW w \in Writers, WriterMove(w)
        PROVE  InLockstep(rows'[s], Placed(s)') /\ Ordered(Placed(s)')
    <3>1. CASE WriteRow(w)
      BY <1>0, <1>2, <3>1, SharedWrite
    <3>2. CASE ~WriteRow(w)
      <4>1. Placed(s)' = Placed(s)
        BY <1>0, <2>4, <3>2, OthersPlace
      <4>2. \/ rows'[s] = rows[s]
            \/ rows'[s].nomad = 0 /\ rows'[s].producer = 0
        <5>1. \/ rows'[s] = rows[s]
              \/ /\ ResetWrite(w) /\ ~IsNew(rows[s]) /\ ~IsNew(rows'[s])
                 /\ rows'[s].nomad = 0 /\ rows'[s].producer = 0
                 /\ rows'[s].epoch = target[w]
          BY <1>0, <2>4, <3>2, RowsGo
        <5> QED
          BY <5>1
      <4> QED
        BY <2>1, <4>1, <4>2, LockstepAtZero
    <3> QED
      BY <3>1, <3>2
  <2> QED
    BY <1>0, <2>3, <2>4
<1>4. ASSUME NEW v \in Writers, NEW s \in Streams
      PROVE  InLockstep(sync'[v].delta[s], Placed(s)')
  <2>1. InLockstep(sync[v].delta[s], Placed(s)) /\ InLockstep(rows[s], Placed(s))
    BY <1>2 DEF SharedParts
  <2>2. Placed(s) \subseteq Placed(s)'
    BY <1>1
  <2>3. CASE sync'[v] = sync[v]
    BY <2>1, <2>2, <2>3, LockstepGrows
  <2>4. CASE StartSync(v) \/ SyncStep(v) \/ AbortSync(v)
    <3> DEFINE d == sync[v].delta[s]
               x == sync'[v].delta[s]
    <3>1. \/ x.nomad = d.nomad /\ x.producer = d.producer
          \/ x.nomad = 0 /\ x.producer = 0
          \/ x = Cursor(rows[s], sync[v].alloc)
      BY <1>0, <2>4, CursorsGo
    <3>2. \/ x.nomad = d.nomad /\ x.producer = d.producer
          \/ x.nomad = 0 /\ x.producer = 0
          \/ x.nomad = rows[s].nomad /\ x.producer = rows[s].producer
      BY <3>1 DEF Cursor, Nothing
    <3> HIDE DEF d, x
    <3>3. InLockstep(x, Placed(s)')
      BY <2>1, <2>2, <3>2, LockstepGrows, LockstepAtZero DEF d
    <3> QED
      BY <3>3 DEF x
  <2> QED
    BY <1>0, <2>3, <2>4, NextSteps, OtherFrames
<1>5. ASSUME NEW v \in Writers, NEW s \in Streams, s = call'[v].stream
      PROVE  CarriesOn(call'[v], Placed(s)')
  <2>1. Placed(s) \subseteq Placed(s)'
    BY <1>1
  <2>2. CASE call'[v] = call[v]
    BY <1>2, <1>5, <2>1, <2>2, CallGrows DEF SharedParts
  <2>3. CASE StartSync(v) \/ SyncStep(v) \/ AbortSync(v)
    <3> DEFINE P == Placed(s)
    <3>0. InLockstep(sync[v].delta[s], P)
      BY <1>2 DEF SharedParts
    <3>1. /\ sync[v].step # "backfill"
          /\ CarriesOn(NoCall, P) /\ CarriesOn(FlushRequest(s), P)
          /\ sync[v].step = "write" => CarriesOn(DeltaRequest(v, s), P)
      BY <1>0, <3>0, SharedCalls
    <3>2. \/ call'[v] = call[v]
          \/ call'[v] = NoCall
          \/ WriteDelta(v) /\ \E t \in sync[v].todo : call'[v] = DeltaRequest(v, t)
          \/ \E t \in sync[v].todo : call'[v] = FlushRequest(t)
      BY <2>3, <3>1, CallsGo DEF Backfill, At
    <3>3. \A t : DeltaRequest(v, t).stream = t /\ FlushRequest(t).stream = t
      BY DEF DeltaRequest, FlushRequest
    <3>4. \/ call'[v] = call[v]
          \/ CarriesOn(call'[v], P)
      BY <1>5, <3>1, <3>2, <3>3 DEF WriteDelta, At
    <3> QED
      BY <2>1, <2>2, <3>4, CallGrows
  <2> QED
    BY <2>2, <2>3, NextSteps, CallsGo
<1> QED
  BY <1>3, <1>4, <1>5 DEF SharedPartsNext

LEMMA SharedStart ==
  ASSUME OneAllocation, SyncInit
  PROVE  SharedInv
<1>1. /\ rows = NoRows /\ chunks = [s \in Streams |-> {}]
      /\ sync = [w \in Writers |-> NoFrame] /\ call = [w \in Writers |-> NoCall]
  BY DEF SyncInit, WriterInit
<1>2. ASSUME NEW s \in Streams
      PROVE  Placed(s) = {} /\ rows[s].producer = 0 /\ rows[s].nomad = 0
  BY <1>1 DEF NoRows, DefaultRow, Placed, StagingChunk, BytesOf
<1>3. \A s \in Streams : InLockstep(rows[s], Placed(s)) /\ Ordered(Placed(s))
  BY <1>2, LockstepAtZero DEF Ordered
<1>4. \A w \in Writers, s \in Streams : InLockstep(sync[w].delta[s], Placed(s))
  BY <1>1, LockstepAtZero DEF NoFrame, NoDelta, Nothing
<1>5. \A w \in Writers, s \in Streams : CarriesOn(call[w], Placed(s))
  BY <1>1 DEF CarriesOn, NoCall
<1> QED
  BY <1>3, <1>4, <1>5 DEF SharedInv, SharedParts

(* However many syncs of one allocation overlap, are refused by Nomad, lose     *)
(* races or die midway, the store keeps a prefix of each stream's log: no byte   *)
(* stands before, or without, one that was written before it.                *)
THEOREM OverlapKeepsPrefix ==
  ASSUME OneAllocation
  PROVE  SyncSpec => [](BelowCap => PrefixKept)
<1>1. LogSyncInv /\ SharedInv /\ LogSyncInv' /\ [SyncNext]_syncVars => SharedInv'
  BY SharedStep
<1>2. SyncInit => SharedInv
  BY SharedStart
<1>3. SharedInv => (BelowCap => PrefixKept)
  BY StreamIsOrdered DEF SharedInv, SharedParts
<1> QED
  BY <1>1, <1>2, <1>3, LogSyncInvariant, PTL DEF SyncSpec

-----------------------------------------------------------------------------
(* Syncs that follow one another. *)

(* One sync at a time, any number of allocations and either release.  A sync   *)
(* that dies before it saves which allocation it tracks, of a task with a       *)
(* second one, breaks what follows: that is what unsaved_tracking shows.       *)
OneByOne ==
  /\ \E w : Writers = {w}
  /\ MaxAborts = 0 \/ \E e \in Epochs : Epochs = {e}

(* Every stored byte belongs to the old log, to an earlier allocation, or to the *)
(* part of its own the cursor covers; none but those of the old log is there    *)
(* twice.                                                                    *)
Covers(row, byte) ==
  \/ Migrated(byte) /\ (row.epoch # NoAlloc => byte[1] <= row.epoch)
  \/ row.epoch # NoAlloc /\ byte[1] < row.epoch
  \/ row.epoch # NoAlloc /\ byte[1] = row.epoch /\ byte[2] <= row.nomad

StreamAlone(row, P) ==
  /\ row.epoch \in Epochs \cup {NoAlloc}
  /\ row.epoch = NoAlloc => row.nomad = 0
  /\ \A x \in P : Covers(row, x[2])
  /\ \A x, y \in P : x[2] = y[2] /\ ~Migrated(x[2]) => x = y

StreamWhole(row, P) ==
  /\ row.epoch # NoAlloc => Holds(P, row.epoch, row.nomad)
  /\ Ordered(P)

StreamsAlone == \A s \in Streams : StreamAlone(rows[s], Placed(s))
StreamsWhole == BelowCap => \A s \in Streams : StreamWhole(rows[s], Placed(s))

Appending(w) == pc[w] \in {"read", "lock", "write"}
Resetting(w) == pc[w] \in {"resetLock", "resetList", "resetWrite"}

(* The session reads what is there, and is at rest where the sync needs it.    *)
ReadsCurrent(w) ==
  /\ pc[w] # "raised"
  /\ \A s \in Streams : HasRead(w, s) => seen[w][s] = rows[s]
SessionAlone(w) ==
  /\ sync[w].step \in {"idle", "resolve", "migrate", "fetch"} => pc[w] = "idle"
  /\ Resetting(w) => sync[w].step = "offsets" /\ target[w] = sync[w].alloc
  /\ Appending(w) /\ sync[w].step \in {"backfill", "write"} =>
       call[w].stream \notin sync[w].todo

(* Nomad's latest allocation is the newest anyone knows of.                   *)
HistoryAlone ==
  /\ legacy > 0 => tracked = Min(Epochs)
  /\ ~Purged => tracked <= alloc
SyncKnows(w) ==
  LET f == sync[w] IN
  /\ ~Purged => f.alloc <= alloc
  /\ f.step # "idle" => f.prev = tracked /\ f.legacy = legacy
  /\ f.step \in {"idle", "resolve"} => f.alloc = NoAlloc
  /\ f.alloc # NoAlloc => f.prev <= f.alloc
  /\ f.step = "reset" \/ Resetting(w) => f.prev # NoAlloc /\ f.prev < f.alloc

(* The allocation the rows carry: that of the sync, once it has reset them.     *)
BeforeReset(w) ==
  \/ sync[w].alloc = NoAlloc \/ Resetting(w)
  \/ sync[w].step \in {"migrate", "backfill", "reset"}
Known(w) ==
  IF sync[w].step = "idle" THEN tracked
  ELSE IF BeforeReset(w) THEN sync[w].prev ELSE sync[w].alloc
RowsBelong(w) ==
  \/ \E e \in Epochs : Epochs = {e}
  \/ \A s \in Streams : rows[s].epoch \in {NoAlloc, Known(w)}

(* What it has read, and means to append, matches the rows.                   *)
Matches(cursor, row) == cursor.nomad = row.nomad /\ cursor.producer = row.producer
FrameMatches(w) ==
  LET f == sync[w] IN
  /\ f.step = "fetch" => \A s \in Streams : Matches(f.delta[s], rows[s])
  /\ f.step = "write" => \A s \in f.todo : Matches(f.delta[s], rows[s])
  /\ f.step = "backfill" => \A s \in f.todo : IsNew(rows[s])

IsFlush(r) == r.data = <<>> /\ r.after = None /\ r.nomadAfter = None /\ r.epoch = None
IsLegacy(r, row) ==
  /\ IsNew(row) /\ r.epoch = None /\ r.nomadAfter = None
  /\ r.data = Part(Min(Epochs), 0, LegacyLength) /\ r.after = LegacyLength
IsDelta(r, row) ==
  /\ r.epoch \in Epochs /\ row.epoch \in {NoAlloc, r.epoch}
  /\ r.nomadAfter \in 0 .. LogLength /\ row.nomad <= r.nomadAfter
  /\ r.after = row.producer + (r.nomadAfter - row.nomad)
  /\ r.data = Part(r.epoch, row.nomad, r.nomadAfter)
CallMatches(w, r, row) ==
  \/ IsFlush(r)
  \/ IsLegacy(r, row)
  \/ IsDelta(r, row) /\ r.epoch = sync[w].alloc /\ ~BeforeReset(w)
CallAlone(w) ==
  Appending(w) => \A s \in Streams : s = call[w].stream => CallMatches(w, call[w], rows[s])

AloneInv ==
  /\ StreamsAlone /\ StreamsWhole /\ HistoryAlone
  /\ \A w \in Writers : /\ ReadsCurrent(w) /\ SessionAlone(w) /\ SyncKnows(w)
                        /\ RowsBelong(w) /\ FrameMatches(w) /\ CallAlone(w)

-----------------------------------------------------------------------------
(* What a stream keeps. *)

LEMMA FirstEpoch ==
  /\ Min(Epochs) \in Epochs /\ Epochs \subseteq Nat \ {0}
  /\ \A e \in Epochs : Min(Epochs) <= e
BY SyncAssumption, EpochsAssumption, MinIsLeast

(* Bytes that went, by an eviction, change nothing.                           *)
LEMMA AloneShrinks ==
  ASSUME NEW row, NEW P, StreamAlone(row, P), NEW Q, Q \subseteq P
  PROVE  StreamAlone(row, Q)
BY DEF StreamAlone

LEMMA AloneLike ==
  ASSUME NEW row, NEW P, NEW new, new.epoch = row.epoch, new.nomad = row.nomad
  PROVE  /\ StreamAlone(row, P) => StreamAlone(new, P)
         /\ StreamWhole(row, P) => StreamWhole(new, P)
BY DEF StreamAlone, StreamWhole, Covers

(* A reset to a newer allocation.                                            *)
LEMMA AloneReset ==
  ASSUME NEW row \in Row, NEW P, \A x \in P : x[2][1] \in Nat /\ x[2][2] \in Nat,
         StreamAlone(row, P), NEW new, NEW e \in Epochs,
         new.epoch = e, new.nomad = 0, row.epoch < e
  PROVE  StreamAlone(new, P) /\ (StreamWhole(row, P) => StreamWhole(new, P))
<1>1. e \in Nat /\ e # NoAlloc /\ row.epoch \in Nat
  BY FirstEpoch DEF NoAlloc, Row
<1>2. ASSUME NEW x \in P PROVE Covers(new, x[2])
  <2>1. CASE Migrated(x[2])
    BY <1>1, <2>1, FirstEpoch DEF Covers, Migrated
  <2>2. CASE ~Migrated(x[2])
    <3>1. x[2][1] <= row.epoch
      BY <1>1, <2>2 DEF StreamAlone, Covers
    <3> QED
      BY <1>1, <3>1 DEF Covers
  <2> QED
    BY <2>1, <2>2
<1> QED
  BY <1>1, <1>2, HoldsNothing DEF StreamAlone, StreamWhole

LEMMA PlacedBytes ==
  ASSUME TypeOK, NEW s \in Streams, NEW x \in Placed(s)
  PROVE  x[2][1] \in Epochs /\ x[2][2] \in 1 .. LogLength
<1>1. PICK c \in chunks[s] \cup {StagingChunk(s)} : x \in BytesOf(c)
  BY DEF Placed
<1>2. PICK k \in 1 .. Len(c.data) : x = <<c.start + k - 1, c.data[k]>>
  BY <1>1 DEF BytesOf
<1>3. c.data \in Seq(Bytes)
  BY DEF TypeOK, Chunk, Row, StagingChunk
<1>4. x[2] \in Bytes
  BY <1>2, <1>3, ElementOfSeq
<1> QED
  BY <1>4, BytesAssumption

LEMMA PlacedNumbers ==
  ASSUME TypeOK, NEW s \in Streams, NEW x \in Placed(s)
  PROVE  x[2][1] \in Nat /\ x[2][2] \in Nat
<1>1. x[2][1] \in Epochs /\ x[2][2] \in 1 .. LogLength
  BY PlacedBytes
<1>2. x[2][1] \in Nat
  BY <1>1, EpochsAssumption
<1>3. x[2][2] \in Nat
  BY <1>1, SyncAssumption
<1> QED
  BY <1>2, <1>3

(* A stream without a row holds nothing.                                     *)
LEMMA NewIsEmpty ==
  ASSUME WriterInv, NEW s \in Streams, IsNew(rows[s])
  PROVE  rows[s] = DefaultRow /\ Placed(s) = {}
<1>1. rows[s] = DefaultRow
  BY DEF WriterInv, MissingRowsAreDefault
<1>2. chunks[s] = {}
  <2> SUFFICES ASSUME NEW c \in chunks[s] PROVE FALSE
    OBVIOUS
  <2>1. c.data # <<>> /\ End(c) <= 0
    BY <1>1 DEF WriterInv, ChunksTile, DefaultRow
  <2>2. c.start \in Nat /\ c.data \in Seq(Bytes)
    BY DEF WriterInv, TypeOK, Chunk
  <2>3. Len(c.data) \in Nat /\ Len(c.data) # 0
    BY <2>1, <2>2, EmptySeq, LenProperties
  <2> QED
    BY <2>1, <2>2, <2>3 DEF End
<1> QED
  BY <1>1, <1>2 DEF DefaultRow, Placed, StagingChunk, BytesOf

(* The old log, written to an empty stream.                                  *)
LEMMA LegacyWrite ==
  ASSUME NEW row, row.epoch = NoAlloc, row.nomad = 0, NEW high \in Nat, NEW r, NEW Q,
         row.producer = 0, IsLegacy(r, row),
         NEW new, new.epoch = NoAlloc, new.nomad = 0
  PROVE  /\ Q \subseteq Written(high, EffectiveNewBytes(row, r)) => StreamAlone(new, Q)
         /\ Q = Written(high, EffectiveNewBytes(row, r)) => StreamWhole(new, Q)
<1> DEFINE e == Min(Epochs)
           added == Piece(high, e, 0, LegacyLength)
<1>1. /\ e \in Epochs /\ LegacyLength \in 0 .. LogLength /\ 0 \in 0 .. LogLength
      /\ LegacyLength \in Nat
  BY FirstEpoch, SyncAssumption
<1>2. Written(high, EffectiveNewBytes(row, r)) = added
  <2>1. r.data = Part(e, 0, LegacyLength) /\ r.after = LegacyLength
    BY DEF IsLegacy
  <2>2. Len(r.data) = LegacyLength
    BY <1>1, <2>1, PartType
  <2>3. Skipped(row, r) = 0
    BY <1>1, <2>1, <2>2 DEF Skipped
  <2> QED
    BY <1>1, <2>1, <2>3, PartWrites
<1>3. \A x \in added : Migrated(x[2])
  BY <1>1 DEF Piece, Migrated
<1>4. StreamWhole(new, added)
  <2>1. added = {} \cup added /\ Ordered({}) /\ Holds({}, e, 0) /\ 0 \in Nat
    BY DEF Ordered, Holds
  <2>2. Ordered(added)
    BY <1>1, <2>1, PieceContinues
  <2> QED
    BY <2>2 DEF StreamWhole
<1> HIDE DEF added
<1>5. ASSUME NEW S, S \subseteq added PROVE StreamAlone(new, S)
  BY <1>3, <1>5 DEF StreamAlone, Covers
<1> QED
  BY <1>2, <1>4, <1>5

(* The next bytes of the allocation the row belongs to, or of its first.      *)
LEMMA DeltaWrite ==
  ASSUME NEW row \in Row, NEW P, \A x \in P : x[2][1] \in Nat /\ x[2][2] \in Nat,
         NEW high \in Nat, \A x \in P : x[1] \in Int /\ x[1] < high,
         StreamAlone(row, P), NEW r, IsDelta(r, row),
         NEW new, new.epoch = r.epoch, new.nomad = r.nomadAfter,
         NEW added, added = Written(high, EffectiveNewBytes(row, r)), NEW Q
  PROVE  /\ Q \subseteq P \cup added => StreamAlone(new, Q)
         /\ Q = P \cup added /\ StreamWhole(row, P) => StreamWhole(new, Q)
<1> DEFINE e == r.epoch
           lo == row.nomad
           hi == r.nomadAfter
<1>1. /\ e \in Epochs /\ e \in Nat /\ e # NoAlloc /\ row.epoch \in {NoAlloc, e}
      /\ hi \in 0 .. LogLength /\ lo \in Nat /\ lo <= hi /\ LogLength \in Nat
      /\ row.producer \in Nat /\ r.after = row.producer + (hi - lo)
      /\ r.data = Part(e, lo, hi)
  BY FirstEpoch, SyncAssumption DEF IsDelta, NoAlloc, Row
<1> HIDE DEF e, lo, hi
<1>2. added = Piece(high, e, lo, hi)
  <2>1. lo \in 0 .. LogLength /\ hi - lo \in Nat /\ r.after \in Nat
    BY <1>1
  <2>2. Len(r.data) = hi - lo
    BY <1>1, <2>1, PartType
  <2>3. r.after - Len(r.data) = row.producer
    BY <1>1, <2>1, <2>2
  <2>4. Skipped(row, r) = 0
    BY <1>1, <2>3 DEF Skipped
  <2> QED
    BY <1>1, <2>1, <2>4, PartWrites
<1>3. \A x \in added : \E k \in 1 .. hi - lo : x = <<high + k - 1, <<e, lo + k>>>>
  BY <1>2 DEF Piece
<1>4. ASSUME NEW x \in P
      PROVE  Covers(new, x[2]) /\ (x[2][1] = e /\ ~Migrated(x[2]) => x[2][2] <= lo)
  <2>1. Covers(row, x[2]) /\ x[2][1] \in Nat /\ x[2][2] \in Nat
    BY DEF StreamAlone
  <2>2. CASE row.epoch = NoAlloc
    <3>1. Migrated(x[2])
      BY <2>1, <2>2 DEF Covers
    <3>2. x[2][1] = Min(Epochs) /\ Min(Epochs) <= e /\ new.epoch = e
      BY <1>1, <3>1, FirstEpoch DEF Migrated, e
    <3> QED
      BY <3>1, <3>2 DEF Covers
  <2>3. CASE row.epoch = e
    <3>1. new.epoch = e /\ new.nomad = hi
      BY DEF e, hi
    <3>2. \/ Migrated(x[2]) /\ x[2][1] <= e
          \/ x[2][1] < e
          \/ x[2][1] = e /\ x[2][2] <= lo
      BY <1>1, <2>1, <2>3 DEF Covers, lo
    <3> QED
      BY <1>1, <2>1, <3>1, <3>2 DEF Covers
  <2> QED
    BY <1>1, <2>2, <2>3
<1>5. ASSUME NEW x \in added
      PROVE  /\ Covers(new, x[2]) /\ x[2][1] = e /\ x[2][2] > lo
             /\ \A y \in added : x[2] = y[2] => x = y
  <2>1. PICK k \in 1 .. hi - lo : x = <<high + k - 1, <<e, lo + k>>>>
    BY <1>3
  <2>2. x[2][1] = e /\ x[2][2] = lo + k
    BY <2>1
  <2>3. Covers(new, x[2]) /\ x[2][2] > lo
    <3>1. lo + k <= hi /\ lo + k > lo
      BY <1>1
    <3> QED
      BY <1>1, <2>2, <3>1 DEF Covers, e, hi
  <2>4. ASSUME NEW y \in added, x[2] = y[2] PROVE x = y
    <3>1. PICK m \in 1 .. hi - lo : y = <<high + m - 1, <<e, lo + m>>>>
      BY <1>3
    <3>2. lo + k = lo + m
      BY <2>1, <2>4, <3>1
    <3>3. k = m
      BY <1>1, <3>2
    <3> QED
      BY <2>1, <3>1, <3>3
  <2> QED
    BY <2>2, <2>3, <2>4
<1>6. ASSUME NEW x \in P \cup added, NEW y \in P \cup added, x[2] = y[2], ~Migrated(x[2])
      PROVE  x = y
  <2>1. CASE x \in P /\ y \in P
    BY <1>6, <2>1 DEF StreamAlone
  <2>2. CASE x \in added /\ y \in added
    BY <1>5, <1>6, <2>2
  <2>3. CASE x \in P /\ y \in added
    <3>1. x[2][1] = e /\ x[2][2] > lo /\ x[2][2] <= lo /\ x[2][2] \in Nat
      BY <1>4, <1>5, <1>6, <2>3
    <3> QED
      BY <1>1, <3>1
  <2>4. CASE y \in P /\ x \in added
    <3>1. y[2][1] = e /\ y[2][2] > lo /\ y[2][2] <= lo /\ y[2][2] \in Nat
      BY <1>4, <1>5, <1>6, <2>4
    <3> QED
      BY <1>1, <3>1
  <2> QED
    BY <2>1, <2>2, <2>3, <2>4
<1>7. StreamAlone(new, P \cup added)
  <2>1. new.epoch \in Epochs /\ new.epoch # NoAlloc
    BY <1>1 DEF e
  <2> QED
    BY <1>4, <1>5, <1>6, <2>1 DEF StreamAlone
<1>8. ASSUME StreamWhole(row, P) PROVE StreamWhole(new, P \cup added)
  <2>1. Holds(P, e, lo)
    <3>1. CASE row.epoch = NoAlloc
      BY <3>1, HoldsNothing DEF StreamAlone, lo
    <3>2. CASE row.epoch = e
      BY <1>1, <1>8, <3>2 DEF StreamWhole, lo
    <3> QED
      BY <1>1, <3>1, <3>2
  <2>2. Ordered(P \cup added) /\ Holds(P \cup added, e, hi)
    <3>1. Ordered(P)
      BY <1>8 DEF StreamWhole
    <3>2. hi \in Nat
      BY <1>1
    <3> QED
      BY <1>1, <1>2, <2>1, <3>1, <3>2, PieceContinues
  <2> QED
    BY <2>2 DEF StreamWhole, e, hi
<1> QED
  BY <1>7, <1>8, AloneShrinks

(* A move of the only session keeps its stream.                              *)
LEMMA AloneStreams ==
  ASSUME LogSyncInv, LogSyncInv', StreamsAlone, StreamsWhole, NEW w \in Writers,
         WriterMove(w), SessionAlone(w), SyncKnows(w), RowsBelong(w), CallAlone(w),
         NEW s \in Streams
  PROVE  /\ StreamAlone(rows'[s], Placed(s)')
         /\ BelowCap' => StreamWhole(rows'[s], Placed(s)')
<1> DEFINE row == rows[s]
           new == rows'[s]
           P == Placed(s)
           Q == Placed(s)'
           high == HighWater(s)
<1>0. /\ WriterInv /\ WriterInv' /\ TypeOK /\ FramesOK
      /\ row \in Row
  BY InvParts, InvPartsNext DEF WriterInv, TypeOK
<1>1. BelowCap' => BelowCap /\ StreamWhole(row, P) /\ new.persisted <= StreamCap
  <2>1. BelowCap' => BelowCap
    BY <1>0, MovePlaces
  <2>2. BelowCap' => new.persisted <= StreamCap
    BY DEF BelowCap
  <2> QED
    BY <2>1, <2>2 DEF StreamsWhole
<1>2. StreamAlone(row, P)
  BY DEF StreamsAlone
<1>3. \A x \in P : x[2][1] \in Nat /\ x[2][2] \in Nat
  BY <1>0, PlacedNumbers
<1>4. high \in Nat /\ \A x \in P : x[1] \in Int /\ x[1] < high
  BY <1>0, PlacedBelow
<1>5. CASE WriteRow(w)
  <2>1. PICK t \in Streams, r \in Request :
          t = r.stream /\ r = call[w] /\ WriteEffect(w, t, r)
    BY <1>0, <1>5, WritePlaces
  <2>2. CASE s # t
    <3>1. new = row /\ Q = P
      BY <2>1, <2>2 DEF WriteEffect
    <3> QED
      BY <1>1, <1>2, <3>1
  <2>3. CASE s = t
    <3> DEFINE added == Written(high, EffectiveNewBytes(row, r))
    <3>1. /\ new.producer = Kept(r.after, row.producer)
          /\ new.nomad = Kept(r.nomadAfter, row.nomad)
          /\ new.epoch = Kept(r.epoch, row.epoch)
          /\ Q \subseteq P \cup added
          /\ new.persisted <= StreamCap => Q = P \cup added
      BY <2>1, <2>3 DEF WriteEffect, AddedBytes
    <3>2. CallMatches(w, r, row)
      <4>1. Appending(w)
        BY <1>5 DEF WriteRow, Appending
      <4> QED
        BY <2>1, <2>3, <4>1 DEF CallAlone
    <3> HIDE DEF row, new, P, Q, high
    <3>3. CASE IsFlush(r)
      <4>1. added = {}
        BY <3>3, WrittenNothing DEF IsFlush, EffectiveNewBytes
      <4>2. new.epoch = row.epoch /\ new.nomad = row.nomad
        BY <3>1, <3>3 DEF IsFlush, Kept
      <4> HIDE DEF added
      <4>3. StreamAlone(new, P) /\ (StreamWhole(row, P) => StreamWhole(new, P))
        BY <1>2, <4>2, AloneLike
      <4>4. Q \subseteq P /\ (new.persisted <= StreamCap => Q = P)
        BY <3>1, <4>1
      <4>5. StreamAlone(new, Q)
        BY <4>3, <4>4, AloneShrinks
      <4>6. BelowCap' => StreamWhole(new, Q)
        BY <1>1, <4>3, <4>4
      <4> QED
        BY <4>5, <4>6 DEF new, Q
    <3>4. CASE IsLegacy(r, row)
      <4>1. row = DefaultRow /\ P = {}
        BY <1>0, <3>4, NewIsEmpty DEF IsLegacy, row, P
      <4>2. row.epoch = NoAlloc /\ row.nomad = 0 /\ row.producer = 0
        BY <4>1 DEF DefaultRow, NoAlloc
      <4>3. new.epoch = NoAlloc /\ new.nomad = 0
        BY <3>1, <3>4, <4>2 DEF IsLegacy, Kept
      <4>4. Q \subseteq added /\ (new.persisted <= StreamCap => Q = added)
        BY <3>1, <4>1
      <4>5. StreamAlone(new, Q) /\ (Q = added => StreamWhole(new, Q))
        BY <1>4, <3>4, <4>2, <4>3, <4>4, LegacyWrite
      <4> QED
        BY <1>1, <4>4, <4>5 DEF new, Q
    <3>5. CASE IsDelta(r, row)
      <4>1. new.epoch = r.epoch /\ new.nomad = r.nomadAfter
        <5>1. r.epoch # None /\ r.nomadAfter # None
          BY <3>5, FirstEpoch, SyncAssumption DEF IsDelta, None
        <5> QED
          BY <3>1, <5>1 DEF Kept
      <4>2. \A z : z = added =>
              /\ Q \subseteq P \cup z => StreamAlone(new, Q)
              /\ Q = P \cup z /\ StreamWhole(row, P) => StreamWhole(new, Q)
        <5> SUFFICES ASSUME NEW z, z = added
                     PROVE  /\ Q \subseteq P \cup z => StreamAlone(new, Q)
                            /\ Q = P \cup z /\ StreamWhole(row, P) => StreamWhole(new, Q)
          OBVIOUS
        <5> QED
          BY <1>0, <1>2, <1>3, <1>4, <3>5, <4>1, DeltaWrite
      <4> HIDE DEF added
      <4>3. StreamAlone(new, Q)
        BY <3>1, <4>2
      <4>4. BelowCap' => StreamWhole(new, Q)
        BY <1>1, <3>1, <4>2
      <4> QED
        BY <4>3, <4>4 DEF new, Q
    <3> QED
      BY <3>2, <3>3, <3>4, <3>5 DEF CallMatches
  <2> QED
    BY <2>2, <2>3
<1>6. CASE ~WriteRow(w)
  <2>1. Q = P
    BY <1>0, <1>6, OthersPlace
  <2>2. \/ new = row
        \/ ResetWrite(w) /\ new.nomad = 0 /\ new.epoch = target[w]
    <3>1. \/ rows'[s] = rows[s]
          \/ /\ ResetWrite(w) /\ ~IsNew(rows[s]) /\ ~IsNew(rows'[s])
             /\ rows'[s].nomad = 0 /\ rows'[s].producer = 0 /\ rows'[s].epoch = target[w]
      BY <1>0, <1>6, RowsGo
    <3> QED
      BY <3>1
  <2>3. CASE new = row
    BY <1>1, <1>2, <2>1, <2>3
  <2>4. CASE ResetWrite(w) /\ new.nomad = 0 /\ new.epoch = target[w]
    <3> DEFINE e == sync[w].alloc
    <3>1. /\ Resetting(w) /\ target[w] = e /\ sync[w].step = "offsets"
          /\ sync[w].prev # NoAlloc /\ sync[w].prev < e
      BY <2>4 DEF ResetWrite, Resetting, SessionAlone, SyncKnows
    <3>2. e \in Epochs /\ sync[w].prev \in Epochs
      BY <1>0, <3>1 DEF FramesOK, FrameOK, Frame
    <3>3. row.epoch < e
      <4>1. Known(w) = sync[w].prev
        BY <3>1 DEF Known, BeforeReset
      <4>2. ~\E d \in Epochs : Epochs = {d}
        BY <3>1, <3>2, FirstEpoch
      <4>3. row.epoch \in {NoAlloc, sync[w].prev}
        BY <4>1, <4>2 DEF RowsBelong
      <4> QED
        BY <3>1, <3>2, <4>3, FirstEpoch DEF NoAlloc
    <3>4. new.epoch = e /\ new.nomad = 0
      BY <2>4, <3>1
    <3> HIDE DEF row, new, P, Q, e
    <3>5. StreamAlone(new, P) /\ (StreamWhole(row, P) => StreamWhole(new, P))
      BY <1>0, <1>2, <1>3, <3>2, <3>3, <3>4, AloneReset
    <3>6. StreamAlone(new, Q) /\ (BelowCap' => StreamWhole(new, Q))
      BY <1>1, <2>1, <3>5
    <3> QED
      BY <3>6 DEF new, Q
  <2> QED
    BY <2>2, <2>3, <2>4
<1> QED
  BY <1>5, <1>6

-----------------------------------------------------------------------------
(* What the only session does. *)

(* A call of the writer ends, or goes on with the rows it read.               *)
GoesOnReading(w) ==
  /\ UNCHANGED <<rows, call, target>>
  /\ \/ pc[w] \in {"read", "lock"} /\ pc'[w] \in {"lock", "write"}
     \/ Resetting(w) /\ Resetting(w)'

LEMMA AloneSession ==
  ASSUME LogSyncInv, NEW w \in Writers, WriterStep(w), ReadsCurrent(w)
  PROVE  /\ ReadsCurrent(w)'
         /\ pc[w] # "idle"
         /\ pc'[w] = "idle" \/ GoesOnReading(w)
<1>0. TypeOK /\ \A s \in Streams : rows[s].version \in Nat
  BY DEF LogSyncInv, WriterInv, TypeOK, Row
<1>1. CASE ReadRow(w)
  <2> DEFINE t == call[w].stream
  <2>1. /\ pc[w] = "read" /\ UNCHANGED dbVars
        /\ \/ /\ pc' = [pc EXCEPT ![w] = "lock"] /\ UNCHANGED <<call, target>>
              /\ seen' = [seen EXCEPT ![w][t] = rows[t]]
           \/ pc' = [pc EXCEPT ![w] = "idle"]
           \/ /\ pc' = [pc EXCEPT ![w] = "write"] /\ UNCHANGED <<call, target>>
              /\ seen' = [seen EXCEPT ![w][t] = rows[t]]
    BY <1>1 DEF ReadRow, GoTo, Return
  <2>2. CASE pc' = [pc EXCEPT ![w] = "idle"]
    BY <1>0, <2>1, <2>2 DEF TypeOK, ReadsCurrent, HasRead
  <2>3. CASE /\ pc' = [pc EXCEPT ![w] = "lock"] \/ pc' = [pc EXCEPT ![w] = "write"]
             /\ UNCHANGED <<call, target>>
             /\ seen' = [seen EXCEPT ![w][t] = rows[t]]
    <3>1. pc'[w] \in {"lock", "write"} /\ rows' = rows /\ call' = call
      BY <1>0, <2>1, <2>3 DEF TypeOK, dbVars
    <3>2. t \in Streams
      BY <1>0, CallIsRequest DEF Request
    <3>3. seen'[w][t] = rows[t]
      BY <1>0, <2>3, <3>2 DEF TypeOK
    <3>4. ReadsCurrent(w)'
      BY <3>1, <3>3 DEF ReadsCurrent, HasRead
    <3> QED
      BY <2>1, <2>3, <3>1, <3>4 DEF GoesOnReading
  <2> QED
    BY <2>1, <2>2, <2>3
<1>2. CASE LockFirstInsert(w)
  <2>1. /\ pc[w] = "lock" /\ rows' = rows
        /\ \/ pc' = [pc EXCEPT ![w] = "idle"]
           \/ /\ pc' = [pc EXCEPT ![w] = "write"]
              /\ UNCHANGED <<call, target, seen>>
    BY <1>2 DEF LockFirstInsert, GoTo, Return
  <2>2. CASE pc' = [pc EXCEPT ![w] = "idle"]
    BY <1>0, <2>1, <2>2 DEF TypeOK, ReadsCurrent, HasRead
  <2>3. CASE pc' = [pc EXCEPT ![w] = "write"] /\ UNCHANGED <<call, target, seen>>
    BY <1>0, <2>1, <2>3 DEF TypeOK, ReadsCurrent, HasRead, GoesOnReading
  <2> QED
    BY <2>1, <2>2, <2>3
<1>3. CASE WriteRow(w) \/ ResetWrite(w)
  <2>1. pc' = [pc EXCEPT ![w] = "idle"] /\ pc[w] \in {"write", "resetWrite"}
    BY <1>3 DEF WriteRow, ResetWrite, Return
  <2> QED
    BY <1>0, <2>1 DEF TypeOK, ReadsCurrent, HasRead
<1>4. CASE LoseRace(w) \/ LoseDrain(w)
  <2>1. call[w].stream \in Streams
    BY <1>0, CallIsRequest DEF Request
  <2> QED
    BY <1>4, <2>1 DEF LoseRace, LoseDrain, StillCurrent, WinsDrain, Drained, ReadsCurrent,
       HasRead
<1>5. CASE ResetLock(w)
  <2>1. /\ pc[w] = "resetLock" /\ pc' = [pc EXCEPT ![w] = "resetList"]
        /\ UNCHANGED <<rows, call, target, seen>>
    BY <1>5 DEF ResetLock, GoTo
  <2> QED
    BY <1>0, <2>1 DEF TypeOK, ReadsCurrent, HasRead, GoesOnReading, Resetting
<1>6. CASE ResetList(w)
  <2>1. /\ pc[w] = "resetList" /\ pc' = [pc EXCEPT ![w] = "resetWrite"]
        /\ UNCHANGED <<rows, call, target>> /\ seen' = [seen EXCEPT ![w] = rows]
    BY <1>6 DEF ResetList, GoTo, dbVars
  <2> QED
    BY <1>0, <2>1 DEF TypeOK, ReadsCurrent, HasRead, GoesOnReading, Resetting
<1> QED
  BY <1>1, <1>2, <1>3, <1>4, <1>5, <1>6 DEF WriterStep

(* How a sync's step moves its session.                                      *)
Begins(w, r) ==
  /\ pc[w] = "idle" /\ pc'[w] = "read" /\ call'[w] = r /\ rows' = rows

LEMMA SessionGoes ==
  ASSUME LogSyncInv, NEW w \in Writers, StartSync(w) \/ SyncStep(w) \/ AbortSync(w),
         ReadsCurrent(w)
  PROVE  \/ /\ StartSync(w) \/ AbortSync(w)
            /\ pc'[w] = "idle" /\ rows' = rows
         \/ /\ Resolve(w) \/ ResolveNothing(w) \/ ListLegacy(w) \/ Offsets(w)
                 \/ Fetch(w) \/ Poll(w) \/ ListRows(w) \/ Save(w)
            /\ pc[w] = "idle" /\ UNCHANGED writerVars
         \/ Backfill(w) /\ \E s \in sync[w].todo : Begins(w, LegacyRequest(w, s))
         \/ WriteDelta(w) /\ \E s \in sync[w].todo : Begins(w, DeltaRequest(w, s))
         \/ FlushRow(w) /\ \E s \in sync[w].todo : Begins(w, FlushRequest(s))
         \/ /\ Reset(w) /\ pc[w] = "idle" /\ pc'[w] = "resetLock"
            /\ target'[w] = sync[w].alloc /\ rows' = rows
         \/ InWriter(w) /\ WriterStep(w) /\ UNCHANGED <<historyVars, sync, nomadVars>>
<1>0. TypeOK
  BY DEF LogSyncInv, WriterInv
<1>1. AtRest(w) => pc[w] = "idle"
  BY DEF AtRest, ReadsCurrent
<1>2. CASE StartSync(w) \/ AbortSync(w)
  BY <1>0, <1>2 DEF StartSync, AbortSync, Return, TypeOK, dbVars
<1>3. CASE Resolve(w) \/ ResolveNothing(w) \/ ListLegacy(w) \/ Offsets(w)
             \/ Fetch(w) \/ Poll(w) \/ ListRows(w) \/ Save(w)
  <2>1. UNCHANGED writerVars
    BY <1>3 DEF Resolve, ResolveNothing, ListLegacy, Offsets, Fetch, Poll, ListRows, Save
  <2>2. AtRest(w)
    BY <1>3 DEF Resolve, ResolveNothing, ListLegacy, Offsets, Fetch, Poll, ListRows, Save, At
  <2> QED
    BY <1>1, <1>3, <2>1, <2>2
<1>4. ASSUME NEW r, BeginAppend(w, r)
      PROVE  Begins(w, r)
  BY <1>0, <1>1, <1>4 DEF BeginAppend, Begins, TypeOK, dbVars
<1>5. CASE Backfill(w)
  <2>1. PICK s \in sync[w].todo : BeginAppend(w, LegacyRequest(w, s))
    BY <1>5 DEF Backfill
  <2> QED
    BY <1>4, <1>5, <2>1
<1>6. CASE WriteDelta(w)
  <2>1. PICK s \in sync[w].todo : BeginAppend(w, DeltaRequest(w, s))
    BY <1>6 DEF WriteDelta
  <2> QED
    BY <1>4, <1>6, <2>1
<1>7. CASE FlushRow(w)
  <2>1. PICK s \in sync[w].todo : BeginAppend(w, FlushRequest(s))
    BY <1>7 DEF FlushRow
  <2> QED
    BY <1>4, <1>7, <2>1
<1>8. CASE Reset(w)
  BY <1>0, <1>1, <1>8 DEF Reset, BeginReset, TypeOK, dbVars
<1>9. CASE Raise(w)
  BY <1>9 DEF Raise, ReadsCurrent
<1>10. CASE InWriter(w)
  BY <1>10 DEF InWriter
<1> QED
  BY <1>2, <1>3, <1>5, <1>6, <1>7, <1>8, <1>9, <1>10 DEF SyncStep

(* Once it has migrated and reset, a sync keeps to its allocation.            *)
Late == {"offsets", "fetch", "write", "poll", "list", "flush", "save"}

LEMMA LateGoes ==
  ASSUME FramesOK, NEW w \in Writers,
         Offsets(w) \/ Fetch(w) \/ Poll(w) \/ WriteDelta(w) \/ ListRows(w) \/ FlushRow(w),
         NEW f, f = sync[w], NEW g, g = sync'[w]
  PROVE  /\ g.prev = f.prev /\ g.alloc = f.alloc /\ g.legacy = f.legacy
         /\ f.step \in Late \ {"save"} /\ g.step \in Late /\ f.alloc # NoAlloc
         /\ UNCHANGED <<nomadVars, historyVars>>
<1>0. f.step \in Late \ {"save"} => f.alloc # NoAlloc
  BY DEF FramesOK, FrameOK, Late
<1>1. \A h : WrittenTo(f, h) \/ DrainedTo(f, h) => h.step \in Late
  BY DEF WrittenTo, DrainedTo, Late
<1>2. UNCHANGED <<nomadVars, historyVars>>
  BY DEF Offsets, Fetch, Poll, WriteDelta, ListRows, FlushRow, Untouched
<1>3. CASE Offsets(w)
  <2>1. At(w, "offsets") /\ Alike(f, g) /\ g.step = "fetch"
    BY <1>3, OffsetsGoes
  <2> QED
    BY <1>0, <1>2, <2>1 DEF Alike, At, Late
<1>4. CASE Fetch(w)
  <2>1. /\ At(w, "fetch")
        /\ g.prev = f.prev /\ g.alloc = f.alloc /\ g.legacy = f.legacy
        /\ \E ok \in SUBSET Streams : Refuses(ok) /\ Fetched(f, g, ok)
    BY <1>4, FetchGoes
  <2>2. g.step \in Late
    BY <1>1, <2>1 DEF Fetched, Late
  <2> QED
    BY <1>0, <1>2, <2>1, <2>2 DEF At, Late
<1>5. CASE Poll(w)
  BY <1>0, <1>2, <1>5, PollGoes DEF At, Late
<1>6. CASE WriteDelta(w)
  <2>1. /\ At(w, "write") /\ Alike(f, g)
        /\ g.step = "write" \/ WrittenTo(f, g)
    BY <1>6, WriteDeltaGoes
  <2> QED
    BY <1>0, <1>1, <1>2, <2>1 DEF Alike, At, Late
<1>7. CASE ListRows(w)
  <2>1. /\ At(w, "list") /\ Alike(f, g)
        /\ g.step = "save" \/ g.step = "flush"
    BY <1>7, ListRowsGoes
  <2> QED
    BY <1>0, <1>2, <2>1 DEF Alike, At, Late
<1>8. CASE FlushRow(w)
  <2>1. /\ At(w, "flush") /\ Alike(f, g)
        /\ g.step = "save" \/ g.step = "flush"
    BY <1>8, FlushRowGoes
  <2> QED
    BY <1>0, <1>2, <2>1 DEF Alike, At, Late
<1> QED
  BY <1>3, <1>4, <1>5, <1>6, <1>7, <1>8

LEMMA EarlyGoes ==
  ASSUME FramesOK, NEW w \in Writers, ListLegacy(w) \/ Backfill(w),
         NEW f, f = sync[w], NEW g, g = sync'[w]
  PROVE  /\ Alike(f, g)
         /\ f.step \in {"migrate", "backfill"} /\ f.alloc # NoAlloc
         /\ g.step = "backfill" \/ MigratedTo(f, g)
         /\ UNCHANGED <<nomadVars, historyVars>>
<1>1. UNCHANGED <<nomadVars, historyVars>>
  BY DEF ListLegacy, Backfill, Untouched
<1>2. f.step \in {"migrate", "backfill"} => f.alloc # NoAlloc
  BY DEF FramesOK, FrameOK
<1>3. CASE ListLegacy(w)
  <2>1. At(w, "migrate") /\ Alike(f, g) /\ (g.step = "backfill" \/ MigratedTo(f, g))
    BY <1>3, ListLegacyGoes
  <2> QED
    BY <1>1, <1>2, <2>1 DEF At
<1>4. CASE Backfill(w)
  <2>1. At(w, "backfill") /\ Alike(f, g) /\ (g.step = "backfill" \/ MigratedTo(f, g))
    BY <1>4, BackfillGoes
  <2> QED
    BY <1>1, <1>2, <2>1 DEF At
<1> QED
  BY <1>3, <1>4

(* What it knows of Nomad and of the task history stays true.                 *)
LEMMA AloneKnows ==
  ASSUME LogSyncInv, NEW w \in Writers, StartSync(w) \/ SyncStep(w) \/ AbortSync(w),
         HistoryAlone, ReadsCurrent(w), SyncKnows(w)
  PROVE  HistoryAlone' /\ SyncKnows(w)'
<1> SUFFICES ASSUME NEW f, f = sync[w], NEW g, g = sync'[w]
             PROVE  HistoryAlone' /\ SyncKnows(w)'
  OBVIOUS
<1>0. /\ FramesOK /\ alloc \in Nat /\ tracked \in Nat
      /\ f.alloc \in Nat /\ f.prev \in Nat /\ FrameOK(f)
  <2>1. FramesOK /\ NomadOK /\ HistoryOK
    BY InvParts
  <2>2. Epochs \cup {NoAlloc} \subseteq Nat
    BY EpochsAssumption DEF NoAlloc
  <2> QED
    BY <2>1, <2>2 DEF FramesOK, Frame, NomadOK, HistoryOK
<1>1. Purged' <=> dead' /\ alloc' = NoAlloc
  BY DEF Purged
<1>2. CASE StartSync(w)
  <2>1. /\ g.step = "resolve" /\ g.prev = tracked /\ g.legacy = legacy /\ g.alloc = NoAlloc
        /\ pc'[w] = "idle" /\ UNCHANGED <<nomadVars, historyVars>>
    <3>1. /\ g.step = "resolve" /\ g.prev = tracked /\ g.legacy = legacy
          /\ g.alloc = NoAlloc
      BY <1>0, <1>2, StartGoes
    <3>2. pc'[w] = "idle"
      BY <1>2 DEF StartSync, Return, LogSyncInv, WriterInv, TypeOK
    <3> QED
      BY <1>2, <3>1, <3>2 DEF StartSync, Untouched
  <2> QED
    BY <1>0, <2>1 DEF HistoryAlone, SyncKnows, Purged, Resetting, nomadVars, historyVars,
       NoAlloc
<1>3. CASE AbortSync(w)
  <2>1. g = NoFrame /\ pc'[w] = "idle" /\ UNCHANGED <<nomadVars, historyVars>>
    <3>1. g = NoFrame
      BY <1>0, <1>3, EndGoes
    <3> QED
      BY <1>3, <3>1 DEF AbortSync, Return, LogSyncInv, WriterInv, TypeOK
  <2> QED
    BY <1>0, <2>1 DEF HistoryAlone, SyncKnows, Purged, Resetting, nomadVars, historyVars,
       NoFrame, NoAlloc
<1>4. CASE Save(w)
  <2>1. /\ g = NoFrame /\ UNCHANGED <<writerVars, nomadVars>>
        /\ f.step = "save" /\ AtRest(w)
        /\ tracked' = IF f.alloc = NoAlloc THEN f.prev ELSE f.alloc
        /\ legacy' = IF f.alloc = NoAlloc THEN f.legacy ELSE 0
    <3>1. g = NoFrame
      BY <1>0, <1>4, EndGoes
    <3> QED
      BY <1>4, <3>1 DEF Save, At
  <2>2. f.prev = tracked /\ f.legacy = legacy /\ (~Purged => f.alloc <= alloc)
    BY <2>1 DEF SyncKnows
  <2>3. HistoryAlone'
    BY <1>0, <2>1, <2>2 DEF HistoryAlone, Purged, nomadVars
  <2>4. SyncKnows(w)'
    BY <1>0, <2>1 DEF SyncKnows, Purged, nomadVars, NoFrame, NoAlloc, Resetting, AtRest,
       writerVars, frameVars
  <2> QED
    BY <2>3, <2>4
<1>5. CASE Resolve(w) \/ ResolveNothing(w)
  <2>1. /\ UNCHANGED <<writerVars, nomadVars, historyVars>>
        /\ f.step = "resolve" /\ AtRest(w)
        /\ f.alloc = NoAlloc /\ f.prev = tracked /\ f.legacy = legacy
    BY <1>5 DEF Resolve, ResolveNothing, Untouched, At, SyncKnows
  <2>2. g.prev = f.prev /\ g.legacy = f.legacy
    BY <1>0, <1>5, ResolveGoes, ResolveNothingGoes
  <2>3. \/ /\ alloc # NoAlloc /\ g.alloc = alloc
           /\ \/ g.step = "migrate"
              \/ g.step = "reset" /\ g.prev # NoAlloc /\ g.prev # g.alloc
              \/ g.step = "offsets"
        \/ g.alloc = NoAlloc /\ g.step = "save"
    <3>1. CASE Resolve(w)
      <4>1. /\ alloc # NoAlloc /\ g.alloc = alloc
            /\ g.step = "migrate" \/ MigratedTo(g, g)
        BY <1>0, <3>1, ResolveGoes
      <4> QED
        BY <4>1 DEF MigratedTo, SeesAnotherAllocation
    <3>2. CASE ResolveNothing(w)
      <4>1. g.alloc = f.alloc /\ g.step = "save"
        BY <1>0, <3>2, ResolveNothingGoes
      <4> QED
        BY <2>1, <4>1
    <3> QED
      BY <1>5, <3>1, <3>2
  <2>4. HistoryAlone' /\ (Purged' <=> Purged) /\ ~Resetting(w)'
    BY <2>1 DEF HistoryAlone, Purged, nomadVars, historyVars, writerVars, frameVars, AtRest,
       Resetting
  <2>5. alloc # NoAlloc => tracked <= alloc
    BY DEF HistoryAlone, Purged
  <2>6. tracked' = tracked /\ legacy' = legacy /\ alloc' = alloc
    BY <2>1 DEF nomadVars, historyVars
  <2>7. SyncKnows(w)'
    <3>1. ~Purged' => g.alloc <= alloc
      BY <1>0, <2>3 DEF NoAlloc
    <3>2. g.prev = tracked /\ g.legacy = legacy /\ g.step \notin {"idle", "resolve"}
      BY <2>1, <2>2, <2>3
    <3>3. g.alloc # NoAlloc => g.prev <= g.alloc
      BY <2>1, <2>2, <2>3, <2>5
    <3>4. g.step = "reset" => g.prev # NoAlloc /\ g.prev < g.alloc
      BY <1>0, <2>1, <2>2, <2>3, <2>5
    <3> QED
      BY <2>4, <2>6, <3>1, <3>2, <3>3, <3>4 DEF SyncKnows
  <2> QED
    BY <2>4, <2>7
<1>6. CASE ListLegacy(w) \/ Backfill(w)
  <2>1. /\ Alike(f, g) /\ f.step \in {"migrate", "backfill"} /\ f.alloc # NoAlloc
        /\ g.step = "backfill" \/ MigratedTo(f, g)
        /\ UNCHANGED <<nomadVars, historyVars>>
    BY <1>0, <1>6, EarlyGoes
  <2>2. pc'[w] \in {"idle", "read"}
    <3>1. \/ UNCHANGED writerVars /\ pc[w] = "idle"
          \/ pc'[w] = "read"
      BY <1>6, SessionGoes DEF Begins, ListLegacy, Backfill, At, AtRest, ReadsCurrent,
         BeginAppend, LogSyncInv, WriterInv, TypeOK
    <3> QED
      BY <3>1 DEF writerVars, frameVars
  <2>3. /\ g.prev = f.prev /\ g.alloc = f.alloc /\ g.legacy = f.legacy
        /\ f.prev = tracked /\ f.legacy = legacy /\ f.prev <= f.alloc
        /\ ~Purged => f.alloc <= alloc
    BY <2>1 DEF Alike, SyncKnows
  <2>4. /\ g.step \in {"backfill", "reset", "offsets"}
        /\ g.step = "reset" => f.prev # NoAlloc /\ f.prev # f.alloc
    BY <2>1 DEF MigratedTo, SeesAnotherAllocation
  <2>5. HistoryAlone' /\ (Purged' <=> Purged) /\ ~Resetting(w)'
    BY <2>1, <2>2 DEF HistoryAlone, Purged, nomadVars, historyVars, Resetting
  <2>6. tracked' = tracked /\ legacy' = legacy /\ alloc' = alloc
    BY <2>1 DEF nomadVars, historyVars
  <2>7. g.step = "reset" => g.prev # NoAlloc /\ g.prev < g.alloc
    BY <1>0, <2>3, <2>4
  <2>8. SyncKnows(w)'
    BY <2>3, <2>4, <2>5, <2>6, <2>7 DEF SyncKnows
  <2> QED
    BY <2>5, <2>8
<1>7. CASE Reset(w)
  <2>1. /\ Alike(f, g) /\ g.step = "offsets" /\ f.step = "reset"
        /\ UNCHANGED <<nomadVars, historyVars>>
    <3>1. Alike(f, g) /\ g.step = "offsets" /\ At(w, "reset")
      BY <1>0, <1>7, ResetGoes
    <3> QED
      BY <1>7, <3>1 DEF At, Reset, Untouched
  <2>2. /\ g.prev = f.prev /\ g.alloc = f.alloc /\ g.legacy = f.legacy
        /\ f.prev = tracked /\ f.legacy = legacy
        /\ f.prev # NoAlloc /\ f.prev < f.alloc /\ f.prev <= f.alloc
        /\ ~Purged => f.alloc <= alloc
    BY <1>0, <2>1 DEF Alike, SyncKnows
  <2> QED
    BY <2>1, <2>2 DEF HistoryAlone, SyncKnows, Purged, nomadVars, historyVars
<1>8. CASE Offsets(w) \/ Fetch(w) \/ Poll(w) \/ WriteDelta(w) \/ ListRows(w) \/ FlushRow(w)
  <2>1. /\ g.prev = f.prev /\ g.alloc = f.alloc /\ g.legacy = f.legacy
        /\ f.step \in Late \ {"save"} /\ g.step \in Late /\ f.alloc # NoAlloc
        /\ UNCHANGED <<nomadVars, historyVars>>
    BY <1>0, <1>8, LateGoes
  <2>2. pc'[w] \in {"idle", "read"}
    <3>1. \/ UNCHANGED writerVars /\ pc[w] = "idle"
          \/ pc'[w] = "read"
      <4>1. CASE Offsets(w) \/ Fetch(w) \/ Poll(w) \/ ListRows(w)
        BY <4>1 DEF Offsets, Fetch, Poll, ListRows, At, AtRest, ReadsCurrent
      <4>2. CASE WriteDelta(w) \/ FlushRow(w)
        BY <4>2 DEF WriteDelta, FlushRow, BeginAppend, LogSyncInv, WriterInv, TypeOK
      <4> QED
        BY <1>8, <4>1, <4>2
    <3> QED
      BY <3>1 DEF writerVars, frameVars
  <2>3. ~Resetting(w)'
    BY <2>2 DEF Resetting
  <2> QED
    BY <2>1, <2>3 DEF HistoryAlone, SyncKnows, Purged, nomadVars, historyVars, Late
<1>9. CASE InWriter(w)
  <2>1. /\ UNCHANGED <<historyVars, sync, nomadVars>>
        /\ Resetting(w)' => Resetting(w)
    <3>1. pc'[w] = "idle" \/ GoesOnReading(w)
      BY <1>9, AloneSession DEF InWriter
    <3> QED
      BY <1>9, <3>1 DEF InWriter, GoesOnReading, Resetting
  <2> QED
    BY <2>1 DEF HistoryAlone, SyncKnows, Purged, nomadVars, historyVars
<1>10. CASE Raise(w)
  BY <1>10 DEF Raise, ReadsCurrent
<1> QED
  BY <1>2, <1>3, <1>4, <1>5, <1>6, <1>7, <1>8, <1>9, <1>10 DEF SyncStep

(* A call it begins is about a stream it has taken off its list.              *)
LEMMA AloneSessionStep ==
  ASSUME LogSyncInv, NEW w \in Writers, StartSync(w) \/ SyncStep(w) \/ AbortSync(w),
         ReadsCurrent(w), SessionAlone(w)
  PROVE  ReadsCurrent(w)' /\ SessionAlone(w)'
<1> SUFFICES ASSUME NEW f, f = sync[w], NEW g, g = sync'[w]
             PROVE  ReadsCurrent(w)' /\ SessionAlone(w)'
  OBVIOUS
<1>0. FramesOK /\ TypeOK
  BY InvParts DEF WriterInv
<1>1. CASE pc'[w] = "idle" /\ rows' = rows
  BY <1>1 DEF ReadsCurrent, SessionAlone, HasRead, Resetting, Appending
<1>2. ASSUME NEW s, NEW r, r.stream = s, Begins(w, r), s \notin g.todo,
             g.step \notin {"idle", "resolve", "migrate", "fetch"}
      PROVE  ReadsCurrent(w)' /\ SessionAlone(w)'
  BY <1>2 DEF Begins, ReadsCurrent, SessionAlone, HasRead, Resetting, Appending
<1>3. CASE Backfill(w)
  <2>1. PICK s \in f.todo :
          /\ BeginAppend(w, LegacyRequest(w, s)) /\ g.todo = f.todo \ {s}
          /\ g.step = "backfill" \/ MigratedTo(f, g)
    BY <1>0, <1>3, BackfillGoes
  <2>2. Begins(w, LegacyRequest(w, s))
    BY <1>0, <2>1 DEF BeginAppend, Begins, TypeOK, AtRest, ReadsCurrent, dbVars
  <2>3. g.step \in {"backfill", "reset", "offsets"} /\ LegacyRequest(w, s).stream = s
    BY <2>1 DEF MigratedTo, LegacyRequest
  <2> QED
    BY <1>2, <2>1, <2>2, <2>3
<1>4. CASE WriteDelta(w)
  <2>1. PICK s \in f.todo :
          /\ BeginAppend(w, DeltaRequest(w, s)) /\ g.todo = f.todo \ {s}
          /\ g.step = "write" \/ WrittenTo(f, g)
    BY <1>0, <1>4, WriteDeltaGoes
  <2>2. Begins(w, DeltaRequest(w, s))
    BY <1>0, <2>1 DEF BeginAppend, Begins, TypeOK, AtRest, ReadsCurrent, dbVars
  <2>3. g.step \in {"write", "save", "poll", "list", "offsets"}
        /\ DeltaRequest(w, s).stream = s
    BY <2>1 DEF WrittenTo, DrainedTo, DeltaRequest
  <2> QED
    BY <1>2, <2>1, <2>2, <2>3
<1>5. CASE FlushRow(w)
  <2>1. PICK s \in f.todo :
          /\ BeginAppend(w, FlushRequest(s)) /\ g.todo = f.todo \ {s}
          /\ g.step = "flush" \/ g.step = "save"
    BY <1>0, <1>5, FlushRowGoes
  <2>2. Begins(w, FlushRequest(s))
    BY <1>0, <2>1 DEF BeginAppend, Begins, TypeOK, AtRest, ReadsCurrent, dbVars
  <2>3. FlushRequest(s).stream = s
    BY DEF FlushRequest
  <2> QED
    BY <1>2, <2>1, <2>2, <2>3
<1>6. CASE Reset(w)
  <2>1. Alike(f, g) /\ g.step = "offsets"
    BY <1>0, <1>6, ResetGoes
  <2>2. pc'[w] = "resetLock" /\ target'[w] = f.alloc
    BY <1>0, <1>6 DEF Reset, BeginReset, TypeOK
  <2> QED
    BY <2>1, <2>2 DEF Alike, ReadsCurrent, SessionAlone, HasRead, Resetting, Appending
<1>7. CASE InWriter(w)
  <2>1. /\ ReadsCurrent(w)' /\ pc[w] # "idle" /\ sync' = sync
        /\ pc'[w] = "idle" \/ GoesOnReading(w)
    BY <1>7, AloneSession DEF InWriter
  <2>2. CASE pc'[w] = "idle"
    BY <2>1, <2>2 DEF SessionAlone, Resetting, Appending
  <2>3. CASE GoesOnReading(w)
    BY <2>1, <2>3 DEF SessionAlone, Resetting, Appending, GoesOnReading
  <2> QED
    BY <2>1, <2>2, <2>3
<1>8. CASE UNCHANGED writerVars /\ pc[w] = "idle"
  BY <1>1, <1>8 DEF writerVars, dbVars, frameVars
<1> QED
  BY <1>1, <1>3, <1>4, <1>5, <1>6, <1>7, <1>8, SessionGoes

(* The rows carry the allocation it knows.                                   *)
LEMMA AloneBelongs ==
  ASSUME LogSyncInv, NEW w \in Writers, StartSync(w) \/ SyncStep(w) \/ AbortSync(w),
         AbortSync(w) => \E e \in Epochs : Epochs = {e},
         ReadsCurrent(w), SessionAlone(w), SyncKnows(w), CallAlone(w), RowsBelong(w)
  PROVE  RowsBelong(w)'
<1> SUFFICES ASSUME NEW f, f = sync[w], NEW g, g = sync'[w],
                    ~\E e \in Epochs : Epochs = {e}
             PROVE  \A s \in Streams : rows'[s].epoch \in {NoAlloc, Known(w)'}
  BY DEF RowsBelong
<1>0. FramesOK /\ TypeOK /\ WriterInv
  BY InvParts DEF WriterInv
<1>1. \A s \in Streams : rows[s].epoch \in {NoAlloc, Known(w)}
  BY DEF RowsBelong
<1>2. CASE rows' = rows /\ (Known(w)' = Known(w) \/ Known(w) = NoAlloc)
  BY <1>1, <1>2
<1>3. CASE StartSync(w)
  <2>1. /\ f.step = "idle" /\ g.step = "resolve" /\ g.prev = tracked /\ g.alloc = NoAlloc
    BY <1>0, <1>3, StartGoes
  <2>2. rows' = rows
    BY <1>3 DEF StartSync, dbVars
  <2> QED
    BY <1>2, <2>1, <2>2 DEF Known, BeforeReset
<1>4. CASE Save(w)
  <2>1. g = NoFrame
    BY <1>0, <1>4, EndGoes
  <2>2. /\ f.step = "save" /\ AtRest(w) /\ rows' = rows
        /\ tracked' = IF f.alloc = NoAlloc THEN f.prev ELSE f.alloc
    BY <1>4 DEF Save, At, writerVars, dbVars
  <2> QED
    BY <1>2, <2>1, <2>2 DEF Known, BeforeReset, Resetting, AtRest, NoFrame
<1>5. CASE Resolve(w) \/ ResolveNothing(w)
  <2>1. /\ UNCHANGED writerVars /\ f.step = "resolve" /\ AtRest(w) /\ f.alloc = NoAlloc
    BY <1>5 DEF Resolve, ResolveNothing, At, SyncKnows
  <2>2. g.prev = f.prev
    BY <1>0, <1>5, ResolveGoes, ResolveNothingGoes
  <2>3. \/ g.step \in {"migrate", "reset"}
        \/ g.step = "offsets" /\ (g.prev = NoAlloc \/ g.prev = g.alloc)
        \/ g.alloc = NoAlloc /\ g.step = "save"
    <3>1. CASE Resolve(w)
      <4>1. g.step = "migrate" \/ MigratedTo(g, g)
        BY <1>0, <3>1, ResolveGoes
      <4> QED
        BY <4>1 DEF MigratedTo, SeesAnotherAllocation
    <3>2. CASE ResolveNothing(w)
      <4>1. g.alloc = f.alloc /\ g.step = "save"
        BY <1>0, <3>2, ResolveNothingGoes
      <4> QED
        BY <2>1, <4>1
    <3> QED
      BY <1>5, <3>1, <3>2
  <2>4. /\ Known(w) = f.prev
        /\ Known(w)' = IF g.alloc = NoAlloc \/ g.step \in {"migrate", "reset"}
                       THEN g.prev ELSE g.alloc
    <3>1. ~Resetting(w)'
      BY <2>1 DEF Resetting, AtRest, writerVars, frameVars
    <3> QED
      BY <2>1, <2>3, <3>1 DEF Known, BeforeReset
  <2>5. rows' = rows
    BY <2>1 DEF writerVars, dbVars
  <2> QED
    BY <1>2, <2>2, <2>3, <2>4, <2>5
<1>6. CASE ListLegacy(w) \/ Backfill(w)
  <2>1. /\ Alike(f, g) /\ f.step \in {"migrate", "backfill"} /\ f.alloc # NoAlloc
        /\ g.step = "backfill" \/ MigratedTo(f, g)
    BY <1>0, <1>6, EarlyGoes
  <2>2. rows' = rows
    BY <1>6 DEF ListLegacy, Backfill, BeginAppend, writerVars, dbVars
  <2>3. \/ g.step \in {"backfill", "reset"}
        \/ g.step = "offsets" /\ (g.prev = NoAlloc \/ g.prev = g.alloc)
    BY <2>1 DEF MigratedTo, SeesAnotherAllocation, Alike
  <2>4. Known(w) = f.prev
    BY <2>1 DEF Known, BeforeReset
  <2>5. /\ Known(w)' = g.prev \/ Known(w)' = g.alloc
        /\ g.step \in {"backfill", "reset"} => Known(w)' = g.prev
    BY <2>3 DEF Known, BeforeReset
  <2> QED
    BY <1>2, <2>1, <2>2, <2>3, <2>4, <2>5 DEF Alike
<1>7. CASE Reset(w)
  <2>1. Alike(f, g) /\ g.step = "offsets" /\ f.step = "reset"
    <3>1. Alike(f, g) /\ g.step = "offsets" /\ At(w, "reset")
      BY <1>0, <1>7, ResetGoes
    <3> QED
      BY <3>1 DEF At
  <2>2. pc'[w] = "resetLock" /\ rows' = rows
    BY <1>0, <1>7 DEF Reset, BeginReset, TypeOK, dbVars
  <2> QED
    BY <1>2, <2>1, <2>2 DEF Alike, Known, BeforeReset, Resetting
<1>8. CASE Offsets(w) \/ Fetch(w) \/ Poll(w) \/ WriteDelta(w) \/ ListRows(w) \/ FlushRow(w)
  <2>1. /\ g.alloc = f.alloc /\ f.alloc # NoAlloc
        /\ f.step \in Late /\ g.step \in Late
    BY <1>0, <1>8, LateGoes
  <2>2. rows' = rows /\ pc[w] = "idle" /\ pc'[w] \in {"idle", "read"}
    <3>1. CASE Offsets(w) \/ Fetch(w) \/ Poll(w) \/ ListRows(w)
      <4>1. UNCHANGED writerVars /\ AtRest(w)
        BY <3>1 DEF Offsets, Fetch, Poll, ListRows, At
      <4> QED
        BY <4>1 DEF AtRest, ReadsCurrent, writerVars, dbVars, frameVars
    <3>2. CASE WriteDelta(w) \/ FlushRow(w)
      <4>1. PICK r : BeginAppend(w, r)
        BY <3>2 DEF WriteDelta, FlushRow
      <4> QED
        BY <1>0, <4>1 DEF BeginAppend, AtRest, ReadsCurrent, TypeOK, dbVars
    <3> QED
      BY <1>8, <3>1, <3>2
  <2> QED
    BY <1>2, <2>1, <2>2 DEF Known, BeforeReset, Resetting, Late
<1>9. CASE InWriter(w)
  <2>1. /\ WriterStep(w) /\ UNCHANGED <<historyVars, sync, nomadVars>>
    BY <1>9 DEF InWriter
  <2>2. pc[w] # "idle" /\ (pc'[w] = "idle" \/ GoesOnReading(w))
    BY <2>1, AloneSession
  <2>3. f.step # "idle"
    BY <2>2 DEF SessionAlone
  <2>4. CASE GoesOnReading(w)
    BY <1>2, <2>1, <2>4 DEF GoesOnReading, Known, BeforeReset, Resetting, historyVars
  <2>5. CASE WriteRow(w)
    <3>1. ~Resetting(w) /\ ~Resetting(w)' /\ Appending(w)
      <4>1. pc[w] = "write" /\ pc'[w] = "idle"
        BY <1>0, <2>5 DEF WriteRow, Return, TypeOK
      <4> QED
        BY <4>1 DEF Resetting, Appending
    <3>2. Known(w)' = Known(w)
      BY <2>1, <3>1 DEF Known, BeforeReset, historyVars
    <3>3. PICK t \in Streams, r \in Request :
            t = r.stream /\ r = call[w] /\ WriteEffect(w, t, r)
      BY <1>0, <2>5, WritePlaces
    <3>4. CallMatches(w, r, rows[t])
      BY <3>1, <3>3 DEF CallAlone
    <3>5. r.epoch # None => r.epoch = Known(w)
      <4>1. CASE IsFlush(r) \/ IsLegacy(r, rows[t])
        BY <4>1 DEF IsFlush, IsLegacy
      <4>2. CASE r.epoch = f.alloc /\ ~BeforeReset(w)
        BY <2>3, <4>2 DEF Known
      <4> QED
        BY <3>4, <4>1, <4>2 DEF CallMatches
    <3>6. rows'[t].epoch \in {NoAlloc, Known(w)}
      BY <1>1, <3>3, <3>5 DEF WriteEffect, Kept
    <3> QED
      BY <1>1, <3>2, <3>3, <3>6 DEF WriteEffect
  <2>6. CASE pc'[w] = "idle" /\ ~WriteRow(w)
    <3> SUFFICES ASSUME NEW s \in Streams PROVE rows'[s].epoch \in {NoAlloc, Known(w)'}
      OBVIOUS
    <3>1. \/ rows'[s] = rows[s]
          \/ /\ ResetWrite(w) /\ ~IsNew(rows[s]) /\ ~IsNew(rows'[s])
             /\ rows'[s].nomad = 0 /\ rows'[s].producer = 0 /\ rows'[s].epoch = target[w]
      BY <1>0, <2>1, <2>6, RowsGo DEF WriterMove
    <3>2. ~Resetting(w)'
      BY <2>6 DEF Resetting
    <3>3. CASE ~Resetting(w)
      <4>1. Known(w)' = Known(w)
        BY <2>1, <3>2, <3>3 DEF Known, BeforeReset, historyVars
      <4>2. ~ResetWrite(w)
        BY <3>3 DEF ResetWrite, Resetting
      <4> QED
        BY <1>1, <3>1, <4>1, <4>2
    <3>4. CASE Resetting(w)
      <4>1. f.step = "offsets" /\ target[w] = f.alloc /\ f.alloc # NoAlloc
        BY <1>0, <3>4 DEF SessionAlone, FramesOK, FrameOK
      <4>2. Known(w)' = f.alloc
        BY <2>1, <3>2, <4>1 DEF Known, BeforeReset
      <4>3. ResetWrite(w)
        BY <2>1, <2>6, <3>4, <1>0 DEF WriterStep, Resetting, ReadRow, LockFirstInsert,
           LoseRace, ResetLock, ResetList, LoseDrain, GoTo, Return, TypeOK
      <4>4. rows'[s].epoch = target[w] \/ rows'[s].epoch = NoAlloc
        <5>1. rows'[s] = ResetRow(w, s)
          BY <4>3 DEF ResetWrite
        <5>2. CASE IsNew(rows[s])
          <6>1. rows'[s] = DefaultRow
            BY <1>0, <5>1, <5>2 DEF ResetRow, WriterInv, MissingRowsAreDefault
          <6> QED
            BY <6>1 DEF DefaultRow, NoAlloc
        <5>3. CASE ~IsNew(rows[s])
          BY <5>1, <5>3 DEF ResetRow
        <5> QED
          BY <5>2, <5>3
      <4> QED
        BY <4>1, <4>2, <4>4
    <3> QED
      BY <3>3, <3>4
  <2> QED
    BY <2>2, <2>4, <2>5, <2>6
<1>10. CASE Raise(w)
  BY <1>10 DEF Raise, ReadsCurrent
<1> QED
  BY <1>3, <1>4, <1>5, <1>6, <1>7, <1>8, <1>9, <1>10 DEF SyncStep

(* A sync that reads the cursors reads those of its allocation.               *)
LEMMA OwnCursor ==
  ASSUME LogSyncInv, StreamsAlone, NEW w \in Writers, RowsBelong(w),
         sync[w].alloc # NoAlloc, sync[w].step # "idle", ~BeforeReset(w),
         NEW s \in Streams
  PROVE  /\ rows[s].epoch \in {NoAlloc, sync[w].alloc}
         /\ Matches(Cursor(rows[s], sync[w].alloc), rows[s])
<1>1. sync[w].alloc \in Epochs
  BY InvParts DEF FramesOK, Frame
<1>2. rows[s].epoch \in {NoAlloc, sync[w].alloc}
  <2>1. CASE \E e \in Epochs : Epochs = {e}
    <3>1. rows[s].epoch \in Epochs \cup {NoAlloc}
      BY DEF StreamsAlone, StreamAlone
    <3> QED
      BY <1>1, <2>1, <3>1
  <2>2. CASE ~\E e \in Epochs : Epochs = {e}
    BY <2>2 DEF RowsBelong, Known
  <2> QED
    BY <2>1, <2>2
<1>3. CASE IsNew(rows[s])
  <2>1. rows[s] = DefaultRow
    BY <1>3 DEF LogSyncInv, WriterInv, MissingRowsAreDefault
  <2> QED
    BY <1>2, <1>3, <2>1 DEF Cursor, UsesCursor, DefaultRow, Nothing, Matches
<1>4. CASE ~IsNew(rows[s])
  BY <1>2, <1>4 DEF Cursor, UsesCursor, NoAlloc, Matches
<1> QED
  BY <1>3, <1>4

(* What it read still matches when it makes its call.                         *)
LEMMA AloneFrames ==
  ASSUME LogSyncInv, NEW w \in Writers, StartSync(w) \/ SyncStep(w) \/ AbortSync(w),
         StreamsAlone, ReadsCurrent(w), SessionAlone(w), RowsBelong(w), FrameMatches(w)
  PROVE  FrameMatches(w)'
<1> SUFFICES ASSUME NEW f, f = sync[w], NEW g, g = sync'[w]
             PROVE  FrameMatches(w)'
  OBVIOUS
<1>0. FramesOK /\ TypeOK /\ WriterInv /\ FrameOK(f)
  BY InvParts DEF WriterInv, FramesOK
<1>1. CASE g.step \notin {"fetch", "write", "backfill"}
  BY <1>1 DEF FrameMatches
<1>2. CASE StartSync(w) \/ AbortSync(w) \/ Save(w) \/ Raise(w)
  <2>1. g.step \in {"idle", "resolve"}
    <3>1. CASE StartSync(w)
      BY <1>0, <3>1, StartGoes
    <3>2. CASE AbortSync(w) \/ Save(w) \/ Raise(w)
      BY <1>0, <3>2, EndGoes DEF NoFrame
    <3> QED
      BY <1>2, <3>1, <3>2
  <2> QED
    BY <1>1, <2>1
<1>3. CASE Resolve(w) \/ ResolveNothing(w)
  <2>1. CASE Resolve(w)
    <3>1. g.step = "migrate" \/ MigratedTo(g, g)
      BY <1>0, <2>1, ResolveGoes
    <3> QED
      BY <1>1, <3>1 DEF MigratedTo
  <2>2. CASE ResolveNothing(w)
    <3>1. g.step = "save"
      BY <1>0, <2>2, ResolveNothingGoes
    <3> QED
      BY <1>1, <3>1
  <2> QED
    BY <1>3, <2>1, <2>2
<1>4. CASE ListLegacy(w)
  <2>1. /\ UNCHANGED writerVars
        /\ \/ MigratedTo(f, g)
           \/ g.step = "backfill" /\ g.todo = { s \in Streams : IsNew(rows[s]) }
    <3>1. \/ MigratedTo(f, g)
          \/ g.step = "backfill" /\ g.todo = { s \in Streams : IsNew(rows[s]) }
      BY <1>0, <1>4, ListLegacyGoes
    <3> QED
      BY <1>4, <3>1 DEF ListLegacy
  <2>2. CASE MigratedTo(f, g)
    BY <1>1, <2>2 DEF MigratedTo
  <2>3. CASE g.step = "backfill" /\ g.todo = { s \in Streams : IsNew(rows[s]) }
    BY <2>1, <2>3 DEF FrameMatches, writerVars, dbVars
  <2> QED
    BY <2>1, <2>2, <2>3
<1>5. CASE Backfill(w)
  <2>1. /\ At(w, "backfill")
        /\ \E s \in f.todo : /\ BeginAppend(w, LegacyRequest(w, s))
                             /\ g.todo = f.todo \ {s}
                             /\ g.step = "backfill" \/ MigratedTo(f, g)
    BY <1>0, <1>5, BackfillGoes
  <2>2. f.step = "backfill" /\ rows' = rows /\ g.todo \subseteq f.todo
    BY <2>1 DEF At, BeginAppend, dbVars
  <2>3. g.step \in {"backfill", "reset", "offsets"}
    BY <2>1 DEF MigratedTo
  <2> QED
    BY <2>2, <2>3 DEF FrameMatches
<1>6. CASE Reset(w) \/ Poll(w) \/ ListRows(w) \/ FlushRow(w)
  <2>1. g.step \in {"offsets", "save", "flush"}
    <3>1. CASE Reset(w) \/ Poll(w)
      BY <1>0, <3>1, ResetGoes, PollGoes
    <3>2. CASE ListRows(w) \/ FlushRow(w)
      BY <1>0, <3>2, ListRowsGoes, FlushRowGoes
    <3> QED
      BY <1>6, <3>1, <3>2
  <2> QED
    BY <1>1, <2>1
<1>7. CASE Offsets(w)
  <2>1. /\ At(w, "offsets") /\ g.step = "fetch"
        /\ g.delta = [s \in Streams |-> Cursor(rows[s], f.alloc)]
    BY <1>0, <1>7, OffsetsGoes
  <2>2. rows' = rows /\ f.step = "offsets" /\ f.alloc # NoAlloc /\ ~BeforeReset(w)
    <3>1. UNCHANGED writerVars
      BY <1>7 DEF Offsets
    <3>2. f.step = "offsets" /\ ~Resetting(w)
      BY <2>1 DEF At, AtRest, Resetting
    <3>3. f.alloc # NoAlloc
      BY <1>0, <3>2 DEF FrameOK
    <3> QED
      BY <3>1, <3>2, <3>3 DEF BeforeReset, writerVars, dbVars
  <2>3. ASSUME NEW s \in Streams
        PROVE  Matches(g.delta[s], rows'[s])
    <3>1. Matches(Cursor(rows[s], f.alloc), rows[s])
      BY <2>2, OwnCursor
    <3> QED
      BY <2>1, <2>2, <3>1
  <2> QED
    BY <2>1, <2>3 DEF FrameMatches, Matches
<1>8. CASE Fetch(w)
  <2>1. /\ At(w, "fetch")
        /\ \E ok \in SUBSET Streams : Refuses(ok) /\ Fetched(f, g, ok)
    BY <1>0, <1>8, FetchGoes
  <2>2. g.step \in {"write", "list", "offsets", "save", "poll"} /\ g.todo \subseteq Streams
    BY <2>1 DEF Fetched, DrainedTo, WrittenTo, Due, Produced
  <2>3. rows' = rows /\ f.step = "fetch"
    BY <1>8, <2>1 DEF Fetch, At, writerVars, dbVars
  <2>4. ASSUME NEW s \in Streams PROVE Matches(g.delta[s], rows'[s])
    <3>1. Matches(f.delta[s], rows[s])
      BY <2>3 DEF FrameMatches
    <3>2. ASSUME NEW d, d = f.delta[s], NEW x, x = g.delta[s]
          PROVE  x.nomad = d.nomad /\ x.producer = d.producer
      BY <1>0, <1>8, <3>2, FetchKeepsCursor
    <3> QED
      BY <2>3, <3>1, <3>2 DEF Matches
  <2> QED
    BY <2>2, <2>4 DEF FrameMatches, Matches
<1>9. CASE WriteDelta(w)
  <2>1. /\ At(w, "write")
        /\ \E s \in f.todo :
             /\ BeginAppend(w, DeltaRequest(w, s))
             /\ g.todo = f.todo \ {s}
             /\ \/ g.step = "write" /\ g.delta = f.delta
                \/ WrittenTo(f, g)
    BY <1>0, <1>9, WriteDeltaGoes
  <2>2. f.step = "write" /\ rows' = rows /\ g.todo \subseteq f.todo
    BY <2>1 DEF At, BeginAppend, dbVars
  <2>3. \/ g.step = "write" /\ g.delta = f.delta
        \/ g.step \in {"list", "offsets", "save", "poll"}
    BY <2>1 DEF WrittenTo, DrainedTo
  <2> QED
    BY <2>2, <2>3 DEF FrameMatches, Matches
<1>10. CASE InWriter(w)
  <2>1. WriterStep(w) /\ sync' = sync
    BY <1>10 DEF InWriter
  <2>2. pc[w] # "idle"
    BY <2>1, AloneSession
  <2>3. f.step # "fetch"
    BY <2>2 DEF SessionAlone
  <2>4. ASSUME NEW s \in f.todo, f.step \in {"write", "backfill"}
        PROVE  rows'[s] = rows[s]
    <3>1. ~Resetting(w) /\ s \in Streams
      BY <1>0, <2>4 DEF SessionAlone, FrameOK, Frame
    <3>2. CASE WriteRow(w)
      <4>1. Appending(w)
        BY <3>2 DEF WriteRow, Appending
      <4>2. call[w].stream # s
        BY <2>4, <4>1 DEF SessionAlone
      <4>3. PICK t \in Streams, r \in Request :
              t = r.stream /\ r = call[w] /\ WriteEffect(w, t, r)
        BY <1>0, <3>2, WritePlaces
      <4> QED
        BY <3>1, <4>2, <4>3 DEF WriteEffect
    <3>3. CASE ~WriteRow(w)
      <4>1. \/ rows'[s] = rows[s]
            \/ /\ ResetWrite(w) /\ ~IsNew(rows[s]) /\ ~IsNew(rows'[s])
               /\ rows'[s].nomad = 0 /\ rows'[s].producer = 0 /\ rows'[s].epoch = target[w]
        BY <1>0, <2>1, <3>1, <3>3, RowsGo DEF WriterMove
      <4> QED
        BY <3>1, <4>1 DEF ResetWrite, Resetting
    <3> QED
      BY <3>2, <3>3
  <2> QED
    BY <2>1, <2>3, <2>4 DEF FrameMatches, Matches
<1> QED
  BY <1>2, <1>3, <1>4, <1>5, <1>6, <1>7, <1>8, <1>9, <1>10 DEF SyncStep

LEMMA AloneCalls ==
  ASSUME LogSyncInv, NEW w \in Writers, StartSync(w) \/ SyncStep(w) \/ AbortSync(w),
         StreamsAlone, HistoryAlone, ReadsCurrent(w), SessionAlone(w), SyncKnows(w),
         RowsBelong(w), FrameMatches(w), CallAlone(w)
  PROVE  CallAlone(w)'
<1> SUFFICES ASSUME NEW f, f = sync[w], NEW g, g = sync'[w], Appending(w)',
                    NEW s \in Streams, s = call'[w].stream
             PROVE  \/ IsFlush(call'[w])
                    \/ IsLegacy(call'[w], rows'[s])
                    \/ /\ IsDelta(call'[w], rows'[s])
                       /\ call'[w].epoch = g.alloc /\ ~BeforeReset(w)'
  BY DEF CallAlone, CallMatches, IsFlush, IsLegacy, IsDelta
<1>0. FramesOK /\ FrameOK(f) /\ TypeOK /\ f.todo \subseteq Streams
  BY InvParts DEF FramesOK, WriterInv, Frame
<1>1. CASE \/ pc'[w] = "idle" \/ pc'[w] = "resetLock"
           \/ UNCHANGED writerVars /\ pc[w] = "idle"
  BY <1>1 DEF Appending, writerVars, frameVars
<1>2. CASE Backfill(w)
  <2>1. At(w, "backfill") /\ f.step = "backfill"
    BY <1>2 DEF Backfill, At
  <2>2. PICK t \in f.todo : BeginAppend(w, LegacyRequest(w, t))
    BY <1>2 DEF Backfill
  <2>3. call'[w] = LegacyRequest(w, t) /\ rows' = rows
    BY <1>0, <2>2 DEF BeginAppend, TypeOK, dbVars
  <2>4. s = t /\ IsNew(rows'[s])
    BY <2>1, <2>3 DEF LegacyRequest, FrameMatches
  <2>5. f.prev = Min(Epochs) /\ f.legacy = LegacyLength
    <3>1. f.legacy > 0 /\ f.legacy \in {0, LegacyLength}
      BY <1>0, <2>1 DEF FrameOK, FramesOK, Frame
    <3>2. f.prev = tracked /\ f.legacy = legacy
      BY <2>1 DEF SyncKnows
    <3> QED
      BY <3>1, <3>2 DEF HistoryAlone
  <2> QED
    BY <2>3, <2>4, <2>5 DEF IsLegacy, LegacyRequest
<1>3. CASE FlushRow(w)
  <2>1. PICK t \in f.todo : BeginAppend(w, FlushRequest(t))
    BY <1>3 DEF FlushRow
  <2>2. call'[w] = FlushRequest(t)
    BY <1>0, <2>1 DEF BeginAppend, TypeOK
  <2> QED
    BY <2>2 DEF IsFlush, FlushRequest
<1>4. CASE WriteDelta(w)
  <2>1. At(w, "write") /\ f.step = "write" /\ pc[w] = "idle"
    BY <1>4 DEF WriteDelta, At, AtRest, ReadsCurrent
  <2>2. PICK t \in f.todo : BeginAppend(w, DeltaRequest(w, t))
    BY <1>4 DEF WriteDelta
  <2>3. call'[w] = DeltaRequest(w, t) /\ rows' = rows /\ pc'[w] = "read"
    BY <1>0, <2>2 DEF BeginAppend, TypeOK, dbVars
  <2>4. s = t
    BY <2>3 DEF DeltaRequest
  <2>5. /\ Matches(f.delta[s], rows[s]) /\ f.delta[s] \in Delta
        /\ f.delta[s].nomad <= f.delta[s].to
        /\ f.alloc \in Epochs /\ f.alloc # NoAlloc
    BY <1>0, <2>1, <2>2, <2>4 DEF FrameMatches, FrameOK, FramesOK, Frame
  <2>6. rows[s].epoch \in {NoAlloc, f.alloc}
    <3>1. ~BeforeReset(w)
      BY <2>1, <2>5 DEF BeforeReset, Resetting
    <3> QED
      BY <2>1, <2>5, <3>1, OwnCursor
  <2> DEFINE d == f.delta[s]
             r == DeltaRequest(w, t)
             row == rows[s]
  <2>7. /\ r.epoch = f.alloc /\ r.nomadAfter = d.to
        /\ r.after = d.producer + (d.to - d.nomad)
        /\ r.data = Part(f.alloc, d.nomad, d.to)
    BY <2>4 DEF DeltaRequest
  <2>8. Matches(d, row) /\ d \in Delta /\ d.nomad <= d.to /\ row.epoch \in {NoAlloc, f.alloc}
    BY <2>5, <2>6
  <2>9. call'[w] = r /\ rows'[s] = row
    BY <2>3
  <2> HIDE DEF d, r, row
  <2>10. IsDelta(r, row)
    BY <2>5, <2>7, <2>8 DEF IsDelta, Matches, Delta
  <2>11. g.alloc = f.alloc /\ g.step \in Late
    BY <1>0, <1>4, LateGoes
  <2>12. ~BeforeReset(w)'
    BY <2>3, <2>5, <2>11 DEF BeforeReset, Resetting, Late
  <2> QED
    BY <2>7, <2>9, <2>10, <2>11, <2>12
<1>5. CASE InWriter(w)
  <2>1. WriterStep(w) /\ sync' = sync
    BY <1>5 DEF InWriter
  <2>2. GoesOnReading(w)
    BY <2>1, AloneSession DEF Appending
  <2>3. rows' = rows /\ call' = call /\ Appending(w) /\ ~Resetting(w)'
    BY <2>2 DEF GoesOnReading, Resetting, Appending
  <2>4. CallMatches(w, call[w], rows[s])
    BY <2>3 DEF CallAlone
  <2>5. BeforeReset(w)' => BeforeReset(w)
    BY <2>1, <2>3 DEF BeforeReset
  <2> QED
    BY <2>1, <2>3, <2>4, <2>5 DEF CallMatches
<1>6. CASE Reset(w)
  BY <1>0, <1>1, <1>6 DEF Reset, BeginReset, TypeOK
<1> QED
  BY <1>1, <1>2, <1>3, <1>4, <1>5, <1>6, SessionGoes

(* A step of Nomad's, or none, changes nothing of this.                       *)
LEMMA AloneNomad ==
  ASSUME LogSyncInv, NEW w \in Writers, NomadStep \/ UNCHANGED syncVars,
         HistoryAlone, SyncKnows(w)
  PROVE  HistoryAlone' /\ SyncKnows(w)'
<1>0. /\ NomadOK /\ alloc \in Nat /\ tracked \in Nat /\ sync[w].alloc \in Nat
  <2>1. FramesOK /\ NomadOK /\ HistoryOK
    BY InvParts
  <2>2. Epochs \cup {NoAlloc} \subseteq Nat
    BY EpochsAssumption DEF NoAlloc
  <2> QED
    BY <2>1, <2>2 DEF FramesOK, Frame, NomadOK, HistoryOK
<1>1. UNCHANGED <<writerVars, historyVars, sync>>
  BY <1>0, NomadSteps DEF syncVars
<1>2. ~Purged' => ~Purged /\ alloc <= alloc' /\ alloc' \in Nat
  <2>1. CASE UNCHANGED <<alloc, dead>>
    BY <1>0, <2>1 DEF Purged
  <2>2. CASE Schedule
    <3>1. ~dead /\ \E e \in Epochs : e > alloc /\ alloc' = e
      BY <2>2 DEF Schedule
    <3> QED
      BY <1>0, <3>1, EpochsAssumption DEF Purged
  <2>3. CASE JobDies
    BY <1>0, <2>3 DEF JobDies, Purged
  <2>4. CASE JobPurged
    BY <2>4 DEF JobPurged, Purged
  <2> QED
    BY <2>1, <2>2, <2>3, <2>4 DEF NomadStep, LogmonWrites, syncVars, nomadVars
<1>3. HistoryAlone'
  BY <1>0, <1>1, <1>2 DEF HistoryAlone, historyVars
<1>4. SyncKnows(w)'
  <2>1. ~Purged' => sync[w].alloc <= alloc'
    BY <1>0, <1>2 DEF SyncKnows
  <2> QED
    BY <1>1, <2>1 DEF SyncKnows, Resetting, historyVars, writerVars, frameVars
<1> QED
  BY <1>3, <1>4

LEMMA AloneStays ==
  ASSUME NEW w \in Writers, UNCHANGED <<writerVars, historyVars, sync>>,
         ReadsCurrent(w), SessionAlone(w), RowsBelong(w), FrameMatches(w), CallAlone(w)
  PROVE  (ReadsCurrent(w) /\ SessionAlone(w) /\ RowsBelong(w) /\ FrameMatches(w)
            /\ CallAlone(w))'
<1>1. UNCHANGED <<rows, pc, call, seen, target, sync, tracked>>
  BY DEF writerVars, dbVars, frameVars, historyVars
<1>2. ReadsCurrent(w)' /\ SessionAlone(w)'
  BY <1>1 DEF ReadsCurrent, HasRead, SessionAlone, Resetting, Appending
<1>3. RowsBelong(w)'
  BY <1>1 DEF RowsBelong, Known, BeforeReset, Resetting
<1>4. FrameMatches(w)'
  BY <1>1 DEF FrameMatches, Matches
<1>5. CallAlone(w)'
  BY <1>1 DEF CallAlone, CallMatches, IsFlush, IsLegacy, IsDelta, Appending, BeforeReset,
     Resetting
<1> QED
  BY <1>2, <1>3, <1>4, <1>5

StreamsNext ==
  /\ \A s \in Streams : StreamAlone(rows'[s], Placed(s)')
  /\ BelowCap' => \A s \in Streams : StreamWhole(rows'[s], Placed(s)')

LEMMA AloneNext == (StreamsAlone /\ StreamsWhole)' <=> StreamsNext
BY DEF StreamsAlone, StreamsWhole, StreamsNext, StreamAlone, StreamWhole, Covers, Holds,
   Ordered, Migrated

LEMMA AloneStep ==
  ASSUME OneByOne, LogSyncInv, LogSyncInv', AloneInv, [SyncNext]_syncVars
  PROVE  AloneInv'
<1>1. PICK w : Writers = {w}
  BY DEF OneByOne
<1>2. /\ StreamsAlone /\ StreamsWhole /\ HistoryAlone /\ ReadsCurrent(w) /\ SessionAlone(w)
      /\ SyncKnows(w) /\ RowsBelong(w) /\ FrameMatches(w) /\ CallAlone(w)
  BY <1>1 DEF AloneInv
<1>3. (StreamsAlone /\ StreamsWhole)'
  <2>1. CASE UNCHANGED writerVars
    <3>1. \A s \in Streams : rows'[s] = rows[s] /\ Placed(s)' = Placed(s)
      BY <2>1, PlacedIsHeld, PlacedIsHeldNext DEF writerVars, dbVars
    <3>2. BelowCap' => BelowCap
      BY <2>1 DEF BelowCap, writerVars, dbVars
    <3>3. StreamsNext
      BY <1>2, <3>1, <3>2 DEF StreamsAlone, StreamsWhole, StreamsNext
    <3> QED
      BY <3>3, AloneNext
  <2>2. CASE WriterMove(w)
    <3>1. \A s \in Streams : /\ StreamAlone(rows'[s], Placed(s)')
                             /\ BelowCap' => StreamWhole(rows'[s], Placed(s)')
      BY <1>1, <1>2, <2>2, AloneStreams
    <3> QED
      BY <3>1, AloneNext DEF StreamsNext
  <2> QED
    BY <1>1, <2>1, <2>2, NextMoves
<1>4. /\ HistoryAlone' /\ SyncKnows(w)'
      /\ (ReadsCurrent(w) /\ SessionAlone(w) /\ RowsBelong(w) /\ FrameMatches(w)
            /\ CallAlone(w))'
  <2>1. CASE NomadStep \/ UNCHANGED syncVars
    <3>1. UNCHANGED <<writerVars, historyVars, sync>>
      BY <2>1, InvParts, NomadSteps DEF syncVars
    <3> QED
      BY <1>1, <1>2, <2>1, <3>1, AloneNomad, AloneStays
  <2>2. CASE StartSync(w) \/ SyncStep(w) \/ AbortSync(w)
    <3>1. AbortSync(w) => \E e \in Epochs : Epochs = {e}
      BY SyncAssumption DEF AbortSync, OneByOne, LogSyncInv, SyncTypeOK
    <3>2. HistoryAlone' /\ SyncKnows(w)'
      BY <1>1, <1>2, <2>2, AloneKnows
    <3>3. ReadsCurrent(w)' /\ SessionAlone(w)'
      BY <1>1, <1>2, <2>2, AloneSessionStep
    <3>4. RowsBelong(w)'
      BY <1>1, <1>2, <2>2, <3>1, AloneBelongs
    <3>5. FrameMatches(w)'
      BY <1>1, <1>2, <2>2, AloneFrames
    <3>6. CallAlone(w)'
      BY <1>1, <1>2, <2>2, AloneCalls
    <3> QED
      BY <3>2, <3>3, <3>4, <3>5, <3>6
  <2>3. \/ NomadStep \/ UNCHANGED syncVars
        \/ StartSync(w) \/ SyncStep(w) \/ AbortSync(w)
    BY <1>1 DEF SyncNext, NomadStep
  <2> QED
    BY <2>1, <2>2, <2>3
<1>5. \A v \in Writers : v = w
  BY <1>1
<1> QED
  BY <1>3, <1>4, <1>5 DEF AloneInv

LEMMA AloneStart ==
  ASSUME SyncInit
  PROVE  AloneInv
<1>1. /\ rows = NoRows /\ chunks = [s \in Streams |-> {}] /\ pc = [w \in Writers |-> "idle"]
      /\ sync = [w \in Writers |-> NoFrame] /\ call = [w \in Writers |-> NoCall]
  BY DEF SyncInit, WriterInit
<1>2. ASSUME NEW s \in Streams
      PROVE  Placed(s) = {} /\ rows[s] = DefaultRow
  BY <1>1 DEF NoRows, DefaultRow, Placed, StagingChunk, BytesOf
<1>3. StreamsAlone /\ StreamsWhole
  <2>1. DefaultRow.epoch = NoAlloc /\ DefaultRow.nomad = 0
    BY DEF DefaultRow, NoAlloc
  <2> QED
    BY <1>2, <2>1 DEF StreamsAlone, StreamsWhole, StreamAlone, StreamWhole, Ordered
<1>4. /\ tracked = alloc /\ alloc \in Nat
      /\ legacy > 0 => alloc = Min(Epochs)
  <2>1. legacy \in {0, LegacyLength} /\ tracked = alloc
        /\ alloc = IF legacy = 0 THEN NoAlloc ELSE Min(Epochs)
    BY DEF SyncInit
  <2> QED
    BY <2>1, SyncAssumption, FirstEpoch DEF NoAlloc
<1>5. HistoryAlone
  BY <1>4 DEF HistoryAlone
<1>6. ASSUME NEW w \in Writers
      PROVE  /\ ReadsCurrent(w) /\ SessionAlone(w) /\ SyncKnows(w)
             /\ RowsBelong(w) /\ FrameMatches(w) /\ CallAlone(w)
  <2>1. /\ pc[w] = "idle" /\ sync[w].step = "idle" /\ sync[w].alloc = NoAlloc
        /\ sync[w].prev = NoAlloc
    BY <1>1 DEF NoFrame
  <2>2. \A s \in Streams : rows[s].epoch = NoAlloc
    BY <1>2 DEF DefaultRow, NoAlloc
  <2>3. ReadsCurrent(w) /\ SessionAlone(w) /\ CallAlone(w)
    BY <2>1 DEF ReadsCurrent, HasRead, SessionAlone, CallAlone, Resetting, Appending
  <2>4. SyncKnows(w)
    BY <1>4, <2>1 DEF SyncKnows, Resetting, NoAlloc
  <2>5. RowsBelong(w) /\ FrameMatches(w)
    BY <2>1, <2>2 DEF RowsBelong, FrameMatches
  <2> QED
    BY <2>3, <2>4, <2>5
<1> QED
  BY <1>3, <1>5, <1>6 DEF AloneInv

LEMMA AloneInvariant ==
  ASSUME OneByOne
  PROVE  SyncSpec => []AloneInv
<1>1. LogSyncInv /\ LogSyncInv' /\ AloneInv /\ [SyncNext]_syncVars => AloneInv'
  BY AloneStep
<1>2. SyncInit => AloneInv
  BY AloneStart
<1> QED
  BY <1>1, <1>2, LogSyncInvariant, PTL DEF SyncSpec

(* Syncs that follow one another store no byte twice, whatever their appends   *)
(* meet: a refused request, a crash between the commit and the answer, a        *)
(* rescheduled allocation (then no crash, see OneByOne), a row evicted at its   *)
(* cap.  The one exception is what a task of the old format had shown, which    *)
(* the first sync copies from the history and then reads from Nomad again.     *)
THEOREM AloneStoresOnce ==
  ASSUME OneByOne
  PROVE  SyncSpec => []FreshBytesOnce
<1>1. AloneInv => FreshBytesOnce
  BY DEF AloneInv, StreamsAlone, StreamAlone, FreshBytesOnce
<1> QED
  BY <1>1, AloneInvariant, PTL

(* So a task that starts with this release has no byte twice at all.          *)
THEOREM AloneStoresNothingTwice ==
  ASSUME OneByOne, LegacyLength = 0
  PROVE  SyncSpec => []NoByteTwice
<1>1. LogSyncInv /\ FreshBytesOnce => NoByteTwice
  <2> SUFFICES ASSUME LogSyncInv, FreshBytesOnce, NEW s \in Streams,
                      NEW x \in Placed(s), NEW y \in Placed(s), x[2] = y[2]
               PROVE  x = y
    BY DEF NoByteTwice
  <2>1. x[2][2] \in 1 .. LogLength
    BY PlacedBytes DEF LogSyncInv, WriterInv
  <2>2. ~Migrated(x[2])
    BY <2>1, SyncAssumption DEF Migrated
  <2> QED
    BY <2>2 DEF FreshBytesOnce
<1> QED
  BY <1>1, AloneStoresOnce, LogSyncInvariant, PTL

(* And what they store is a prefix of each allocation's log, in its order,     *)
(* while no stream has reached its cap.                                      *)
THEOREM AloneKeepsPrefix ==
  ASSUME OneByOne
  PROVE  SyncSpec => [](BelowCap => PrefixKept)
<1>1. AloneInv => (BelowCap => PrefixKept)
  BY StreamIsOrdered DEF AloneInv, StreamsWhole, StreamWhole
<1> QED
  BY <1>1, AloneInvariant, PTL

-----------------------------------------------------------------------------
(* How a sync ends. *)

(* What the terminal drain needs to read a log to its end: some poll, and more  *)
(* of them than Nomad refuses log requests.  The withheld last line of an       *)
(* anonymized stream is asked for once, so there it needs every answer.        *)
DrainSuffices ==
  /\ DrainAttempts > 0
  /\ MaxFetchErrors = 0 \/ (Anonymized = {} /\ MaxFetchErrors < DrainAttempts)

(* Where a sync that found the job dead, or drains its log, can be.            *)
FrameEnds(f) ==
  /\ f.step \in {"poll", "list", "flush"} => f.result = "DONE"
  /\ f.result = "DONE" => f.alloc # NoAlloc
  /\ f.result = "LOST" => f.step = "save" /\ ~Draining(f)
  /\ Draining(f) => f.result = "DONE" /\ f.step \in Late
  /\ f.polls = 0 => f.advanced = {}
  /\ f.final => Anonymized # {}
  /\ f.result = "DONE" /\ f.step \in {"list", "flush", "save"} =>
       Draining(f) /\ (f.final \/ Anonymized = {})
  /\ f.step = "fetch" => \A s \in Streams : f.delta[s].to = f.delta[s].nomad

LEMMA WriteEnds ==
  ASSUME NEW f, NEW g, g.result = f.result, g.polls = f.polls, g.alloc = f.alloc,
         f.polls \in 0 .. DrainAttempts, f.final \in BOOLEAN, f.result \in Results,
         DrainAttempts \in Nat \ {0},
         f.polls = 0 => g.advanced = {}, FrameEnds(f), f.step \in {"fetch", "write"},
         \/ WrittenTo(f, g)
         \/ f.polls > 0 /\ DrainedTo(f, g)
         \/ g.step = "write" /\ g.final = f.final
  PROVE  FrameEnds(g)
<1>1. f.result # "LOST"
  BY DEF FrameEnds
<1>2. CASE g.step = "write" /\ g.final = f.final
  BY <1>1, <1>2 DEF FrameEnds, Draining, Late
<1>3. ASSUME f.polls > 0 \/ f.final, DrainedTo(f, g)
      PROVE  FrameEnds(g)
  BY <1>1, <1>3 DEF FrameEnds, Draining, DrainedTo, Late
<1>4. CASE WrittenTo(f, g)
  <2>1. CASE ~Terminal(f)
    BY <1>1, <1>4, <2>1 DEF FrameEnds, Draining, WrittenTo, Terminal, Late
  <2>2. CASE Terminal(f) /\ ~f.final /\ f.polls < DrainAttempts /\ g.step = "poll"
             /\ g.final = f.final
    BY <1>1, <2>2 DEF FrameEnds, Draining, Terminal, Late, Results
  <2>3. CASE (f.final \/ ~(f.polls < DrainAttempts)) /\ DrainedTo(f, g)
    BY <1>3, <2>3
  <2> QED
    BY <1>4, <2>1, <2>2, <2>3 DEF WrittenTo
<1> QED
  BY <1>2, <1>3, <1>4

(* A fetched cursor has moved exactly if its stream produced something.       *)
LEMMA FetchedNothing ==
  ASSUME FramesOK, NEW w \in Writers, NEW f, f = sync[w], FrameEnds(f), f.step = "fetch",
         NEW ok \in SUBSET Streams, NEW s \in Streams \ ok
  PROVE  s \notin Produced(FetchedDelta(f, ok))
<1>1. FetchedDelta(f, ok)[s] = f.delta[s]
  BY DEF FetchedDelta
<1>2. f.delta[s].to = f.delta[s].nomad /\ f.delta[s].nomad \in Nat
  BY DEF FrameEnds, FramesOK, Frame, Delta
<1> QED
  BY <1>1, <1>2 DEF Produced

LEMMA FrameEndsStep ==
  ASSUME LogSyncInv, NEW w \in Writers, StartSync(w) \/ SyncStep(w) \/ AbortSync(w),
         DrainAttempts > 0, NEW f, f = sync[w], FrameEnds(f), NEW g, g = sync'[w]
  PROVE  FrameEnds(g)
<1>0. /\ FramesOK /\ f \in Frame /\ f.polls \in 0 .. DrainAttempts /\ f.final \in BOOLEAN
      /\ f.result \in Results /\ DrainAttempts \in Nat \ {0}
      /\ f.step \notin {"idle", "resolve", "save"} => f.alloc # NoAlloc
  BY InvParts, SyncAssumption DEF FramesOK, FrameOK, Frame
<1>1. CASE AbortSync(w) \/ Save(w) \/ Raise(w)
  BY <1>0, <1>1, EndGoes DEF NoFrame, FrameEnds, Draining
<1>2. CASE StartSync(w)
  <2>1. /\ g.step = "resolve" /\ g.result = "RUNNING" /\ g.advanced = {} /\ g.polls = 0
        /\ g.final = FALSE
    BY <1>0, <1>2, StartGoes
  <2> QED
    BY <2>1 DEF FrameEnds, Draining
<1>3. CASE Resolve(w) \/ ResolveNothing(w)
  <2>1. /\ f.step = "resolve" /\ g.advanced = f.advanced /\ g.polls = f.polls
        /\ g.final = f.final
    BY <1>0, <1>3, ResolveGoes, ResolveNothingGoes DEF At
  <2>2. ~Draining(f) /\ ~Draining(g) /\ f.polls = 0 /\ f.advanced = {} /\ ~f.final
    BY <1>0, <2>1 DEF FrameEnds, Late, Draining
  <2>3. \/ /\ alloc # NoAlloc /\ g.alloc = alloc /\ g.result \in {"DONE", "RUNNING"}
           /\ g.step \in {"migrate", "reset", "offsets"}
        \/ g.step = "save" /\ g.result \in {"LOST", "RUNNING"}
    <3>1. CASE Resolve(w)
      <4>1. /\ alloc # NoAlloc /\ g.alloc = alloc
            /\ g.result = (IF dead THEN "DONE" ELSE "RUNNING")
            /\ g.step = "migrate" \/ MigratedTo(g, g)
        BY <1>0, <3>1, ResolveGoes
      <4> QED
        BY <4>1 DEF MigratedTo
    <3>2. CASE ResolveNothing(w)
      BY <1>0, <3>2, ResolveNothingGoes
    <3> QED
      BY <1>3, <3>1, <3>2
  <2> QED
    BY <2>1, <2>2, <2>3 DEF FrameEnds
<1>4. CASE ListLegacy(w) \/ Backfill(w) \/ Reset(w)
  <2>1. /\ Alike(f, g) /\ f.step \in {"migrate", "backfill", "reset"}
        /\ g.step \in {"backfill", "reset", "offsets"} /\ g.final = f.final
    <3>1. CASE ListLegacy(w)
      BY <1>0, <3>1, ListLegacyGoes DEF At, MigratedTo
    <3>2. CASE Backfill(w)
      BY <1>0, <3>2, BackfillGoes DEF At, MigratedTo
    <3>3. CASE Reset(w)
      BY <1>0, <3>3, ResetGoes DEF At
    <3> QED
      BY <1>4, <3>1, <3>2, <3>3
  <2> QED
    BY <2>1 DEF FrameEnds, Alike, Draining, Late
<1>5. CASE Offsets(w)
  <2>1. /\ f.step = "offsets" /\ Alike(f, g) /\ g.final = f.final /\ g.step = "fetch"
        /\ g.delta = [s \in Streams |-> Cursor(rows[s], f.alloc)]
    BY <1>0, <1>5, OffsetsGoes DEF At
  <2>2. \A s \in Streams : g.delta[s].to = g.delta[s].nomad
    BY <2>1 DEF Cursor, Nothing
  <2> QED
    BY <2>1, <2>2 DEF FrameEnds, Alike, Draining, Late
<1>6. CASE Fetch(w)
  <2>1. /\ f.step = "fetch" /\ g.alloc = f.alloc /\ g.result = f.result /\ g.polls = f.polls
        /\ \E ok \in SUBSET Streams : Refuses(ok) /\ Fetched(f, g, ok)
    BY <1>0, <1>6, FetchGoes DEF At
  <2>2. /\ f.polls = 0 => g.advanced = {}
        /\ \/ WrittenTo(f, g)
           \/ f.polls > 0 /\ DrainedTo(f, g)
           \/ g.step = "write" /\ g.final = f.final
    BY <1>0, <2>1 DEF Fetched, FrameEnds
  <2> QED
    BY <1>0, <2>1, <2>2, WriteEnds
<1>7. CASE WriteDelta(w)
  <2>1. /\ f.step = "write" /\ Alike(f, g)
        /\ WrittenTo(f, g) \/ (g.step = "write" /\ g.final = f.final)
    BY <1>0, <1>7, WriteDeltaGoes DEF At
  <2>2. f.polls = 0 => g.advanced = {}
    BY <2>1 DEF FrameEnds, Alike
  <2> QED
    BY <1>0, <2>1, <2>2, WriteEnds DEF Alike
<1>8. CASE Poll(w)
  <2>1. /\ f.step = "poll" /\ g.alloc = f.alloc /\ g.result = f.result
        /\ g.polls = f.polls + 1 /\ g.final = f.final /\ g.step = "offsets"
    BY <1>0, <1>8, PollGoes DEF At
  <2> QED
    BY <1>0, <2>1 DEF FrameEnds, Draining, Late
<1>9. CASE ListRows(w) \/ FlushRow(w)
  <2>1. /\ f.step \in {"list", "flush"} /\ Alike(f, g) /\ g.final = f.final
        /\ g.step \in {"flush", "save"}
    BY <1>0, <1>9, ListRowsGoes, FlushRowGoes DEF At
  <2> QED
    BY <2>1 DEF FrameEnds, Alike, Draining, Late
<1>10. CASE InWriter(w)
  BY <1>10 DEF InWriter
<1> QED
  BY <1>1, <1>2, <1>3, <1>4, <1>5, <1>6, <1>7, <1>8, <1>9, <1>10 DEF SyncStep

(* A sync that found the job dead makes only calls that flush, and one that    *)
(* saved what it found was the last.                                         *)
SessionEnds(w) ==
  LET f == sync[w] IN
  /\ status # "RUNNING" => f.step = "idle" /\ pc[w] = "idle"
  /\ Terminal(f) => dead
  /\ Draining(f) => ~Resetting(w)
  /\ Appending(w) /\ Terminal(f) => call[w].force
HistoryEnds ==
  /\ status # "RUNNING" => dead
  /\ status = "DONE" => tracked # NoAlloc

(* What a sync found stays what it found, until it ends.                      *)
LEMMA ResultStays ==
  ASSUME FramesOK, NEW w \in Writers,
         \/ ListLegacy(w) \/ Backfill(w) \/ Reset(w) \/ Offsets(w) \/ Fetch(w)
         \/ Poll(w) \/ WriteDelta(w) \/ ListRows(w) \/ FlushRow(w),
         NEW f, f = sync[w], NEW g, g = sync'[w]
  PROVE  g.result = f.result /\ f.step # "idle" /\ UNCHANGED <<nomadVars, historyVars>>
<1>1. CASE ListLegacy(w) \/ Backfill(w)
  BY <1>1, EarlyGoes DEF Alike
<1>2. CASE Reset(w)
  <2>1. At(w, "reset") /\ Alike(f, g)
    BY <1>2, ResetGoes
  <2> QED
    BY <1>2, <2>1 DEF Alike, At, Reset, Untouched
<1>3. CASE Offsets(w) \/ Fetch(w) \/ Poll(w) \/ WriteDelta(w) \/ ListRows(w) \/ FlushRow(w)
  <2>1. f.step \in Late /\ UNCHANGED <<nomadVars, historyVars>>
    BY <1>3, LateGoes
  <2>2. g.result = f.result
    <3>1. CASE Offsets(w) \/ Fetch(w) \/ Poll(w)
      <4>1. Offsets(w) => g.result = f.result
        <5>1. Offsets(w) => Alike(f, g)
          BY OffsetsGoes
        <5> QED
          BY <5>1 DEF Alike
      <4>2. Fetch(w) => g.result = f.result
        BY FetchGoes
      <4>3. Poll(w) => g.result = f.result
        BY PollGoes
      <4> QED
        BY <3>1, <4>1, <4>2, <4>3
    <3>2. CASE WriteDelta(w) \/ ListRows(w) \/ FlushRow(w)
      BY <3>2, WriteDeltaGoes, ListRowsGoes, FlushRowGoes DEF Alike
    <3> QED
      BY <1>3, <3>1, <3>2
  <2> QED
    BY <2>1, <2>2 DEF Late
<1> QED
  BY <1>1, <1>2, <1>3

(* Its steps begin a call of the writer, or leave the writer alone.           *)
LEMMA StepBegins ==
  ASSUME LogSyncInv, NEW w \in Writers, ReadsCurrent(w),
         \/ ListLegacy(w) \/ Backfill(w) \/ Reset(w) \/ Offsets(w) \/ Fetch(w)
         \/ Poll(w) \/ WriteDelta(w) \/ ListRows(w) \/ FlushRow(w)
  PROVE  /\ pc[w] = "idle" /\ rows' = rows /\ mark' = mark
         /\ \/ pc'[w] = "idle" /\ UNCHANGED writerVars
            \/ Reset(w) /\ pc'[w] = "resetLock"
            \/ /\ pc'[w] = "read"
               /\ \E s \in sync[w].todo :
                    \/ Backfill(w) /\ call'[w] = LegacyRequest(w, s)
                    \/ WriteDelta(w) /\ call'[w] = DeltaRequest(w, s)
                    \/ FlushRow(w) /\ call'[w] = FlushRequest(s)
<1>0. TypeOK /\ (AtRest(w) => pc[w] = "idle")
  BY DEF LogSyncInv, WriterInv, AtRest, ReadsCurrent
<1>1. CASE ListLegacy(w) \/ Offsets(w) \/ Fetch(w) \/ Poll(w) \/ ListRows(w)
  <2>1. UNCHANGED writerVars /\ AtRest(w)
    BY <1>1 DEF ListLegacy, Offsets, Fetch, Poll, ListRows, At
  <2> QED
    BY <1>0, <2>1 DEF writerVars, dbVars, frameVars
<1>2. ASSUME NEW r, BeginAppend(w, r)
      PROVE  /\ pc[w] = "idle" /\ rows' = rows /\ mark' = mark
             /\ pc'[w] = "read" /\ call'[w] = r
  BY <1>0, <1>2 DEF BeginAppend, TypeOK, dbVars
<1>3. CASE Backfill(w)
  <2>1. PICK s \in sync[w].todo : BeginAppend(w, LegacyRequest(w, s))
    BY <1>3 DEF Backfill
  <2> QED
    BY <1>2, <1>3, <2>1
<1>4. CASE WriteDelta(w)
  <2>1. PICK s \in sync[w].todo : BeginAppend(w, DeltaRequest(w, s))
    BY <1>4 DEF WriteDelta
  <2> QED
    BY <1>2, <1>4, <2>1
<1>5. CASE FlushRow(w)
  <2>1. PICK s \in sync[w].todo : BeginAppend(w, FlushRequest(s))
    BY <1>5 DEF FlushRow
  <2> QED
    BY <1>2, <1>5, <2>1
<1>6. CASE Reset(w)
  BY <1>0, <1>6 DEF Reset, BeginReset, TypeOK, dbVars
<1> QED
  BY <1>1, <1>3, <1>4, <1>5, <1>6

LEMMA SessionEndsStep ==
  ASSUME LogSyncInv, NEW w \in Writers, StartSync(w) \/ SyncStep(w) \/ AbortSync(w),
         ReadsCurrent(w), SessionAlone(w), FrameEnds(sync[w]), HistoryEnds, SessionEnds(w)
  PROVE  HistoryEnds' /\ SessionEnds(w)'
<1> SUFFICES ASSUME NEW f, f = sync[w], NEW g, g = sync'[w]
             PROVE  HistoryEnds' /\ SessionEnds(w)'
  OBVIOUS
<1>0. FramesOK
  BY InvParts
<1>1. CASE StartSync(w) \/ AbortSync(w)
  <2>1. /\ pc'[w] = "idle" /\ UNCHANGED <<nomadVars, historyVars>>
        /\ g.result = "RUNNING" /\ g.polls = 0 /\ g.final = FALSE
        /\ g.step = "idle" \/ status = "RUNNING"
    <3>1. pc'[w] = "idle" /\ UNCHANGED <<nomadVars, historyVars>>
      BY <1>1 DEF StartSync, AbortSync, Return, Untouched, LogSyncInv, WriterInv, TypeOK
    <3>2. CASE StartSync(w)
      BY <1>0, <3>1, <3>2, StartGoes
    <3>3. CASE AbortSync(w)
      BY <1>0, <3>1, <3>3, EndGoes DEF NoFrame
    <3> QED
      BY <1>1, <3>2, <3>3
  <2> QED
    BY <2>1 DEF HistoryEnds, SessionEnds, Terminal, Draining, Resetting, Appending, nomadVars,
       historyVars
<1>2. CASE Save(w)
  <2>1. /\ g = NoFrame /\ UNCHANGED <<writerVars, nomadVars>> /\ AtRest(w)
        /\ tracked' = IF f.alloc = NoAlloc THEN f.prev ELSE f.alloc
        /\ status' = f.result
    <3>1. g = NoFrame
      BY <1>0, <1>2, EndGoes
    <3> QED
      BY <1>2, <3>1 DEF Save, At
  <2>2. pc'[w] = "idle" /\ dead' = dead
    BY <2>1 DEF AtRest, ReadsCurrent, writerVars, frameVars, nomadVars
  <2>3. SessionEnds(w)'
    BY <2>1, <2>2 DEF SessionEnds, NoFrame, Terminal, Draining, Resetting, Appending
  <2>4. HistoryEnds'
    BY <2>1, <2>2 DEF HistoryEnds, SessionEnds, Terminal, FrameEnds
  <2> QED
    BY <2>3, <2>4
<1>3. CASE Resolve(w) \/ ResolveNothing(w)
  <2>1. /\ pc'[w] = "idle" /\ UNCHANGED <<nomadVars, historyVars>>
        /\ f.step = "resolve"
    BY <1>3 DEF Resolve, ResolveNothing, Untouched, At, AtRest, ReadsCurrent, writerVars,
       frameVars
  <2>2. g.result # "RUNNING" => dead
    BY <1>0, <1>3, ResolveGoes, ResolveNothingGoes
  <2> QED
    BY <2>1, <2>2 DEF HistoryEnds, SessionEnds, Terminal, Draining, Resetting, Appending,
       nomadVars, historyVars
<1>4. CASE \/ ListLegacy(w) \/ Backfill(w) \/ Reset(w) \/ Offsets(w) \/ Fetch(w)
           \/ Poll(w) \/ WriteDelta(w) \/ ListRows(w) \/ FlushRow(w)
  <2>1. g.result = f.result /\ f.step # "idle" /\ UNCHANGED <<nomadVars, historyVars>>
    BY <1>0, <1>4, ResultStays
  <2>2. Terminal(g) => Terminal(f)
    BY <2>1 DEF Terminal
  <2>3. Draining(g) => ~Resetting(w)'
    <3>1. CASE Reset(w)
      <4>1. /\ f.step = "reset" /\ Alike(f, g) /\ g.final = f.final
        BY <1>0, <3>1, ResetGoes DEF At
      <4>2. ~Draining(f)
        BY <4>1 DEF FrameEnds, Late
      <4> QED
        BY <4>1, <4>2 DEF Draining, Alike
    <3>2. CASE ~Reset(w)
      BY <1>4, <3>2, StepBegins DEF Resetting
    <3> QED
      BY <3>1, <3>2
  <2>4. Appending(w)' /\ Terminal(f) => call'[w].force
    <3>1. \/ pc'[w] \in {"idle", "resetLock"}
          \/ \E s : call'[w] \in {LegacyRequest(w, s), DeltaRequest(w, s), FlushRequest(s)}
      BY <1>4, StepBegins
    <3> QED
      BY <3>1 DEF Appending, LegacyRequest, DeltaRequest, FlushRequest
  <2> QED
    BY <2>1, <2>2, <2>3, <2>4 DEF HistoryEnds, SessionEnds, nomadVars, historyVars
<1>5. CASE InWriter(w)
  <2>1. /\ WriterStep(w) /\ UNCHANGED <<historyVars, sync, nomadVars>>
    BY <1>5 DEF InWriter
  <2>2. pc[w] # "idle" /\ (pc'[w] = "idle" \/ GoesOnReading(w))
    BY <2>1, AloneSession
  <2>3. /\ Resetting(w)' => Resetting(w)
        /\ Appending(w)' => Appending(w) /\ call' = call
    BY <2>2 DEF GoesOnReading, Resetting, Appending
  <2> QED
    BY <2>1, <2>2, <2>3 DEF HistoryEnds, SessionEnds, nomadVars, historyVars
<1>6. CASE Raise(w)
  BY <1>6 DEF Raise, ReadsCurrent
<1> QED
  BY <1>1, <1>2, <1>3, <1>4, <1>5, <1>6 DEF SyncStep

(* The mark is not beyond the allocation a sync appends for.                  *)
MarkBelongs(w) ==
  /\ mark \in Epochs \cup {NoAlloc}
  /\ (\E e \in Epochs : Epochs = {e}) \/ mark <= Known(w)

LEMMA PastReset ==
  ASSUME LogSyncInv, NEW w \in Writers, SyncStep(w), ~Save(w), ReadsCurrent(w),
         SessionAlone(w), SyncKnows(w), sync[w].step # "idle", ~BeforeReset(w)
  PROVE  ~BeforeReset(w)' /\ sync'[w].alloc = sync[w].alloc
<1> SUFFICES ASSUME NEW f, f = sync[w], NEW g, g = sync'[w]
             PROVE  ~BeforeReset(w)' /\ g.alloc = f.alloc
  OBVIOUS
<1>0. FramesOK
  BY InvParts
<1>1. /\ f.alloc # NoAlloc /\ ~Resetting(w)
      /\ f.step \notin {"idle", "resolve", "migrate", "backfill", "reset"}
  BY DEF BeforeReset, SyncKnows
<1>2. CASE Offsets(w) \/ Fetch(w) \/ Poll(w) \/ WriteDelta(w) \/ ListRows(w) \/ FlushRow(w)
  <2>1. g.alloc = f.alloc /\ g.step \in Late
    BY <1>0, <1>2, LateGoes
  <2>2. ~Reset(w)
    BY <1>1 DEF Reset, At
  <2>3. ~Resetting(w)'
    BY <1>2, <2>2, StepBegins DEF Resetting
  <2> QED
    BY <1>1, <2>1, <2>3 DEF BeforeReset, Late
<1>3. CASE InWriter(w)
  <2>1. WriterStep(w) /\ sync' = sync
    BY <1>3 DEF InWriter
  <2>2. pc'[w] = "idle" \/ GoesOnReading(w)
    BY <2>1, AloneSession
  <2>3. ~Resetting(w)'
    BY <1>1, <2>2 DEF GoesOnReading, Resetting
  <2> QED
    BY <2>1, <2>3, <1>1 DEF BeforeReset
<1>4. ~(Resolve(w) \/ ResolveNothing(w) \/ ListLegacy(w) \/ Backfill(w) \/ Reset(w))
  BY <1>1 DEF Resolve, ResolveNothing, ListLegacy, Backfill, Reset, At
<1>5. ~Raise(w)
  BY DEF Raise, ReadsCurrent
<1> QED
  BY <1>2, <1>3, <1>4, <1>5 DEF SyncStep

LEMMA KnownGrows ==
  ASSUME LogSyncInv, LogSyncInv', NEW w \in Writers, StartSync(w) \/ SyncStep(w),
         ReadsCurrent(w), SessionAlone(w), SyncKnows(w), SyncKnows(w)'
  PROVE  Known(w) <= Known(w)'
<1> SUFFICES ASSUME NEW f, f = sync[w], NEW g, g = sync'[w]
             PROVE  Known(w) <= Known(w)'
  OBVIOUS
<1>0. /\ FramesOK /\ tracked \in Nat
      /\ f.alloc \in Nat /\ f.prev \in Nat /\ g.alloc \in Nat /\ g.prev \in Nat
  <2>1. FramesOK /\ HistoryOK
    BY InvParts
  <2>2. Epochs \cup {NoAlloc} \subseteq Nat
    BY EpochsAssumption DEF NoAlloc
  <2>3. FramesOK'
    BY InvPartsNext
  <2>4. sync[w] \in Frame /\ sync'[w] \in Frame
    BY <2>1, <2>3 DEF FramesOK
  <2> QED
    BY <2>1, <2>2, <2>4 DEF Frame, HistoryOK
<1>1. CASE StartSync(w)
  <2>1. f.step = "idle" /\ g.step = "resolve" /\ g.prev = tracked /\ g.alloc = NoAlloc
    BY <1>0, <1>1, StartGoes
  <2> QED
    BY <1>0, <2>1 DEF Known, BeforeReset
<1>2. CASE Save(w)
  <2>1. g = NoFrame
    BY <1>0, <1>2, EndGoes
  <2>2. /\ f.step = "save" /\ AtRest(w)
        /\ tracked' = IF f.alloc = NoAlloc THEN f.prev ELSE f.alloc
    BY <1>2 DEF Save, At
  <2> QED
    BY <1>0, <2>1, <2>2 DEF Known, BeforeReset, Resetting, AtRest, NoFrame
<1>3. CASE SyncStep(w) /\ ~Save(w)
  <2>1. f.step # "idle"
    <3>1. InWriter(w) => pc[w] # "idle"
      BY AloneSession DEF InWriter
    <3>2. InWriter(w) => f.step # "idle"
      BY <3>1 DEF SessionAlone
    <3> QED
      BY <1>3, <3>2 DEF SyncStep, Resolve, ResolveNothing, ListLegacy, Backfill, Reset,
         Offsets, Fetch, Poll, WriteDelta, ListRows, FlushRow, Raise, At
  <2>2. g.step # "idle" /\ tracked' = tracked
    <3>1. CASE Resolve(w) \/ ResolveNothing(w)
      <4>1. g.step # "idle"
        BY <1>0, <3>1, ResolveGoes, ResolveNothingGoes DEF MigratedTo
      <4> QED
        BY <3>1, <4>1 DEF Resolve, ResolveNothing, Untouched, historyVars
    <3>2. CASE ListLegacy(w) \/ Backfill(w)
      <4>1. (g.step = "backfill" \/ MigratedTo(f, g)) /\ UNCHANGED historyVars
        BY <1>0, <3>2, EarlyGoes
      <4> QED
        BY <4>1 DEF MigratedTo, historyVars
    <3>3. CASE Reset(w)
      <4>1. g.step = "offsets"
        BY <1>0, <3>3, ResetGoes
      <4> QED
        BY <3>3, <4>1 DEF Reset, Untouched, historyVars
    <3>4. CASE Offsets(w) \/ Fetch(w) \/ Poll(w) \/ WriteDelta(w) \/ ListRows(w)
               \/ FlushRow(w)
      <4>1. g.step \in Late /\ UNCHANGED historyVars
        BY <1>0, <3>4, LateGoes
      <4> QED
        BY <4>1 DEF Late, historyVars
    <3>5. CASE InWriter(w)
      BY <2>1, <3>5 DEF InWriter, historyVars
    <3>6. ~Raise(w)
      BY DEF Raise, ReadsCurrent
    <3> QED
      BY <1>3, <3>1, <3>2, <3>3, <3>4, <3>5, <3>6 DEF SyncStep
  <2>3. f.prev = tracked /\ g.prev = tracked /\ (g.alloc # NoAlloc => g.prev <= g.alloc)
    BY <2>1, <2>2 DEF SyncKnows
  <2>4. CASE BeforeReset(w)
    <3>1. Known(w) = f.prev
      BY <2>1, <2>4 DEF Known
    <3>2. Known(w)' = g.prev \/ (Known(w)' = g.alloc /\ g.alloc # NoAlloc)
      BY <2>2 DEF Known, BeforeReset
    <3> QED
      BY <1>0, <2>3, <3>1, <3>2
  <2>5. CASE ~BeforeReset(w)
    <3>1. ~BeforeReset(w)' /\ g.alloc = f.alloc
      BY <1>3, <2>1, <2>5, PastReset
    <3>2. Known(w) = f.alloc /\ Known(w)' = g.alloc
      BY <2>1, <2>2, <2>5, <3>1 DEF Known
    <3> QED
      BY <1>0, <3>1, <3>2
  <2> QED
    BY <2>4, <2>5
<1> QED
  BY <1>1, <1>2, <1>3 DEF SyncStep

LEMMA MarkBelongsStep ==
  ASSUME LogSyncInv, LogSyncInv', NEW w \in Writers,
         StartSync(w) \/ SyncStep(w) \/ AbortSync(w),
         AbortSync(w) => \E e \in Epochs : Epochs = {e},
         ReadsCurrent(w), SessionAlone(w), SyncKnows(w), SyncKnows(w)', MarkBelongs(w)
  PROVE  MarkBelongs(w)'
<1> DEFINE f == sync[w]
<1>0. /\ FramesOK /\ TypeOK /\ f.alloc \in Epochs \cup {NoAlloc}
      /\ Epochs \cup {NoAlloc} \subseteq Nat /\ tracked' \in Nat
      /\ sync'[w].alloc \in Nat /\ sync'[w].prev \in Nat
  <2>1. FramesOK /\ WriterInv
    BY InvParts
  <2>2. FramesOK' /\ HistoryOK'
    BY InvPartsNext
  <2>3. Epochs \cup {NoAlloc} \subseteq Nat
    BY EpochsAssumption DEF NoAlloc
  <2>4. sync[w] \in Frame /\ sync'[w] \in Frame
    BY <2>1, <2>2 DEF FramesOK
  <2> QED
    BY <2>1, <2>2, <2>3, <2>4 DEF WriterInv, Frame, HistoryOK
<1>1. CASE ResetWrite(w) /\ InWriter(w)
  <2>1. /\ pc[w] = "resetWrite" /\ pc'[w] = "idle" /\ sync' = sync
        /\ mark' = IF mark < target[w] THEN target[w] ELSE mark
    BY <1>0, <1>1 DEF ResetWrite, InWriter, Return, TypeOK
  <2>2. f.step = "offsets" /\ target[w] = f.alloc
    BY <2>1 DEF SessionAlone, Resetting
  <2>3. f.alloc \in Epochs
    BY <1>0, <2>2 DEF FramesOK, FrameOK
  <2>4. Known(w)' = f.alloc
    <3>1. f.alloc # NoAlloc
      BY <1>0, <2>2 DEF FramesOK, FrameOK
    <3> QED
      BY <2>1, <2>2, <3>1 DEF Known, BeforeReset, Resetting
  <2>5. mark' \in Epochs \cup {NoAlloc}
    BY <2>1, <2>2, <2>3 DEF MarkBelongs
  <2>6. CASE \E e \in Epochs : Epochs = {e}
    BY <2>5, <2>6 DEF MarkBelongs
  <2>7. CASE ~\E e \in Epochs : Epochs = {e}
    <3>1. mark <= Known(w) /\ mark \in Nat
      BY <1>0, <2>7 DEF MarkBelongs
    <3>2. Known(w) <= Known(w)' /\ Known(w) \in Nat
      <4>1. StartSync(w) \/ SyncStep(w)
        BY <2>7
      <4>2. Known(w) <= Known(w)'
        BY <4>1, KnownGrows
      <4>3. Known(w) \in Nat
        <5>1. f.prev \in Nat /\ f.alloc \in Nat /\ tracked \in Nat
          BY <1>0, InvParts DEF FramesOK, Frame, HistoryOK
        <5> QED
          BY <5>1 DEF Known
      <4> QED
        BY <4>2, <4>3
    <3>3. f.alloc \in Nat
      BY <1>0
    <3>4. mark' <= Known(w)'
      BY <2>1, <2>2, <2>4, <3>1, <3>2, <3>3
    <3> QED
      BY <2>5, <3>4 DEF MarkBelongs
  <2> QED
    BY <2>6, <2>7
<1>2. CASE ~(ResetWrite(w) /\ InWriter(w))
  <2>1. mark' = mark
    <3>1. CASE InWriter(w)
      BY <1>2, <3>1 DEF InWriter, WriterStep, ReadRow, LockFirstInsert, WriteRow, LoseRace,
         ResetLock, ResetList, LoseDrain, dbVars
    <3>2. CASE StartSync(w) \/ AbortSync(w)
      BY <3>2 DEF StartSync, AbortSync, dbVars
    <3>3. CASE Resolve(w) \/ ResolveNothing(w) \/ Save(w)
      BY <3>3 DEF Resolve, ResolveNothing, Save, writerVars, dbVars
    <3>4. CASE \/ ListLegacy(w) \/ Backfill(w) \/ Reset(w) \/ Offsets(w) \/ Fetch(w)
               \/ Poll(w) \/ WriteDelta(w) \/ ListRows(w) \/ FlushRow(w)
      BY <3>4, StepBegins
    <3>5. ~Raise(w)
      BY DEF Raise, ReadsCurrent
    <3> QED
      BY <3>1, <3>2, <3>3, <3>4, <3>5 DEF SyncStep
  <2>2. CASE \E e \in Epochs : Epochs = {e}
    BY <2>1, <2>2 DEF MarkBelongs
  <2>3. CASE ~\E e \in Epochs : Epochs = {e}
    <3>1. mark <= Known(w) /\ mark \in Nat
      BY <1>0, <2>3 DEF MarkBelongs
    <3>2. Known(w) <= Known(w)'
      BY <2>3, KnownGrows
    <3>3. Known(w) \in Nat /\ Known(w)' \in Nat
      <4>1. f.prev \in Nat /\ f.alloc \in Nat /\ tracked \in Nat
        BY <1>0, InvParts DEF FramesOK, Frame, HistoryOK
      <4>2. Known(w) \in Nat
        BY <4>1 DEF Known
      <4>3. Known(w)' \in Nat
        BY <1>0 DEF Known
      <4> QED
        BY <4>2, <4>3
    <3>4. mark' <= Known(w)'
      BY <2>1, <3>1, <3>2, <3>3
    <3> QED
      BY <2>1, <3>4 DEF MarkBelongs
  <2> QED
    BY <2>2, <2>3
<1> QED
  BY <1>1, <1>2

(* A call that flushes is not answered before it has written: nothing newer    *)
(* than its allocation stands in the row or in the mark, and no other session   *)
(* moves the version.                                                        *)
LEMMA ForcedCallWrites ==
  ASSUME LogSyncInv, NEW w \in Writers, InWriter(w), Terminal(sync[w]), ~Resetting(w),
         ReadsCurrent(w), SessionAlone(w), CallAlone(w), SessionEnds(w), MarkBelongs(w)
  PROVE  /\ Appending(w)
         /\ \/ rows' = rows /\ call' = call /\ Appending(w)'
            \/ WriteRow(w) /\ pc'[w] = "idle"
<1> DEFINE r == call[w]
           t == r.stream
<1>0. /\ TypeOK /\ WriterInv /\ WriterStep(w) /\ t \in Streams
      /\ Epochs \cup {NoAlloc} \subseteq Nat /\ mark \in Nat
      /\ sync[w].alloc \in Nat /\ sync[w].prev \in Nat /\ tracked \in Nat
  <2>1. TypeOK /\ WriterInv /\ FramesOK /\ HistoryOK
    BY InvParts DEF WriterInv
  <2>2. Epochs \cup {NoAlloc} \subseteq Nat
    BY EpochsAssumption DEF NoAlloc
  <2> QED
    BY <2>1, <2>2, CallIsRequest DEF InWriter, Request, FramesOK, Frame, HistoryOK, TypeOK
<1>1. pc[w] # "idle" /\ (pc'[w] = "idle" \/ GoesOnReading(w))
  BY <1>0, AloneSession
<1>2. Appending(w)
  BY <1>0, <1>1 DEF TypeOK, Places, ReadsCurrent, Resetting, Appending
<1>3. r.force /\ CallMatches(w, r, rows[t])
  BY <1>0, <1>2 DEF SessionEnds, CallAlone
<1>4. r.epoch # None => /\ rows[t].epoch <= r.epoch /\ r.epoch \in Nat
                        /\ mark <= r.epoch
  <2> SUFFICES ASSUME r.epoch # None
               PROVE  rows[t].epoch <= r.epoch /\ r.epoch \in Nat /\ mark <= r.epoch
    OBVIOUS
  <2>1. IsDelta(r, rows[t]) /\ r.epoch = sync[w].alloc /\ ~BeforeReset(w)
    BY <1>3 DEF CallMatches, IsFlush, IsLegacy
  <2>2. r.epoch \in Epochs /\ rows[t].epoch \in {NoAlloc, r.epoch}
    BY <2>1 DEF IsDelta
  <2>3. r.epoch \in Nat /\ rows[t].epoch <= r.epoch
    BY <1>0, <2>2 DEF NoAlloc
  <2>4. mark <= r.epoch
    <3>1. CASE \E e \in Epochs : Epochs = {e}
      <4>1. mark = r.epoch \/ mark = 0
        BY <2>2, <3>1 DEF MarkBelongs, NoAlloc
      <4> QED
        BY <2>3, <4>1
    <3>2. CASE ~\E e \in Epochs : Epochs = {e}
      <4>1. sync[w].step # "idle"
        BY <1>1 DEF SessionAlone
      <4> QED
        BY <2>1, <3>2, <4>1 DEF MarkBelongs, Known
    <3> QED
      BY <3>1, <3>2
  <2> QED
    BY <2>3, <2>4
<1>5. rows[t].epoch \in Nat
  BY <1>0 DEF TypeOK, Row
<1>6. ~NothingToDo(rows[t], r) /\ ~NothingToDo(seen[w][t], r)
  BY <1>3 DEF NothingToDo
<1>7. CASE ReadRow(w)
  <2>1. /\ UNCHANGED dbVars
        /\ \/ GoTo(w, "lock")
           \/ r.epoch # None /\ r.epoch < rows[t].epoch
           \/ NothingToDo(rows[t], r)
           \/ GoTo(w, "write")
    BY <1>7 DEF ReadRow
  <2>2. ~(r.epoch # None /\ r.epoch < rows[t].epoch)
    BY <1>4, <1>5
  <2>3. GoTo(w, "lock") \/ GoTo(w, "write")
    BY <1>6, <2>1, <2>2
  <2>4. rows' = rows /\ call' = call /\ pc'[w] \in {"lock", "write"}
    BY <1>0, <2>1, <2>3 DEF GoTo, TypeOK, dbVars
  <2> QED
    BY <1>2, <2>4 DEF Appending
<1>8. CASE LockFirstInsert(w)
  <2>1. pc[w] = "lock" /\ r.epoch # None
    BY <1>0, <1>8 DEF LockFirstInsert, WriterInv, WaitersInsert
  <2>2. ~(r.epoch < mark)
    BY <1>0, <1>4, <2>1
  <2>3. rows' = rows /\ GoTo(w, "write")
    BY <1>6, <1>8, <2>2 DEF LockFirstInsert
  <2>4. call' = call /\ pc'[w] = "write"
    BY <1>0, <2>3 DEF GoTo, TypeOK
  <2> QED
    BY <1>2, <2>3, <2>4 DEF Appending
<1>9. CASE WriteRow(w)
  <2>1. pc'[w] = "idle"
    BY <1>0, <1>9 DEF WriteRow, Return, TypeOK
  <2> QED
    BY <1>2, <1>9, <2>1
<1>10. ~LoseRace(w)
  BY <1>0 DEF LoseRace, StillCurrent, ReadsCurrent, HasRead
<1>11. ~(ResetLock(w) \/ ResetList(w) \/ ResetWrite(w) \/ LoseDrain(w))
  BY DEF ResetLock, ResetList, ResetWrite, LoseDrain, Resetting
<1> QED
  BY <1>0, <1>7, <1>8, <1>9, <1>10, <1>11 DEF WriterStep

(* The final flush leaves no staging buffer behind.                           *)
Flushed(w) ==
  LET f == sync[w] IN
  f.result = "DONE" /\ f.step \in {"flush", "save"} =>
    \A s \in Streams : \/ rows[s].staging = <<>>
                       \/ f.step = "flush" /\ s \in f.todo
                       \/ Appending(w) /\ call[w].stream = s

LEMMA FlushedStep ==
  ASSUME LogSyncInv, NEW w \in Writers, StartSync(w) \/ SyncStep(w) \/ AbortSync(w),
         ReadsCurrent(w), SessionAlone(w), CallAlone(w), FrameEnds(sync[w]),
         SessionEnds(w), MarkBelongs(w), Flushed(w)
  PROVE  Flushed(w)'
<1> SUFFICES ASSUME NEW f, f = sync[w], NEW g, g = sync'[w],
                    g.result = "DONE", g.step \in {"flush", "save"}, NEW s \in Streams
             PROVE  \/ rows'[s].staging = <<>>
                    \/ g.step = "flush" /\ s \in g.todo
                    \/ Appending(w)' /\ call'[w].stream = s
  BY DEF Flushed
<1>0. FramesOK /\ TypeOK /\ WriterInv
  BY InvParts DEF WriterInv
<1>1. CASE StartSync(w) \/ AbortSync(w) \/ Save(w)
  <2>1. StartSync(w) => g.result = "RUNNING"
    BY <1>0, StartGoes
  <2>2. AbortSync(w) \/ Save(w) => g = NoFrame
    BY <1>0, EndGoes
  <2> QED
    BY <1>1, <2>1, <2>2 DEF NoFrame
<1>2. CASE Resolve(w) \/ ResolveNothing(w)
  <2>1. Resolve(w) => g.step \notin {"flush", "save"}
    <3>1. Resolve(w) => g.step = "migrate" \/ MigratedTo(g, g)
      BY <1>0, ResolveGoes
    <3> QED
      BY <3>1 DEF MigratedTo
  <2>2. ResolveNothing(w) => g.result # "DONE"
    BY <1>0, ResolveNothingGoes
  <2> QED
    BY <1>2, <2>1, <2>2
<1>3. CASE ListLegacy(w) \/ Backfill(w) \/ Reset(w) \/ Offsets(w) \/ Poll(w)
  <2>1. g.step \notin {"flush", "save"}
    <3>1. CASE ListLegacy(w) \/ Backfill(w)
      <4>1. g.step = "backfill" \/ MigratedTo(f, g)
        BY <1>0, <3>1, EarlyGoes
      <4> QED
        BY <4>1 DEF MigratedTo
    <3>2. CASE Reset(w) \/ Offsets(w) \/ Poll(w)
      BY <1>0, <3>2, ResetGoes, OffsetsGoes, PollGoes
    <3> QED
      BY <1>3, <3>1, <3>2
  <2> QED
    BY <2>1
<1>4. CASE Fetch(w) \/ WriteDelta(w)
  <2>1. g.result = f.result
    BY <1>0, <1>4, ResultStays
  <2>2. WrittenTo(f, g) \/ DrainedTo(f, g) \/ g.step = "write"
    <3>1. Fetch(w) => \E ok \in SUBSET Streams : Fetched(f, g, ok)
      BY <1>0, FetchGoes
    <3>2. WriteDelta(w) => WrittenTo(f, g) \/ g.step = "write"
      BY <1>0, WriteDeltaGoes
    <3> QED
      BY <1>4, <3>1, <3>2 DEF Fetched
  <2> QED
    BY <2>1, <2>2 DEF WrittenTo, DrainedTo, Terminal
<1>5. CASE ListRows(w)
  <2>1. /\ g.todo = { t \in Streams : ~IsNew(rows[t]) }
        /\ \/ g.todo = {} /\ g.step = "save"
           \/ g.step = "flush"
    BY <1>0, <1>5, ListRowsGoes
  <2>2. rows' = rows
    BY <1>5 DEF ListRows, writerVars, dbVars
  <2>3. CASE IsNew(rows[s])
    <3>1. rows[s] = DefaultRow
      BY <1>0, <2>3 DEF WriterInv, MissingRowsAreDefault
    <3> QED
      BY <2>2, <3>1 DEF DefaultRow
  <2>4. CASE ~IsNew(rows[s])
    BY <2>1, <2>4
  <2> QED
    BY <2>3, <2>4
<1>6. CASE FlushRow(w)
  <2>1. PICK t \in f.todo : /\ BeginAppend(w, FlushRequest(t)) /\ g.todo = f.todo \ {t}
                            /\ \/ g.todo # {} /\ g.step = "flush"
                               \/ g.todo = {} /\ g.step = "save"
    BY <1>0, <1>6, FlushRowGoes
  <2>2. f.step = "flush" /\ f.result = "DONE"
    BY <1>0, <1>6, ResultStays DEF FlushRow, At
  <2>3. pc'[w] = "read" /\ call'[w] = FlushRequest(t) /\ rows' = rows /\ pc[w] = "idle"
    BY <1>0, <2>1 DEF BeginAppend, TypeOK, dbVars, AtRest, ReadsCurrent
  <2>4. Appending(w)' /\ call'[w].stream = t /\ ~Appending(w)
    BY <2>3 DEF Appending, FlushRequest
  <2>5. rows[s].staging = <<>> \/ s \in f.todo
    BY <2>2, <2>4 DEF Flushed
  <2>6. CASE s = t
    BY <2>4, <2>6
  <2>7. CASE s # t
    BY <2>1, <2>3, <2>5, <2>7
  <2> QED
    BY <2>6, <2>7
<1>7. CASE InWriter(w)
  <2>1. g = f /\ f.result = "DONE" /\ f.step \in {"flush", "save"}
    BY <1>7 DEF InWriter
  <2>2. Terminal(f) /\ ~Resetting(w)
    BY <2>1 DEF Terminal, FrameEnds, SessionEnds
  <2>3. /\ Appending(w)
        /\ \/ rows' = rows /\ call' = call /\ Appending(w)'
           \/ WriteRow(w) /\ pc'[w] = "idle"
    BY <1>7, <2>2, ForcedCallWrites
  <2>4. \/ rows[s].staging = <<>>
        \/ f.step = "flush" /\ s \in f.todo
        \/ call[w].stream = s
    BY <2>1 DEF Flushed
  <2>5. CASE rows' = rows /\ call' = call /\ Appending(w)'
    BY <2>1, <2>4, <2>5
  <2>6. CASE WriteRow(w)
    <3>1. PICK t \in Streams, r \in Request :
            t = r.stream /\ r = call[w] /\ WriteEffect(w, t, r)
      BY <1>0, <2>6, WritePlaces
    <3>2. r.force
      BY <2>2, <2>3, <3>1 DEF SessionEnds
    <3>3. rows'[t].staging = <<>> /\ (s # t => rows'[s] = rows[s])
      BY <3>1, <3>2 DEF WriteEffect
    <3> QED
      BY <2>1, <2>4, <3>1, <3>3
  <2> QED
    BY <2>3, <2>5, <2>6
<1>8. ~Raise(w)
  BY DEF Raise, ReadsCurrent
<1> QED
  BY <1>1, <1>2, <1>3, <1>4, <1>5, <1>6, <1>7, <1>8 DEF SyncStep

(* The bytes of the allocation a stream holds, or is about to.                *)
Stored(w, s) ==
  LET e == sync[w].alloc IN
  \/ written[e][s] = 0
  \/ rows[s].epoch = e /\ written[e][s] <= rows[s].nomad
AboutToStore(w, s) ==
  LET f == sync[w] IN
  \/ f.step = "write" /\ s \in f.todo /\ written[f.alloc][s] <= f.delta[s].to
  \/ /\ Appending(w) /\ call[w].stream = s /\ call[w].epoch = f.alloc
     /\ written[f.alloc][s] <= call[w].nomadAfter
Caught(w, s) == Stored(w, s) \/ AboutToStore(w, s)

(* Every poll that leaves a stream behind cost a refused request, or came before *)
(* the last moment for that stream to begin.                                  *)
Polled(f) == IF f.step \in {"offsets", "fetch"} THEN f.polls - 1 ELSE f.polls
PollsLeft(f) == Polled(f) + MaxFetchErrors < DrainAttempts + refused

DrainGoesOn(w) ==
  LET f == sync[w] IN
  Draining(f) /\ Anonymized = {} =>
    \A s \in Streams : Caught(w, s) \/ (s \notin f.advanced /\ PollsLeft(f))
DrainHasRead(w) ==
  LET f == sync[w] IN
  Draining(f) /\ (f.step \in {"list", "flush", "save"} \/ (f.final /\ f.step = "write")) =>
    \A s \in Streams : Caught(w, s)
DrainReads(w) == ~Purged => DrainGoesOn(w) /\ DrainHasRead(w)

LEMMA DrainKnows ==
  ASSUME LogSyncInv, NEW w \in Writers, NEW f, f = sync[w], Draining(f), FrameEnds(f),
         SessionEnds(w)
  PROVE  /\ f.result = "DONE" /\ Terminal(f) /\ f.step \in Late
         /\ f.alloc # NoAlloc /\ f.alloc \in Epochs
         /\ ~Resetting(w) /\ ~BeforeReset(w) /\ dead
<1>1. f.result = "DONE" /\ f.step \in Late /\ f.alloc # NoAlloc
  BY DEF FrameEnds
<1>2. Terminal(f) /\ ~Resetting(w) /\ dead
  BY <1>1 DEF Terminal, SessionEnds
<1>3. f.alloc \in Epochs
  BY <1>1, InvParts DEF FramesOK, Frame
<1>4. ~BeforeReset(w)
  BY <1>1, <1>2 DEF BeforeReset, Late
<1> QED
  BY <1>1, <1>2, <1>3, <1>4

LEMMA StreamNumbers ==
  ASSUME LogSyncInv, NEW w \in Writers, NEW s \in Streams, sync[w].alloc \in Epochs
  PROVE  /\ rows[s].nomad \in Nat /\ rows[s].epoch \in Nat
         /\ written[sync[w].alloc][s] \in Nat
         /\ sync[w].delta[s].nomad \in Nat /\ sync[w].delta[s].to \in Nat
<1>1. TypeOK /\ FramesOK /\ NomadOK
  BY InvParts DEF WriterInv
<1>2. rows[s].nomad \in Nat /\ rows[s].epoch \in Nat
  BY <1>1 DEF TypeOK, Row
<1>3. written[sync[w].alloc][s] \in Nat
  BY <1>1, SyncAssumption DEF NomadOK
<1>4. sync[w].delta[s] \in Delta
  BY <1>1 DEF FramesOK, Frame
<1> QED
  BY <1>2, <1>3, <1>4, SyncAssumption DEF Delta

(* A step of the writer loses nothing of what a draining sync has caught.      *)
LEMMA WriterKeepsCaught ==
  ASSUME LogSyncInv, NEW w \in Writers, InWriter(w), Draining(sync[w]),
         ReadsCurrent(w), SessionAlone(w), CallAlone(w), FrameEnds(sync[w]),
         SessionEnds(w), MarkBelongs(w), NEW s \in Streams, Caught(w, s)
  PROVE  Caught(w, s)'
<1> SUFFICES ASSUME NEW f, f = sync[w], NEW n, n = written[f.alloc][s]
             PROVE  Caught(w, s)'
  OBVIOUS
<1>0. /\ TypeOK /\ WriterInv /\ n \in Nat /\ rows[s].nomad \in Nat
      /\ Terminal(f) /\ ~Resetting(w) /\ f.alloc \in Epochs
  BY DrainKnows, InvParts, StreamNumbers DEF WriterInv
<1>1. sync' = sync /\ written' = written
  BY DEF InWriter, nomadVars
<1>2. /\ Appending(w)
      /\ \/ rows' = rows /\ call' = call /\ Appending(w)'
         \/ WriteRow(w) /\ pc'[w] = "idle"
  BY <1>0, ForcedCallWrites
<1>3. CASE rows' = rows /\ call' = call /\ Appending(w)'
  BY <1>1, <1>2, <1>3 DEF Caught, Stored, AboutToStore
<1>4. CASE WriteRow(w)
  <2>1. PICK t \in Streams, r \in Request :
          t = r.stream /\ r = call[w] /\ WriteEffect(w, t, r)
    BY <1>0, <1>4, WritePlaces
  <2>2. /\ rows'[t].nomad = Kept(r.nomadAfter, rows[t].nomad)
        /\ rows'[t].epoch = Kept(r.epoch, rows[t].epoch)
        /\ s # t => rows'[s] = rows[s]
    BY <2>1 DEF WriteEffect
  <2>3. CallMatches(w, r, rows[t])
    BY <1>2, <2>1 DEF CallAlone
  <2>4. CASE n = 0 \/ (f.step = "write" /\ s \in f.todo /\ n <= f.delta[s].to)
    BY <1>1, <2>4 DEF Caught, Stored, AboutToStore
  <2>5. CASE rows[s].epoch = f.alloc /\ n <= rows[s].nomad
    <3>1. CASE s # t
      BY <1>1, <2>2, <2>5, <3>1 DEF Caught, Stored
    <3>2. CASE s = t
      <4>1. CASE IsFlush(r)
        <5>1. rows'[s].nomad = rows[s].nomad /\ rows'[s].epoch = rows[s].epoch
          BY <2>2, <3>2, <4>1 DEF IsFlush, Kept
        <5> QED
          BY <1>1, <2>5, <5>1 DEF Caught, Stored
      <4>2. CASE IsLegacy(r, rows[t])
        <5>1. rows[s] = DefaultRow
          BY <1>0, <3>2, <4>2 DEF IsLegacy, WriterInv, MissingRowsAreDefault
        <5> QED
          BY <1>0, <2>5, <5>1, EpochsAssumption DEF DefaultRow
      <4>3. CASE IsDelta(r, rows[t]) /\ r.epoch = f.alloc
        <5>1. /\ r.nomadAfter \in Nat /\ rows[s].nomad <= r.nomadAfter
              /\ r.epoch # None /\ r.nomadAfter # None
          BY <1>0, <3>2, <4>3, SyncAssumption, EpochsAssumption DEF IsDelta, None
        <5>2. rows'[s].nomad = r.nomadAfter /\ rows'[s].epoch = f.alloc
          BY <2>2, <3>2, <4>3, <5>1 DEF Kept
        <5>3. n <= rows'[s].nomad
          BY <1>0, <2>5, <5>1, <5>2
        <5> QED
          BY <1>1, <5>2, <5>3 DEF Caught, Stored
      <4> QED
        BY <2>3, <4>1, <4>2, <4>3 DEF CallMatches
    <3> QED
      BY <3>1, <3>2
  <2>6. CASE r.stream = s /\ r.epoch = f.alloc /\ n <= r.nomadAfter
    <3>1. r.epoch # None
      BY <1>0, <2>6, EpochsAssumption DEF None
    <3>2. IsDelta(r, rows[t])
      BY <2>3, <3>1 DEF CallMatches, IsFlush, IsLegacy
    <3>3. r.nomadAfter # None
      BY <3>2 DEF IsDelta, None
    <3>4. rows'[s].nomad = r.nomadAfter /\ rows'[s].epoch = f.alloc
      BY <2>1, <2>2, <2>6, <3>1, <3>3 DEF Kept
    <3> QED
      BY <1>1, <2>6, <3>4 DEF Caught, Stored
  <2> QED
    BY <2>1, <2>4, <2>5, <2>6 DEF Caught, Stored, AboutToStore
<1> QED
  BY <1>2, <1>3, <1>4

(* Nor does a step of the sync.                                              *)
LEMMA LateKeepsCaught ==
  ASSUME LogSyncInv, NEW w \in Writers, ReadsCurrent(w),
         Offsets(w) \/ Fetch(w) \/ Poll(w) \/ WriteDelta(w) \/ ListRows(w) \/ FlushRow(w),
         NEW s \in Streams, Caught(w, s)
  PROVE  Caught(w, s)'
<1> SUFFICES ASSUME NEW f, f = sync[w], NEW g, g = sync'[w]
             PROVE  Caught(w, s)'
  OBVIOUS
<1>0. FramesOK
  BY InvParts
<1>1. /\ g.alloc = f.alloc /\ written' = written /\ rows' = rows /\ pc[w] = "idle"
  <2>1. g.alloc = f.alloc /\ UNCHANGED nomadVars
    BY <1>0, LateGoes
  <2>2. rows' = rows /\ pc[w] = "idle"
    BY StepBegins
  <2> QED
    BY <2>1, <2>2 DEF nomadVars
<1>2. CASE Stored(w, s)
  BY <1>1, <1>2 DEF Caught, Stored
<1>3. CASE f.step = "write" /\ s \in f.todo /\ written[f.alloc][s] <= f.delta[s].to
  <2>1. WriteDelta(w)
    BY <1>3 DEF Offsets, Fetch, Poll, ListRows, FlushRow, At
  <2>2. PICK t \in f.todo :
          /\ BeginAppend(w, DeltaRequest(w, t))
          /\ g.todo = f.todo \ {t}
          /\ \/ g.todo # {} /\ g.step = "write" /\ g.final = f.final /\ g.delta = f.delta
             \/ g.todo = {} /\ WrittenTo(f, g) /\ g.delta = NoDelta
    BY <1>0, <2>1, WriteDeltaGoes
  <2>3. CASE s = t
    <3>1. call'[w] = DeltaRequest(w, s) /\ pc'[w] = "read"
      BY <2>2, <2>3 DEF BeginAppend, LogSyncInv, WriterInv, TypeOK
    <3>2. /\ call'[w].stream = s /\ call'[w].epoch = f.alloc
          /\ call'[w].nomadAfter = f.delta[s].to /\ Appending(w)'
      BY <3>1 DEF DeltaRequest, Appending
    <3> QED
      BY <1>1, <1>3, <3>2 DEF Caught, AboutToStore
  <2>4. CASE s # t
    <3>1. s \in g.todo /\ g.step = "write" /\ g.delta = f.delta
      BY <1>3, <2>2, <2>4
    <3> QED
      BY <1>1, <1>3, <3>1 DEF Caught, AboutToStore
  <2> QED
    BY <2>3, <2>4
<1>4. ~Appending(w)
  BY <1>1 DEF Appending
<1> QED
  BY <1>2, <1>3, <1>4 DEF Caught, AboutToStore

(* A fetch that reached a stream, and withheld nothing of it, has caught it.   *)
LEMMA FetchCatches ==
  ASSUME LogSyncInv, NEW w \in Writers, Fetch(w), NEW f, f = sync[w], NEW g, g = sync'[w],
         NEW ok \in SUBSET Streams, Fetched(f, g, ok), NEW s \in ok,
         s \notin Anonymized \/ f.final,
         Draining(f), FrameEnds(f), SessionEnds(w), StreamsAlone, ReadsCurrent(w),
         RowsBelong(w), FrameMatches(w)
  PROVE  Caught(w, s)'
<1> DEFINE from == f.delta[s].nomad
           n == written[f.alloc][s]
           to == g.delta[s].to
<1>0. /\ FramesOK /\ NomadOK /\ f.alloc \in Epochs /\ f.alloc # NoAlloc /\ Terminal(f)
      /\ ~BeforeReset(w) /\ f.delta[s] \in Delta /\ InStep(from, f.delta[s].producer)
  <2>1. FramesOK /\ NomadOK
    BY InvParts
  <2>2. f.alloc \in Epochs /\ f.alloc # NoAlloc /\ Terminal(f) /\ ~BeforeReset(w)
    BY DrainKnows
  <2> QED
    BY <2>1, <2>2 DEF FramesOK, FrameOK, Frame
<1>1. /\ f.step = "fetch" /\ g.alloc = f.alloc /\ written' = written /\ rows' = rows
  <2>1. At(w, "fetch") /\ g.alloc = f.alloc
    BY <1>0, FetchGoes
  <2> QED
    BY <2>1 DEF At, Fetch, writerVars, dbVars, nomadVars
<1>2. from \in 0 .. LogLength /\ n \in 0 .. LogLength /\ LogLength \in Nat
  BY <1>0, SyncAssumption DEF Delta, InStep, NomadOK
<1>3. to = Max({from, n})
  <2>1. to = Readable(f, s)
    BY <1>0 DEF Fetched, FetchedDelta, Delta
  <2> QED
    BY <2>1 DEF Readable
<1>4. n <= to
  <2>1. {from, n} \subseteq 0 .. LogLength
    BY <1>2
  <2> HIDE DEF from, n, to
  <2>2. \A y \in {from, n} : y <= Max({from, n})
    BY <1>2, <2>1, MaxIsGreatest
  <2> QED
    BY <1>3, <2>2
<1>5. CASE s \in g.todo
  <2>1. g.step = "write"
    BY <1>5 DEF Fetched
  <2> QED
    BY <1>1, <1>4, <1>5, <2>1 DEF Caught, AboutToStore
<1>6. CASE s \notin g.todo
  <2>1. s \notin Produced(g.delta)
    BY <1>0, <1>6 DEF Fetched, Due
  <2>2. g.delta[s].nomad = from
    <3>1. ASSUME NEW d, d = sync[w].delta[s], NEW x, x = sync'[w].delta[s]
          PROVE  x.nomad = d.nomad
      BY <1>0, <3>1, FetchKeepsCursor
    <3> QED
      BY <3>1
  <2>3. to \in Nat
    <3>1. {from, n} \subseteq 0 .. LogLength
      BY <1>2
    <3> HIDE DEF from, n, to
    <3>2. Max({from, n}) \in {from, n}
      BY <1>2, <3>1, MaxIsGreatest
    <3> QED
      BY <1>2, <1>3, <3>2
  <2>4. n <= from
    <3>1. ~(to > from)
      BY <2>1, <2>2 DEF Produced
    <3> HIDE DEF from, n, to
    <3> QED
      BY <1>2, <1>4, <2>3, <3>1
  <2>5. rows[s].nomad = from
    BY <1>1 DEF FrameMatches, Matches
  <2>6. rows[s].epoch \in {NoAlloc, f.alloc}
    BY <1>0, <1>1, OwnCursor
  <2>7. CASE rows[s].epoch = f.alloc
    BY <1>1, <2>4, <2>5, <2>7 DEF Caught, Stored
  <2>8. CASE rows[s].epoch = NoAlloc
    <3>1. rows[s].nomad = 0
      BY <2>8 DEF StreamsAlone, StreamAlone
    <3>2. n = 0
      <4> HIDE DEF from, n
      <4> QED
        BY <1>2, <2>4, <2>5, <3>1
    <3> QED
      BY <1>1, <3>2 DEF Caught, Stored
  <2> QED
    BY <2>6, <2>7, <2>8
<1> QED
  BY <1>5, <1>6

LEMMA NotDraining ==
  ASSUME FramesOK, NEW w \in Writers, NEW f, f = sync[w], NEW g, g = sync'[w], FrameEnds(f),
         \/ StartSync(w) \/ AbortSync(w) \/ Save(w) \/ Resolve(w) \/ ResolveNothing(w)
         \/ ListLegacy(w) \/ Backfill(w) \/ Reset(w)
  PROVE  ~Draining(g)
<1>1. CASE StartSync(w)
  <2>1. g.polls = 0 /\ g.final = FALSE
    BY <1>1, StartGoes
  <2> QED
    BY <2>1 DEF Draining
<1>2. CASE AbortSync(w) \/ Save(w)
  BY <1>2, EndGoes DEF Draining, NoFrame
<1>3. ASSUME f.step \in {"resolve", "migrate", "backfill", "reset"}, g.polls = f.polls,
             g.final = f.final
      PROVE  ~Draining(g)
  BY <1>3 DEF FrameEnds, Draining, Late
<1>4. CASE Resolve(w) \/ ResolveNothing(w)
  <2>1. f.step = "resolve"
    BY <1>4 DEF Resolve, ResolveNothing, At
  <2>2. g.polls = f.polls /\ g.final = f.final
    BY <1>4, ResolveGoes, ResolveNothingGoes
  <2> QED
    BY <1>3, <2>1, <2>2
<1>5. CASE ListLegacy(w) \/ Backfill(w)
  <2>1. f.step \in {"migrate", "backfill"} /\ g.polls = f.polls
    BY <1>5, EarlyGoes DEF Alike
  <2>2. g.final = f.final
    <3>1. ListLegacy(w) => g.final = f.final
      BY ListLegacyGoes DEF MigratedTo
    <3>2. Backfill(w) => g.final = f.final
      BY BackfillGoes DEF MigratedTo
    <3> QED
      BY <1>5, <3>1, <3>2
  <2> QED
    BY <1>3, <2>1, <2>2
<1>6. CASE Reset(w)
  <2>1. f.step = "reset"
    BY <1>6 DEF Reset, At
  <2>2. g.polls = f.polls /\ g.final = f.final
    BY <1>6, ResetGoes DEF Alike
  <2> QED
    BY <1>3, <2>1, <2>2
<1> QED
  BY <1>1, <1>2, <1>4, <1>5, <1>6

(* Only the poll, and the turn to the final pass, begin a drain.              *)
LEMMA WasDraining ==
  ASSUME FramesOK, NEW w \in Writers, NEW f, f = sync[w], NEW g, g = sync'[w],
         Offsets(w) \/ Fetch(w) \/ WriteDelta(w) \/ ListRows(w) \/ FlushRow(w),
         Draining(g), g.step # "offsets" \/ Anonymized = {}
  PROVE  Draining(f) /\ g.polls = f.polls /\ g.final = f.final
<1> SUFFICES g.polls = f.polls /\ g.final = f.final
  BY DEF Draining
<1>1. CASE Offsets(w)
  <2>1. Alike(f, g) /\ g.final = f.final
    BY <1>1, OffsetsGoes
  <2> QED
    BY <2>1 DEF Alike
<1>2. CASE Fetch(w)
  <2>1. g.polls = f.polls /\ \E ok \in SUBSET Streams : Fetched(f, g, ok)
    BY <1>2, FetchGoes
  <2> QED
    BY <2>1 DEF Fetched, WrittenTo, DrainedTo
<1>3. CASE WriteDelta(w)
  <2>1. g.polls = f.polls /\ (WrittenTo(f, g) \/ g.final = f.final)
    BY <1>3, WriteDeltaGoes DEF Alike
  <2> QED
    BY <2>1 DEF WrittenTo, DrainedTo
<1>4. CASE ListRows(w)
  BY <1>4, ListRowsGoes DEF Alike
<1>5. CASE FlushRow(w)
  BY <1>5, FlushRowGoes DEF Alike
<1> QED
  BY <1>1, <1>2, <1>3, <1>4, <1>5

LEMMA RefusedGrows ==
  ASSUME LogSyncInv, LogSyncInv', NEW ok \in SUBSET Streams, Refuses(ok), ~Purged,
         NEW s \in Streams \ ok
  PROVE  /\ refused \in Nat /\ refused' \in Nat
         /\ refused + 1 <= refused' /\ refused' <= MaxFetchErrors
<1>1. refused \in Nat /\ refused' \in Nat
  BY InvParts, InvPartsNext, SyncAssumption DEF FaultsOK
<1>2. Cardinality(Streams \ ok) \in Nat /\ Cardinality(Streams \ ok) # 0
  <2>1. IsFiniteSet(Streams \ ok)
    BY SyncAssumption, FS_Difference
  <2> QED
    BY <2>1, FS_CardinalityType, FS_EmptySet
<1> QED
  BY <1>1, <1>2 DEF Refuses

LEMMA RefusedStands ==
  ASSUME NEW w \in Writers, StartSync(w) \/ SyncStep(w) \/ AbortSync(w)
  PROVE  UNCHANGED nomadVars /\ (~Fetch(w) => refused' = refused)
<1>1. CASE StartSync(w) \/ AbortSync(w) \/ Save(w) \/ Raise(w) \/ InWriter(w)
  BY <1>1 DEF StartSync, AbortSync, Save, Raise, InWriter, Untouched, faultVars
<1>2. CASE Fetch(w)
  BY <1>2 DEF Fetch
<1>3. CASE \/ Resolve(w) \/ ResolveNothing(w) \/ ListLegacy(w) \/ Backfill(w) \/ Reset(w)
           \/ Offsets(w) \/ Poll(w) \/ WriteDelta(w) \/ ListRows(w) \/ FlushRow(w)
  <2>1. Untouched
    BY <1>3 DEF Resolve, ResolveNothing, ListLegacy, Backfill, Reset, Offsets, Poll,
       WriteDelta, ListRows, FlushRow
  <2> QED
    BY <2>1 DEF Untouched, faultVars
<1> QED
  BY <1>1, <1>2, <1>3 DEF SyncStep

LEMMA DrainGoesOnStep ==
  ASSUME LogSyncInv, LogSyncInv', NEW w \in Writers,
         StartSync(w) \/ SyncStep(w) \/ AbortSync(w), StreamsAlone, ReadsCurrent(w),
         SessionAlone(w), RowsBelong(w), FrameMatches(w), CallAlone(w),
         FrameEnds(sync[w]), FrameEnds(sync'[w]), SessionEnds(w), MarkBelongs(w),
         ~Purged, DrainGoesOn(w), DrainSuffices
  PROVE  DrainGoesOn(w)'
<1> SUFFICES ASSUME NEW f, f = sync[w], NEW g, g = sync'[w],
                    Draining(g), Anonymized = {}, NEW s \in Streams
             PROVE  Caught(w, s)' \/ (s \notin g.advanced /\
                                       Polled(g) + MaxFetchErrors < DrainAttempts + refused')
  BY DEF DrainGoesOn, PollsLeft
<1>0. /\ FramesOK /\ f.polls \in Nat /\ f.final \in BOOLEAN /\ f.result \in Results
      /\ refused \in Nat /\ refused' \in Nat /\ g.result = "DONE" /\ ~g.final
      /\ DrainAttempts \in Nat /\ MaxFetchErrors \in Nat /\ MaxFetchErrors < DrainAttempts
  <2>1. FramesOK /\ FaultsOK /\ FaultsOK'
    BY InvParts, InvPartsNext
  <2>2. g.result = "DONE" /\ ~g.final
    BY DEF FrameEnds
  <2>3. DrainAttempts \in Nat /\ MaxFetchErrors \in Nat /\ MaxFetchErrors < DrainAttempts
    BY SyncAssumption DEF DrainSuffices
  <2> QED
    BY <2>1, <2>2, <2>3, SyncAssumption DEF FramesOK, Frame, FaultsOK
<1>1. Draining(f) => Caught(w, s) \/ (s \notin f.advanced /\
                                       Polled(f) + MaxFetchErrors < DrainAttempts + refused)
  BY DEF DrainGoesOn, PollsLeft
<1>2. \/ Poll(w) \/ Offsets(w) \/ Fetch(w) \/ WriteDelta(w) \/ ListRows(w) \/ FlushRow(w)
      \/ InWriter(w)
  <2>1. ~Raise(w)
    BY DEF Raise, ReadsCurrent
  <2>2. ~(\/ StartSync(w) \/ AbortSync(w) \/ Save(w) \/ Resolve(w) \/ ResolveNothing(w)
          \/ ListLegacy(w) \/ Backfill(w) \/ Reset(w))
    BY <1>0, NotDraining
  <2> QED
    BY <2>1, <2>2 DEF SyncStep
<1>3. ASSUME Draining(f), Caught(w, s)
      PROVE  Caught(w, s)'
  BY <1>2, <1>3, LateKeepsCaught, WriterKeepsCaught
<1>4. CASE Poll(w)
  <2>1. /\ f.step = "poll" /\ g.step = "offsets" /\ g.polls = f.polls + 1
        /\ g.advanced = f.advanced /\ refused' = refused
    <3>1. f.step = "poll"
      BY <1>4 DEF Poll, At
    <3>2. refused' = refused
      BY <1>4 DEF Poll, Untouched, faultVars
    <3> QED
      BY <1>0, <1>4, <3>1, <3>2, PollGoes
  <2>2. Polled(g) = f.polls /\ Polled(f) = f.polls
    BY <1>0, <2>1 DEF Polled
  <2>3. CASE Draining(f)
    BY <1>1, <1>3, <2>1, <2>2, <2>3
  <2>4. CASE ~Draining(f)
    <3>1. f.polls = 0 /\ f.advanced = {}
      BY <1>0, <2>4 DEF Draining, FrameEnds
    <3> QED
      BY <1>0, <2>1, <2>2, <3>1
  <2> QED
    BY <2>3, <2>4
<1>5. CASE Offsets(w) \/ WriteDelta(w) \/ ListRows(w) \/ FlushRow(w)
  <2>1. Draining(f) /\ g.polls = f.polls
    BY <1>0, <1>5, WasDraining
  <2>2. refused' = refused
    BY <1>5 DEF Offsets, WriteDelta, ListRows, FlushRow, Untouched, faultVars
  <2>3. g.advanced = f.advanced /\ Polled(g) = Polled(f)
    <3>1. CASE Offsets(w)
      <4>1. f.step = "offsets" /\ g.step = "fetch" /\ Alike(f, g)
        BY <1>0, <3>1, OffsetsGoes DEF At
      <4> QED
        BY <4>1 DEF Alike, Polled
    <3>2. CASE WriteDelta(w)
      <4>1. f.step = "write" /\ Alike(f, g) /\ (WrittenTo(f, g) \/ g.step = "write")
        BY <1>0, <3>2, WriteDeltaGoes DEF At
      <4> QED
        BY <4>1 DEF Alike, Polled, WrittenTo, DrainedTo
    <3>3. CASE ListRows(w)
      <4>1. f.step = "list" /\ Alike(f, g) /\ g.step \in {"save", "flush"}
        BY <1>0, <3>3, ListRowsGoes DEF At
      <4> QED
        BY <4>1 DEF Alike, Polled
    <3>4. CASE FlushRow(w)
      <4>1. f.step = "flush" /\ Alike(f, g) /\ g.step \in {"save", "flush"}
        BY <1>0, <3>4, FlushRowGoes DEF At
      <4> QED
        BY <4>1 DEF Alike, Polled
    <3> QED
      BY <1>5, <3>1, <3>2, <3>3, <3>4
  <2> QED
    BY <1>1, <1>3, <2>1, <2>2, <2>3
<1>6. CASE InWriter(w)
  <2>1. g = f /\ refused' = refused
    BY <1>6 DEF InWriter, faultVars
  <2> QED
    BY <1>1, <1>3, <2>1
<1>7. CASE Fetch(w)
  <2>1. Draining(f) /\ g.polls = f.polls /\ g.final = f.final
    BY <1>0, <1>7, WasDraining
  <2>2. f.step = "fetch" /\ f.polls > 0
    BY <1>0, <1>7, <2>1 DEF Fetch, At, Draining
  <2>3. PICK ok \in SUBSET Streams : Refuses(ok) /\ Fetched(f, g, ok)
    BY <1>0, <1>7, FetchGoes
  <2>4. CASE s \in ok
    <3>1. Caught(w, s)'
      BY <1>7, <2>1, <2>3, <2>4, FetchCatches
    <3> QED
      BY <3>1
  <2>5. CASE s \notin ok
    <3>1. refused + 1 <= refused'
      BY <2>3, <2>5, RefusedGrows
    <3>2. s \notin Produced(g.delta)
      BY <1>0, <2>2, <2>3, <2>5, FetchedNothing DEF Fetched
    <3>3. g.advanced = f.advanced \cup Produced(g.delta)
      BY <2>2, <2>3 DEF Fetched
    <3>4. Polled(f) = f.polls - 1 /\ Polled(g) <= f.polls
      BY <1>0, <2>1, <2>2 DEF Polled
    <3>5. CASE s \notin f.advanced /\ Polled(f) + MaxFetchErrors < DrainAttempts + refused
      <4>1. Polled(g) \in Int
        BY <1>0, <2>1 DEF Polled
      <4>2. Polled(g) + MaxFetchErrors < DrainAttempts + refused'
        BY <1>0, <3>1, <3>4, <3>5, <4>1
      <4> QED
        BY <3>2, <3>3, <3>5, <4>2
    <3> QED
      BY <1>1, <1>3, <2>1, <3>5
  <2> QED
    BY <2>4, <2>5
<1> QED
  BY <1>2, <1>4, <1>5, <1>6, <1>7

LEMMA DrainHasReadStep ==
  ASSUME LogSyncInv, LogSyncInv', DrainSuffices, NEW w \in Writers,
         StartSync(w) \/ SyncStep(w) \/ AbortSync(w), StreamsAlone, ReadsCurrent(w),
         SessionAlone(w), RowsBelong(w), FrameMatches(w), CallAlone(w),
         FrameEnds(sync[w]), FrameEnds(sync'[w]), SessionEnds(w), MarkBelongs(w),
         ~Purged, DrainGoesOn(w)', DrainHasRead(w)
  PROVE  DrainHasRead(w)'
<1> SUFFICES ASSUME NEW f, f = sync[w], NEW g, g = sync'[w], Draining(g),
                    g.step \in {"list", "flush", "save"} \/ (g.final /\ g.step = "write"),
                    NEW s \in Streams
             PROVE  Caught(w, s)'
  BY DEF DrainHasRead
<1>0. /\ FramesOK /\ f.polls \in 0 .. DrainAttempts /\ DrainAttempts \in Nat
      /\ refused' \in Nat /\ MaxFetchErrors \in Nat /\ refused' <= MaxFetchErrors
      /\ g.result = "DONE" /\ (g.final => Anonymized # {})
  <2>1. FramesOK /\ FaultsOK'
    BY InvParts, InvPartsNext
  <2>2. g.result = "DONE" /\ (g.final => Anonymized # {})
    BY DEF FrameEnds
  <2> QED
    BY <2>1, <2>2, SyncAssumption DEF FramesOK, Frame, FaultsOK
<1>1. Fetch(w) \/ WriteDelta(w) \/ ListRows(w) \/ FlushRow(w) \/ InWriter(w)
  <2>1. ~Raise(w)
    BY DEF Raise, ReadsCurrent
  <2>2. Poll(w) => g.step = "offsets"
    BY <1>0, PollGoes
  <2>3. Offsets(w) => g.step = "fetch"
    BY <1>0, OffsetsGoes
  <2>4. ~(\/ StartSync(w) \/ AbortSync(w) \/ Save(w) \/ Resolve(w) \/ ResolveNothing(w)
          \/ ListLegacy(w) \/ Backfill(w) \/ Reset(w))
    BY <1>0, NotDraining
  <2> QED
    BY <2>1, <2>2, <2>3, <2>4 DEF SyncStep
<1>2. Draining(f) /\ g.polls = f.polls /\ g.final = f.final
  <2>1. CASE InWriter(w)
    BY <2>1 DEF InWriter
  <2>2. CASE ~InWriter(w)
    BY <1>0, <1>1, <2>2, WasDraining
  <2> QED
    BY <2>1, <2>2
<1>3. ASSUME Caught(w, s)
      PROVE  Caught(w, s)'
  BY <1>1, <1>2, <1>3, LateKeepsCaught, WriterKeepsCaught
<1>4. ASSUME Anonymized = {}, s \in g.advanced \/ f.polls = DrainAttempts,
             g.step \notin {"offsets", "fetch"}
      PROVE  Caught(w, s)'
  <2>1. \/ Caught(w, s)'
        \/ s \notin g.advanced /\ Polled(g) + MaxFetchErrors < DrainAttempts + refused'
    BY <1>4 DEF DrainGoesOn, PollsLeft
  <2>2. Polled(g) = f.polls
    BY <1>2, <1>4 DEF Polled
  <2> QED
    BY <1>0, <1>4, <2>1, <2>2
<1>5. CASE ListRows(w) \/ FlushRow(w)
  <2>1. f.step \in {"list", "flush"}
    BY <1>5 DEF ListRows, FlushRow, At
  <2> QED
    BY <1>2, <1>3, <2>1 DEF DrainHasRead
<1>6. CASE InWriter(w)
  <2>1. g = f
    BY <1>6 DEF InWriter
  <2> QED
    BY <1>2, <1>3, <2>1 DEF DrainHasRead
<1>7. CASE WriteDelta(w)
  <2>1. /\ f.step = "write" /\ g.result = f.result
        /\ WrittenTo(f, g) \/ (g.step = "write" /\ g.final = f.final)
    BY <1>0, <1>7, WriteDeltaGoes DEF At, Alike
  <2>2. CASE f.final
    BY <1>2, <1>3, <2>1, <2>2 DEF DrainHasRead
  <2>3. CASE ~f.final
    <3>1. Anonymized = {} /\ ~(f.polls < DrainAttempts) /\ g.step = "list"
      BY <1>0, <1>2, <2>1, <2>3 DEF WrittenTo, DrainedTo, Terminal
    <3> QED
      BY <1>0, <1>4, <3>1
  <2> QED
    BY <2>2, <2>3
<1>8. CASE Fetch(w)
  <2>1. f.step = "fetch" /\ g.result = f.result
    BY <1>0, <1>8, ResultStays DEF Fetch, At
  <2>2. PICK ok \in SUBSET Streams : Refuses(ok) /\ Fetched(f, g, ok)
    BY <1>0, <1>8, FetchGoes
  <2>3. CASE f.final
    <3>1. MaxFetchErrors = 0
      BY <1>0, <1>2, <2>3 DEF DrainSuffices
    <3>2. s \in ok
      <4>1. ASSUME s \notin ok PROVE FALSE
        <5>1. /\ refused \in Nat /\ refused' \in Nat
              /\ refused + 1 <= refused' /\ refused' <= MaxFetchErrors
          BY <2>2, <4>1, RefusedGrows
        <5> QED
          BY <3>1, <5>1
      <4> QED
        BY <4>1
    <3> QED
      BY <1>2, <1>8, <2>2, <2>3, <3>2, FetchCatches
  <2>4. CASE ~f.final
    <3>1. /\ Anonymized = {} /\ g.step = "list"
          /\ ~(f.polls < DrainAttempts) \/ (f.polls > 0 /\ DrainIsQuiet(f, g.delta, ok))
      BY <1>0, <1>2, <2>1, <2>2, <2>4 DEF Fetched, WrittenTo, DrainedTo, Terminal
    <3>2. DrainIsQuiet(f, g.delta, ok) => s \in f.advanced
      BY DEF DrainIsQuiet
    <3>3. f.polls > 0 => f.advanced \subseteq g.advanced
      BY <2>2 DEF Fetched
    <3> QED
      BY <1>0, <1>4, <3>1, <3>2, <3>3
  <2> QED
    BY <2>3, <2>4
<1> QED
  BY <1>1, <1>5, <1>6, <1>7, <1>8

(* A task history finished by its allocation has its last log stored.         *)
Completed ==
  status = "DONE" =>
    \A s \in Streams :
      /\ rows[s].staging = <<>>
      /\ \/ Purged \/ written[tracked][s] = 0
         \/ rows[s].epoch = tracked /\ written[tracked][s] <= rows[s].nomad

LEMMA CompletedStep ==
  ASSUME LogSyncInv, NEW w \in Writers, StartSync(w) \/ SyncStep(w) \/ AbortSync(w),
         ReadsCurrent(w), SessionAlone(w), FrameEnds(sync[w]), SessionEnds(w), Flushed(w),
         DrainReads(w), Completed
  PROVE  Completed'
<1> SUFFICES ASSUME NEW f, f = sync[w], status' = "DONE", NEW s \in Streams
             PROVE  /\ rows'[s].staging = <<>>
                    /\ \/ Purged' \/ written'[tracked'][s] = 0
                       \/ /\ rows'[s].epoch = tracked'
                          /\ written'[tracked'][s] <= rows'[s].nomad
  BY DEF Completed
<1>0. FramesOK
  BY InvParts
<1>1. CASE Save(w)
  <2>1. /\ f.step = "save" /\ f.result = "DONE" /\ pc[w] = "idle"
        /\ rows' = rows /\ UNCHANGED nomadVars
        /\ tracked' = IF f.alloc = NoAlloc THEN f.prev ELSE f.alloc
    BY <1>1 DEF Save, At, AtRest, ReadsCurrent, writerVars, dbVars
  <2>2. tracked' = f.alloc /\ Draining(f) /\ ~Appending(w)
    BY <2>1 DEF FrameEnds, Appending
  <2>3. rows[s].staging = <<>>
    BY <2>1, <2>2 DEF Flushed
  <2>4. Purged \/ Stored(w, s)
    BY <2>1, <2>2 DEF DrainReads, DrainHasRead, Caught, AboutToStore
  <2> QED
    BY <2>1, <2>2, <2>3, <2>4 DEF Stored, Purged, nomadVars
<1>2. CASE ~Save(w)
  <2>1. UNCHANGED historyVars
    <3>1. CASE StartSync(w) \/ AbortSync(w) \/ Fetch(w) \/ InWriter(w)
      BY <3>1 DEF StartSync, AbortSync, Fetch, InWriter, Untouched
    <3>2. CASE \/ Resolve(w) \/ ResolveNothing(w) \/ ListLegacy(w) \/ Backfill(w)
               \/ Reset(w) \/ Offsets(w) \/ Poll(w) \/ WriteDelta(w) \/ ListRows(w)
               \/ FlushRow(w) \/ Raise(w)
      <4>1. Untouched
        BY <3>2 DEF Resolve, ResolveNothing, ListLegacy, Backfill, Reset, Offsets, Poll,
           WriteDelta, ListRows, FlushRow, Raise
      <4> QED
        BY <4>1 DEF Untouched
    <3> QED
      BY <1>2, <3>1, <3>2 DEF SyncStep
  <2>2. f.step = "idle" /\ pc[w] = "idle" /\ status # "RUNNING"
    BY <2>1 DEF SessionEnds, historyVars
  <2>3. ~InWriter(w)
    BY <2>2, AloneSession DEF InWriter
  <2>4. ~(StartSync(w) \/ SyncStep(w) \/ AbortSync(w))
    BY <1>2, <2>2, <2>3 DEF StartSync, AbortSync, SyncStep, Resolve, ResolveNothing,
       ListLegacy, Backfill, Reset, Offsets, Fetch, Poll, WriteDelta, ListRows, FlushRow,
       Raise, At
  <2> QED
    BY <2>4
<1> QED
  BY <1>1, <1>2

EndsInv ==
  /\ HistoryEnds /\ Completed
  /\ \A w \in Writers : /\ FrameEnds(sync[w]) /\ SessionEnds(w) /\ MarkBelongs(w)
                        /\ Flushed(w) /\ DrainReads(w)

(* No step of Nomad takes the log of a finished task further, nor, once the drain *)
(* polls, that of a stream it has read, or any when it has ended.               *)
LEMMA NomadStands ==
  ASSUME LogSyncInv, NomadStep \/ UNCHANGED syncVars
  PROVE  /\ UNCHANGED <<writerVars, historyVars, sync, faultVars>>
         /\ dead => dead'
         /\ Purged => Purged'
         /\ dead /\ status # "RUNNING" => written' = written
         /\ \A w \in Writers, s \in Streams : dead /\ Draining(sync[w]) =>
              \/ \A e \in Epochs : written'[e][s] = written[e][s]
              \/ MayBegin(s, sync[w])
<1>1. UNCHANGED <<writerVars, historyVars, sync, faultVars>>
  BY InvParts, NomadSteps DEF syncVars
<1>2. CASE UNCHANGED syncVars
  BY <1>1, <1>2 DEF syncVars, nomadVars, Purged
<1>3. CASE Schedule \/ JobDies
  BY <1>1, <1>3 DEF Schedule, JobDies, Purged
<1>4. CASE JobPurged
  BY <1>1, <1>4 DEF JobPurged, Purged
<1>5. CASE \E s \in Streams : LogmonWrites(s)
  <2>1. PICK s \in Streams : LogmonWrites(s)
    BY <1>5
  <2>2. dead => status = "RUNNING" /\ \A w \in Writers : Draining(sync[w]) => MayBegin(s, sync[w])
    BY <2>1 DEF LogmonWrites
  <2>3. alloc' = alloc /\ dead' = dead
    BY <2>1 DEF LogmonWrites
  <2>4. \A t \in Streams \ {s}, e \in Epochs : written'[e][t] = written[e][t]
    BY <2>1, InvParts DEF LogmonWrites, NomadOK
  <2> QED
    BY <1>1, <2>2, <2>3, <2>4 DEF Purged
<1> QED
  BY <1>2, <1>3, <1>4, <1>5 DEF NomadStep

LEMMA EndsNomad ==
  ASSUME LogSyncInv, NomadStep \/ UNCHANGED syncVars, EndsInv
  PROVE  EndsInv'
<1>1. /\ UNCHANGED <<rows, mark, pc, call, target, seen, status, tracked, sync, refused>>
      /\ dead => dead'
      /\ Purged => Purged'
  BY NomadStands DEF writerVars, dbVars, frameVars, historyVars, faultVars
<1>2. HistoryEnds'
  BY <1>1 DEF EndsInv, HistoryEnds
<1>3. Completed'
  <2>1. CASE status = "DONE"
    <3>1. dead
      BY <2>1 DEF EndsInv, HistoryEnds
    <3>2. written' = written
      BY <2>1, <3>1, NomadStands
    <3> QED
      BY <1>1, <3>2 DEF EndsInv, Completed
  <2> QED
    BY <1>1, <2>1 DEF Completed
<1>4. ASSUME NEW w \in Writers
      PROVE  /\ FrameEnds(sync[w])' /\ SessionEnds(w)' /\ MarkBelongs(w)'
             /\ Flushed(w)' /\ DrainReads(w)'
  <2>0. /\ FrameEnds(sync[w]) /\ SessionEnds(w) /\ MarkBelongs(w)
        /\ Flushed(w) /\ DrainReads(w)
    BY DEF EndsInv
  <2>1. FrameEnds(sync[w])' /\ SessionEnds(w)' /\ Flushed(w)'
    BY <1>1, <2>0 DEF FrameEnds, Draining, SessionEnds, Terminal, Resetting, Appending,
       Flushed
  <2>2. MarkBelongs(w)'
    BY <1>1, <2>0 DEF MarkBelongs, Known, BeforeReset, Resetting
  <2>3. DrainReads(w)'
    <3>1. CASE Draining(sync[w])
      <4>1. dead /\ sync[w].alloc \in Epochs
        BY <2>0, <3>1, DrainKnows
      <4>2. ASSUME NEW s \in Streams, Caught(w, s)
            PROVE  Caught(w, s)' \/ MayBegin(s, sync[w])
        <5>1. CASE written'[sync[w].alloc][s] = written[sync[w].alloc][s]
          BY <1>1, <4>2, <5>1 DEF Caught, Stored, AboutToStore, Appending
        <5> QED
          BY <3>1, <4>1, <5>1, NomadStands
      <4>3. sync' = sync /\ refused' = refused /\ (Purged => Purged')
        BY <1>1
      <4>4. DrainGoesOn(w) => DrainGoesOn(w)'
        <5> SUFFICES ASSUME DrainGoesOn(w), Anonymized = {}, NEW s \in Streams
                     PROVE  Caught(w, s)' \/ (s \notin sync[w].advanced /\ PollsLeft(sync[w]))
          BY <3>1, <4>3 DEF DrainGoesOn, PollsLeft
        <5>1. Caught(w, s) \/ (s \notin sync[w].advanced /\ PollsLeft(sync[w]))
          BY <3>1 DEF DrainGoesOn
        <5>2. MayBegin(s, sync[w]) => s \notin sync[w].advanced /\ PollsLeft(sync[w])
          <6>1. /\ sync[w].polls \in Nat /\ refused \in Nat
                /\ DrainAttempts \in Nat /\ MaxFetchErrors \in Nat
            BY InvParts, SyncAssumption DEF FramesOK, Frame, FaultsOK
          <6> QED
            BY <6>1 DEF MayBegin, PollsLeft, Polled
        <5> QED
          BY <4>2, <5>1, <5>2
      <4>5. DrainHasRead(w) => DrainHasRead(w)'
        BY <4>2, <4>3 DEF DrainHasRead, MayBegin
      <4> QED
        BY <2>0, <4>3, <4>4, <4>5 DEF DrainReads
    <3>2. CASE ~Draining(sync[w])
      <4>1. ~Draining(sync'[w])
        BY <1>1, <3>2
      <4> QED
        BY <4>1 DEF DrainReads, DrainGoesOn, DrainHasRead
    <3> QED
      BY <3>1, <3>2
  <2> QED
    BY <2>1, <2>2, <2>3
<1> QED
  BY <1>2, <1>3, <1>4 DEF EndsInv

LEMMA EndsStep ==
  ASSUME OneByOne, DrainSuffices, LogSyncInv, LogSyncInv', AloneInv, AloneInv', EndsInv,
         [SyncNext]_syncVars
  PROVE  EndsInv'
<1>1. PICK w : Writers = {w}
  BY DEF OneByOne
<1>2. CASE NomadStep \/ UNCHANGED syncVars
  BY <1>2, EndsNomad
<1>3. CASE StartSync(w) \/ SyncStep(w) \/ AbortSync(w)
  <2>0. w \in Writers /\ DrainAttempts > 0
    BY <1>1 DEF DrainSuffices
  <2>1. /\ StreamsAlone /\ ReadsCurrent(w) /\ SessionAlone(w) /\ SyncKnows(w)
        /\ RowsBelong(w) /\ FrameMatches(w) /\ CallAlone(w)
    BY <2>0 DEF AloneInv
  <2>2. SyncKnows(w)'
    BY <2>0 DEF AloneInv
  <2>3. /\ HistoryEnds /\ Completed /\ FrameEnds(sync[w]) /\ SessionEnds(w)
        /\ MarkBelongs(w) /\ Flushed(w) /\ DrainReads(w)
    BY <2>0 DEF EndsInv
  <2>4. AbortSync(w) => \E e \in Epochs : Epochs = {e}
    BY SyncAssumption DEF AbortSync, OneByOne, LogSyncInv, SyncTypeOK
  <2>5. FrameEnds(sync'[w])
    BY <1>3, <2>0, <2>3, FrameEndsStep
  <2>6. HistoryEnds' /\ SessionEnds(w)'
    BY <1>3, <2>0, <2>1, <2>3, SessionEndsStep
  <2>7. MarkBelongs(w)'
    BY <1>3, <2>0, <2>1, <2>2, <2>3, <2>4, MarkBelongsStep
  <2>8. Flushed(w)'
    BY <1>3, <2>0, <2>1, <2>3, FlushedStep
  <2>9. Completed'
    BY <1>3, <2>0, <2>1, <2>3, CompletedStep
  <2>10. DrainReads(w)'
    <3>1. Purged' <=> Purged
      BY <1>3, <2>0, RefusedStands DEF nomadVars, Purged
    <3>2. CASE ~Purged
      <4>1. DrainGoesOn(w) /\ DrainHasRead(w)
        BY <2>3, <3>2 DEF DrainReads
      <4>2. DrainGoesOn(w)'
        BY <1>3, <2>0, <2>1, <2>3, <2>5, <3>2, <4>1, DrainGoesOnStep
      <4>3. DrainHasRead(w)'
        BY <1>3, <2>0, <2>1, <2>3, <2>5, <3>2, <4>1, <4>2, DrainHasReadStep
      <4> QED
        BY <4>2, <4>3 DEF DrainReads
    <3>3. CASE Purged
      BY <3>1, <3>3 DEF DrainReads
    <3> QED
      BY <3>2, <3>3
  <2>11. FrameEnds(sync[w])'
    BY <2>5 DEF FrameEnds, Draining
  <2>12. \A v \in Writers : v = w
    BY <1>1
  <2> QED
    BY <2>6, <2>7, <2>8, <2>9, <2>10, <2>11, <2>12 DEF EndsInv
<1> QED
  BY <1>1, <1>2, <1>3 DEF SyncNext, NomadStep

LEMMA EndsStart ==
  ASSUME SyncInit
  PROVE  EndsInv
<1>1. /\ status = "RUNNING" /\ sync = [w \in Writers |-> NoFrame] /\ mark = 0
      /\ pc = [w \in Writers |-> "idle"] /\ tracked = alloc
      /\ alloc = IF legacy = 0 THEN NoAlloc ELSE Min(Epochs)
  BY DEF SyncInit, WriterInit
<1>2. tracked \in Nat
  BY <1>1, FirstEpoch DEF NoAlloc
<1>3. ASSUME NEW w \in Writers
      PROVE  /\ FrameEnds(sync[w]) /\ SessionEnds(w) /\ MarkBelongs(w)
             /\ Flushed(w) /\ DrainReads(w)
  <2>1. sync[w] = NoFrame /\ pc[w] = "idle" /\ ~Draining(sync[w])
    BY <1>1 DEF NoFrame, Draining
  <2>2. FrameEnds(sync[w]) /\ SessionEnds(w) /\ Flushed(w) /\ DrainReads(w)
    BY <1>1, <2>1 DEF FrameEnds, SessionEnds, Flushed, DrainReads, DrainGoesOn,
       DrainHasRead, NoFrame, Terminal, Appending
  <2>3. MarkBelongs(w)
    BY <1>1, <1>2, <2>1 DEF MarkBelongs, Known, NoFrame, NoAlloc
  <2> QED
    BY <2>2, <2>3
<1> QED
  BY <1>1, <1>3 DEF EndsInv, HistoryEnds, Completed

(* Syncs that follow one another leave a finished task history complete: when   *)
(* the drain has polls enough for the requests Nomad refuses, everything the    *)
(* last allocation wrote is stored, the late tail and the partial last line     *)
(* too, and no staging buffer is left; unless Nomad purged the job first, or    *)
(* the stream reached its cap.                                               *)
THEOREM AloneCompletesLog ==
  ASSUME OneByOne, DrainSuffices
  PROVE  SyncSpec => [](BelowCap => TerminalLogComplete)
<1>1. LogSyncInv /\ LogSyncInv' /\ AloneInv /\ AloneInv' /\ EndsInv /\ [SyncNext]_syncVars
        => EndsInv'
  BY EndsStep
<1>2. SyncInit => EndsInv
  BY EndsStart
<1>3. LogSyncInv /\ AloneInv /\ EndsInv => (BelowCap => TerminalLogComplete)
  <2> SUFFICES ASSUME LogSyncInv, AloneInv, EndsInv, BelowCap, status = "DONE",
                      NEW s \in Streams
               PROVE  /\ rows[s].staging = <<>>
                      /\ Purged \/ \A i \in 1 .. written[tracked][s] :
                                     \E x \in Placed(s) : x[2] = <<tracked, i>>
    BY DEF TerminalLogComplete
  <2>1. /\ rows[s].staging = <<>>
        /\ \/ Purged \/ written[tracked][s] = 0
           \/ rows[s].epoch = tracked /\ written[tracked][s] <= rows[s].nomad
    BY DEF EndsInv, Completed
  <2>2. CASE written[tracked][s] = 0
    BY <2>1, <2>2
  <2>3. CASE rows[s].epoch = tracked /\ written[tracked][s] <= rows[s].nomad
    <3>1. tracked \in Epochs /\ tracked # NoAlloc
      BY InvParts DEF EndsInv, HistoryEnds, HistoryOK
    <3>2. Holds(Placed(s), tracked, rows[s].nomad)
      BY <2>3, <3>1 DEF AloneInv, StreamsWhole, StreamWhole
    <3>3. written[tracked][s] \in Nat /\ rows[s].nomad \in Nat
      BY <3>1, InvParts, SyncAssumption DEF NomadOK, WriterInv, TypeOK, Row
    <3>4. \A i \in 1 .. written[tracked][s] : i \in 1 .. rows[s].nomad
      BY <2>3, <3>3
    <3> QED
      BY <2>1, <3>2, <3>4 DEF Holds
  <2> QED
    BY <2>1, <2>2, <2>3
<1> QED
  BY <1>1, <1>2, <1>3, AloneInvariant, LogSyncInvariant, PTL DEF SyncSpec
================================================================================
