------------------------------- MODULE LogWriter -------------------------------
(***************************************************************************)
(* The append-only log store of the tasks service                          *)
(* (src/app/tasks/logs/log_writer.py and the managers it calls in          *)
(* src/app/tasks/crud.py): per (source, stream) one state row with an       *)
(* optimistic version, a table of chunk rows, and on the TaskHistory row    *)
(* the allocation-epoch mark with its FOR UPDATE lock.                      *)
(*                                                                         *)
(* Several sessions (Writers) call append and                              *)
(* drain_and_reset_allocation_frontier on one task history.  A step is what *)
(* runs between two awaits on the database; a transaction that inserts      *)
(* chunks, swaps the state row and evicts is one step, because it becomes   *)
(* visible at its commit and the version decides whether it commits.        *)
(*                                                                         *)
(* A stream without a state row is the row build_default returns: version 0 *)
(* is carried by no stored row.                                            *)
(***************************************************************************)
EXTENDS Integers, Sequences, FiniteSets

CONSTANTS
  Writers,            \* database sessions that call the writer
  Streams,            \* the (source, stream) pairs of one task history
  Bytes,              \* what a log is made of
  Epochs,             \* Nomad CreateIndex values of the allocations
  Requests,           \* the append calls the callers may make
  ChunkBytes,         \* CHUNK_BYTES
  MinFlush,           \* MIN_FLUSH
  StreamCap,          \* LOG_STREAM_CAP_BYTES
  EvictionMaxRows,    \* LOG_STREAM_EVICTION_MAX_ROWS
  MaxVersionRetries,  \* _MAX_VERSION_RETRIES
  MaxVersion          \* model bound: no new call once a row reached this version

None == -1            \* Python's None, for an epoch or an offset
Free == "free"        \* nobody holds the TaskHistory row lock

Request == [stream: Streams, data: Seq(Bytes), force: BOOLEAN,
            after: Nat \cup {None}, nomadAfter: Nat \cup {None},
            epoch: Epochs \cup {None}]

Row == [persisted: Nat, producer: Nat, nomad: Nat, epoch: Nat,
        staging: Seq(Bytes), version: Nat]

Chunk == [start: Nat, data: Seq(Bytes)]

ASSUME EpochsAssumption == Epochs \subseteq Nat \ {0}
ASSUME StreamsAssumption == Streams # {}
ASSUME WritersAssumption == Free \notin Writers
(* the docstring of _effective_new_bytes: new_bytes ends at the offset *)
ASSUME RequestsAssumption ==
  /\ Requests \subseteq Request
  /\ \A r \in Requests : r.after # None => r.after >= Len(r.data)
ASSUME SizesAssumption ==
  /\ ChunkBytes \in Nat \ {0}
  /\ MinFlush \in Nat
  /\ StreamCap \in Nat
  /\ EvictionMaxRows \in Nat
  /\ MaxVersionRetries \in Nat \ {0}
  /\ MaxVersion \in Nat

VARIABLES
  rows,      \* taskhistory_log_state
  chunks,    \* taskhistory_log
  mark,      \* taskhistory.log_allocation_epoch
  lock,      \* holder of the FOR UPDATE lock on the taskhistory row
  pc,        \* where each session is
  call,      \* the arguments of the append it runs
  target,    \* the new_allocation_epoch of the reset it runs
  seen,      \* the rows it read in this transaction
  tries      \* lost version races of this append

dbVars == <<rows, chunks, mark, lock>>
frameVars == <<pc, call, target, seen, tries>>
writerVars == <<dbVars, frameVars>>

DefaultRow == [persisted |-> 0, producer |-> 0, nomad |-> 0, epoch |-> 0,
               staging |-> <<>>, version |-> 0]
NoRows == [s \in Streams |-> DefaultRow]
NoCall == [stream |-> CHOOSE s \in Streams : TRUE, data |-> <<>>,
           force |-> FALSE, after |-> None, nomadAfter |-> None, epoch |-> None]

IsNew(row) == row.version = 0
End(c) == c.start + Len(c.data)

WriterInit ==
  /\ rows = NoRows
  /\ chunks = [s \in Streams |-> {}]
  /\ mark = 0
  /\ lock = Free
  /\ pc = [w \in Writers |-> "idle"]
  /\ call = [w \in Writers |-> NoCall]
  /\ target = [w \in Writers |-> 0]
  /\ seen = [w \in Writers |-> NoRows]
  /\ tries = [w \in Writers |-> 0]

-----------------------------------------------------------------------------
(* The byte arithmetic of append. *)

(* The part of the new bytes the row's producer offset does not cover. *)
EffectiveNewBytes(row, r) ==
  LET before == r.after - Len(r.data)
      skip == IF row.producer > before THEN row.producer - before ELSE 0
  IN IF r.after = None THEN r.data ELSE SubSeq(r.data, skip + 1, Len(r.data))

NothingToDo(row, r) ==
  /\ EffectiveNewBytes(row, r) = <<>>
  /\ ~r.force
  /\ row.staging = <<>>
  /\ r.after # None
  /\ row.producer >= r.after

FullChunkCount(buf) == Len(buf) \div ChunkBytes
FullLen(buf) == FullChunkCount(buf) * ChunkBytes
Remainder(buf) == SubSeq(buf, FullLen(buf) + 1, Len(buf))

FullChunks(at, buf) ==
  { [start |-> at + i * ChunkBytes,
     data |-> SubSeq(buf, i * ChunkBytes + 1, (i + 1) * ChunkBytes)] :
      i \in 0 .. FullChunkCount(buf) - 1 }

(* A session may find the staging buffer older than MAX_AGE_SEC or not, but  *)
(* only a stored row has an age.                                            *)
FlushesRemainder(rest, force, aged) ==
  rest # <<>> /\ (force \/ Len(rest) >= MinFlush \/ aged)

RemainderChunk(at, rest) == [start |-> at, data |-> rest]

(* insert_chunk_idempotent: ON CONFLICT (stream, start_offset) DO NOTHING. *)
InsertChunks(stored, new) ==
  stored \cup { c \in new : \A d \in stored : d.start # c.start }

(* delete_chunks_below_offset: the oldest chunks at or under the low water. *)
Evicted(stored, lowWater) ==
  { c \in stored :
      /\ End(c) <= lowWater
      /\ Cardinality({ d \in stored : End(d) < End(c) }) < EvictionMaxRows }

EvictOverCap(stored, persisted, previous) ==
  IF persisted > previous /\ persisted > StreamCap
  THEN stored \ Evicted(stored, persisted - StreamCap)
  ELSE stored

-----------------------------------------------------------------------------
(* None keeps what the row has (producer_offset_after if ... is not None).    *)
Overwritten(new, old) == new
Kept(new, old) == IF new # None THEN new ELSE old

(* A call returns (idle) or raises; its frame and its transaction are gone.  *)
Return(w, outcome) ==
  /\ pc' = [pc EXCEPT ![w] = outcome]
  /\ call' = [call EXCEPT ![w] = NoCall]
  /\ target' = [target EXCEPT ![w] = 0]
  /\ seen' = [seen EXCEPT ![w] = NoRows]
  /\ tries' = [tries EXCEPT ![w] = 0]

GoTo(w, place) ==
  /\ pc' = [pc EXCEPT ![w] = place]
  /\ UNCHANGED <<call, target>>

(* The end of a transaction gives the row lock back.                         *)
UnlockedUnlessDiscarded(w) ==
  lock' = IF pc[w] = "lock" THEN w ELSE IF lock = w THEN Free ELSE lock
Unlocked(w) == lock' = IF lock = w THEN Free ELSE lock

(* SELECT ... FOR UPDATE on the TaskHistory row.                              *)
ReadsUnlocked(w) == UNCHANGED lock
TakesLock(w) == lock = Free /\ lock' = w

AtRest(w) == pc[w] \in {"idle", "raised"}

BeginAppend(w, r) ==
  /\ AtRest(w)
  /\ pc' = [pc EXCEPT ![w] = "read"]
  /\ call' = [call EXCEPT ![w] = r]
  /\ UNCHANGED <<dbVars, target, seen, tries>>

(* get_for_stream; a stored row of a newer allocation discards the bytes. *)
ReadRow(w) ==
  LET r == call[w]
      row == rows[r.stream]
      superseded == ~IsNew(row) /\ r.epoch # None /\ r.epoch < row.epoch
      firstInsert == IsNew(row) /\ r.epoch # None
  IN /\ pc[w] = "read"
     /\ UNCHANGED dbVars
     /\ \/ /\ firstInsert
           /\ GoTo(w, "lock")
           /\ seen' = [seen EXCEPT ![w][r.stream] = row]
           /\ UNCHANGED tries
        \/ /\ ~firstInsert
           /\ superseded \/ NothingToDo(row, r)
           /\ Return(w, "idle")
        \/ /\ ~firstInsert
           /\ ~superseded /\ ~NothingToDo(row, r)
           /\ GoTo(w, "write")
           /\ seen' = [seen EXCEPT ![w][r.stream] = row]
           /\ UNCHANGED tries

(* The first insert takes the TaskHistory row lock and is judged by the mark; *)
(* an early return rolls back at once, so the lock is not kept.              *)
LockFirstInsert(w) ==
  LET r == call[w]
      discard == r.epoch < mark \/ NothingToDo(seen[w][r.stream], r)
  IN /\ pc[w] = "lock"
     /\ UNCHANGED <<rows, chunks, mark>>
     /\ \/ discard /\ lock = Free /\ Return(w, "idle") /\ Unlocked(w)
        \/ ~discard /\ TakesLock(w) /\ GoTo(w, "write") /\ UNCHANGED <<seen, tries>>

(* What a winning append leaves in the state row and in the chunk table. *)
AppendedRow(old, r, aged) ==
  LET staged == old.staging \o EffectiveNewBytes(old, r)
      rest == Remainder(staged)
      flushed == FlushesRemainder(rest, r.force, aged)
  IN [persisted |-> old.persisted + (IF flushed THEN Len(staged) ELSE FullLen(staged)),
      producer |-> Kept(r.after, old.producer),
      nomad |-> Kept(r.nomadAfter, old.nomad),
      epoch |-> Kept(r.epoch, old.epoch),
      staging |-> IF flushed THEN <<>> ELSE rest,
      version |-> old.version + 1]

AppendedChunks(old, r, aged) ==
  LET staged == old.staging \o EffectiveNewBytes(old, r)
      rest == Remainder(staged)
  IN FullChunks(old.persisted, staged) \cup
     (IF FlushesRemainder(rest, r.force, aged)
      THEN {RemainderChunk(old.persisted + FullLen(staged), rest)} ELSE {})

(* UPDATE ... WHERE version = old, or INSERT ... ON CONFLICT DO NOTHING.     *)
AnyVersion(w) == TRUE
StillCurrent(w) ==
  LET s == call[w].stream IN rows[s].version = seen[w][s].version

(* One transaction: flush, swap the row if its version still is the one read, *)
(* evict over the cap, commit.                                               *)
WriteRow(w) ==
  LET r == call[w]
      s == r.stream
      old == seen[w][s]
  IN /\ pc[w] = "write"
     /\ StillCurrent(w)
     /\ \E aged \in BOOLEAN :
          LET new == AppendedRow(old, r, aged)
              stored == InsertChunks(chunks[s], AppendedChunks(old, r, aged))
          IN /\ aged => ~IsNew(old)
             /\ rows' = [rows EXCEPT ![s] = new]
             /\ chunks' = [chunks EXCEPT ![s] =
                  EvictOverCap(stored, new.persisted, old.persisted)]
     /\ Unlocked(w)
     /\ UNCHANGED mark
     /\ Return(w, "idle")

(* The version moved: roll back and start over, at most MaxVersionRetries times. *)
LoseRace(w) ==
  /\ pc[w] = "write"
  /\ ~StillCurrent(w)
  /\ Unlocked(w)
  /\ UNCHANGED <<rows, chunks, mark>>
  /\ \/ /\ tries[w] + 1 < MaxVersionRetries
        /\ GoTo(w, "read")
        /\ tries' = [tries EXCEPT ![w] = @ + 1]
        /\ seen' = [seen EXCEPT ![w] = NoRows]
     \/ /\ tries[w] + 1 >= MaxVersionRetries
        /\ Return(w, "raised")

-----------------------------------------------------------------------------
(* drain_and_reset_allocation_frontier *)

BeginReset(w, e) ==
  /\ AtRest(w)
  /\ pc' = [pc EXCEPT ![w] = "resetLock"]
  /\ target' = [target EXCEPT ![w] = e]
  /\ UNCHANGED <<dbVars, call, seen, tries>>

ResetLock(w) ==
  /\ pc[w] = "resetLock"
  /\ TakesLock(w)
  /\ GoTo(w, "resetList")
  /\ UNCHANGED <<rows, chunks, mark, seen, tries>>

ResetList(w) ==
  /\ pc[w] = "resetList"
  /\ seen' = [seen EXCEPT ![w] = rows]
  /\ GoTo(w, "resetWrite")
  /\ UNCHANGED <<dbVars, tries>>

Drained(w) == { s \in Streams : seen[w][s].staging # <<>> }
DrainsBlindly(w) == TRUE
WinsDrain(w) == \A s \in Drained(w) : rows[s].version = seen[w][s].version

(* The drained rows are swapped by version; every stored row then loses its  *)
(* cursors and takes the epoch, whatever its version and whatever its epoch. *)
ResetRow(w, s) ==
  LET drained == s \in Drained(w)
      old == IF drained THEN seen[w][s] ELSE rows[s]
  IN IF IsNew(rows[s]) THEN rows[s]
     ELSE [persisted |-> old.persisted + (IF drained THEN Len(old.staging) ELSE 0),
           producer |-> 0,
           nomad |-> 0,
           epoch |-> target[w],
           staging |-> IF drained THEN <<>> ELSE old.staging,
           version |-> old.version + (IF drained THEN 2 ELSE 1)]

ResetWrite(w) ==
  /\ pc[w] = "resetWrite"
  /\ WinsDrain(w)
  /\ rows' = [s \in Streams |-> ResetRow(w, s)]
  /\ chunks' = [s \in Streams |->
       IF s \in Drained(w)
       THEN InsertChunks(chunks[s],
              {RemainderChunk(seen[w][s].persisted, seen[w][s].staging)})
       ELSE chunks[s]]
  /\ mark' = IF mark < target[w] THEN target[w] ELSE mark
  /\ Unlocked(w)
  /\ Return(w, "idle")

LoseDrain(w) ==
  /\ pc[w] = "resetWrite"
  /\ ~WinsDrain(w)
  /\ Unlocked(w)
  /\ UNCHANGED <<rows, chunks, mark>>
  /\ Return(w, "raised")

-----------------------------------------------------------------------------
(* The session dies or the database refuses: everything uncommitted is gone. *)
Abort(w) ==
  /\ ~AtRest(w)
  /\ Unlocked(w)
  /\ UNCHANGED <<rows, chunks, mark>>
  /\ Return(w, "raised")

WriterStep(w) ==
  \/ ReadRow(w) \/ LockFirstInsert(w) \/ WriteRow(w) \/ LoseRace(w)
  \/ ResetLock(w) \/ ResetList(w) \/ ResetWrite(w) \/ LoseDrain(w)

BelowBound == \A s \in Streams : rows[s].version < MaxVersion

Next ==
  \E w \in Writers :
    \/ BelowBound /\ \E r \in Requests : BeginAppend(w, r)
    \/ BelowBound /\ \E e \in Epochs : BeginReset(w, e)
    \/ WriterStep(w)
    \/ Abort(w)

Spec == WriterInit /\ [][Next]_writerVars

(* A session that is scheduled goes on, and the database hands a released row *)
(* lock to one that waits for it, again and again if need be.                 *)
Fairness ==
  \A w \in Writers : /\ WF_writerVars(WriterStep(w))
                     /\ SF_writerVars(LockFirstInsert(w))
                     /\ SF_writerVars(ResetLock(w))

FairSpec == Spec /\ Fairness

-----------------------------------------------------------------------------
(* The state predicates and properties. *)

Places == {"idle", "raised", "read", "lock", "write",
           "resetLock", "resetList", "resetWrite"}

TypeOK ==
  /\ rows \in [Streams -> Row]
  /\ chunks \in [Streams -> SUBSET Chunk]
  /\ mark \in Nat
  /\ lock \in Writers \cup {Free}
  /\ pc \in [Writers -> Places]
  /\ call \in [Writers -> Requests \cup {NoCall}]
  /\ target \in [Writers -> Nat]
  /\ seen \in [Writers -> [Streams -> Row]]
  /\ tries \in [Writers -> Nat]

(* The row lock of the TaskHistory row is held by exactly the session that   *)
(* inserts a first row of an allocation or runs a reset (the lock order      *)
(* get_log_allocation_epoch documents).                                      *)
HoldsLock(w) ==
  \/ pc[w] \in {"resetList", "resetWrite"}
  \/ pc[w] = "write" /\ call[w].epoch # None /\ IsNew(seen[w][call[w].stream])

LockOwned == \A w \in Writers : HoldsLock(w) <=> lock = w

(* The chunk rows of a stream tile its persisted offsets: no two overlap,    *)
(* none is empty or reaches past the row's persisted_offset, and after each  *)
(* one comes the next or the frontier, whatever races, evictions and resets  *)
(* produced them.                                                            *)
NoOverlap(s) ==
  \A c, d \in chunks[s] : c = d \/ End(c) <= d.start \/ End(d) <= c.start

NoGap(s) ==
  \A c \in chunks[s] :
    End(c) = rows[s].persisted \/ \E d \in chunks[s] : d.start = End(c)

ChunksTile ==
  \A s \in Streams :
    /\ \A c \in chunks[s] : c.data # <<>> /\ End(c) <= rows[s].persisted
    /\ NoOverlap(s)
    /\ NoGap(s)

(* Bytes of an allocation land only if no row of the stream carries a newer  *)
(* epoch at that moment and, for a first row, no reset has moved the mark     *)
(* past them: the check of append survives every interleaving up to its       *)
(* commit.                                                                   *)
StaleBytesDiscarded ==
  [][\A w \in Writers :
       LET r == call[w] IN
       (pc[w] = "write" /\ pc'[w] = "idle" /\ r.epoch # None) =>
         IF IsNew(rows[r.stream]) THEN r.epoch >= mark
         ELSE r.epoch >= rows[r.stream].epoch]_writerVars

(* A call of the writer ends: no session waits for ever for the row lock and *)
(* the retry loop of append is bounded.                                      *)
CallsEnd == \A w \in Writers : ~AtRest(w) ~> AtRest(w)

-----------------------------------------------------------------------------
(* Why these hold: the facts every interleaving preserves.                   *)

(* The streams whose state row a session has read in its transaction.        *)
HasRead(w, s) ==
  \/ pc[w] \in {"lock", "write"} /\ s = call[w].stream
  \/ pc[w] = "resetWrite"

(* A version number names one content of a row, and versions only grow.      *)
SnapshotsAreVersioned ==
  \A w \in Writers, s \in Streams :
    HasRead(w, s) =>
      /\ seen[w][s].version <= rows[s].version
      /\ seen[w][s].version = rows[s].version => seen[w][s] = rows[s]

MissingRowsAreDefault == \A s \in Streams : IsNew(rows[s]) => rows[s] = DefaultRow

WaitersInsert ==
  \A w \in Writers :
    pc[w] = "lock" => call[w].epoch # None /\ IsNew(seen[w][call[w].stream])

(* The check against the row read, or against the mark under its lock.       *)
WritersWereJudged ==
  \A w \in Writers :
    LET r == call[w]
        old == seen[w][r.stream]
    IN pc[w] = "write" /\ r.epoch # None =>
         IF IsNew(old) THEN r.epoch >= mark ELSE r.epoch >= old.epoch

(* The inductive invariant: what one session has read, checked and locked     *)
(* stays true of the database up to its commit, whatever the others do.       *)
WriterInv ==
  /\ TypeOK
  /\ LockOwned
  /\ ChunksTile
  /\ SnapshotsAreVersioned
  /\ MissingRowsAreDefault
  /\ WaitersInsert
  /\ WritersWereJudged

-----------------------------------------------------------------------------
(* What the store holds: which byte sits at which offset of a stream, in a   *)
(* chunk, which readers see, or still in the staging buffer.                 *)
StagingChunk(s) == [start |-> rows[s].persisted, data |-> rows[s].staging]
BytesOf(c) == { <<c.start + k - 1, c.data[k]>> : k \in 1 .. Len(c.data) }
Placed(s) == UNION { BytesOf(c) : c \in chunks[s] \cup {StagingChunk(s)} }
HighWater(s) == rows[s].persisted + Len(rows[s].staging)

Log == INSTANCE LogStream WITH
         placed <- [s \in Streams |-> Placed(s)],
         high <- [s \in Streams |-> HighWater(s)]

(* Every step of the store is an append to one stream, possibly with the      *)
(* eviction of its oldest bytes beyond the cap, or moves nothing: a byte once  *)
(* accepted is never rewritten, moved or overwritten.                        *)
IsAppendOnlyLog == Log!Spec
================================================================================
