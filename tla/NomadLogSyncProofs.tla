--------------------------- MODULE NomadLogSyncProofs ---------------------------
(***************************************************************************)
(* The syncs of NomadLogSync keep what the writer asks of its callers, for    *)
(* any number of overlapping syncs, streams and allocations: whatever they     *)
(* race, retry or abandon, the writer's invariant holds under them, and the    *)
(* store stays an append-only log.                                           *)
(***************************************************************************)
EXTENDS NomadLogSync, LogStoreProofs, FiniteSetTheorems, WellFoundedInduction

-----------------------------------------------------------------------------
(* The largest and the smallest of a set of numbers. *)

(* A family of finite sets has a smallest member.                            *)
LEMMA FamilyHasLeast ==
  ASSUME NEW F, F # {}, \A A \in F : A \subseteq Int /\ IsFiniteSet(A)
  PROVE  \E A \in F : \A B \in F : B \subseteq A => B = A
<1>1. F \subseteq FiniteSubsetsOf(Int)
  BY DEF FiniteSubsetsOf
<1>2. PICK A \in F : \A B \in F : ~(<<B, A>> \in StrictSubsetOrdering(Int))
  BY <1>1, FS_StrictSubsetOrderingWellFounded, WFMin
<1>3. ASSUME NEW B \in F, B \subseteq A PROVE B = A
  BY <1>2, <1>3 DEF StrictSubsetOrdering
<1> QED
  BY <1>3

LEMMA MinIsLeast ==
  ASSUME NEW T, T \subseteq Nat, T # {}
  PROVE  Min(T) \in T /\ \A y \in T : Min(T) <= y
<1> DEFINE F == {0 .. x : x \in T}
<1>1. \A A \in F : A \subseteq Int /\ IsFiniteSet(A)
  BY FS_Interval
<1>2. F # {}
  OBVIOUS
<1> HIDE DEF F
<1>3. PICK A \in F : \A B \in F : B \subseteq A => B = A
  BY <1>1, <1>2, FamilyHasLeast
<1> USE DEF F
<1>4. PICK x \in T : A = 0 .. x
  OBVIOUS
<1>5. ASSUME NEW y \in T PROVE x <= y
  <2>1. x \in Nat /\ y \in Nat
    OBVIOUS
  <2>2. 0 .. y \in F
    OBVIOUS
  <2>3. CASE y < x
    <3>1. 0 .. y \subseteq A
      BY <1>4, <2>1, <2>3
    <3>2. 0 .. y = 0 .. x
      BY <1>3, <1>4, <2>2, <3>1
    <3>3. x \in 0 .. x /\ x \notin 0 .. y
      BY <2>1, <2>3
    <3> QED
      BY <3>2, <3>3
  <2> QED
    BY <2>1, <2>3
<1>6. \E z \in T : \A y \in T : z =< y
  BY <1>5
<1> QED
  BY <1>6 DEF Min

LEMMA MaxIsGreatest ==
  ASSUME NEW n \in Nat, NEW T, T \subseteq 0 .. n, T # {}
  PROVE  Max(T) \in T /\ \A y \in T : y <= Max(T)
<1> DEFINE F == {x .. n : x \in T}
<1>1. \A A \in F : A \subseteq Int /\ IsFiniteSet(A)
  BY FS_Interval
<1>2. F # {}
  OBVIOUS
<1> HIDE DEF F
<1>3. PICK A \in F : \A B \in F : B \subseteq A => B = A
  BY <1>1, <1>2, FamilyHasLeast
<1> USE DEF F
<1>4. PICK x \in T : A = x .. n
  OBVIOUS
<1>5. ASSUME NEW y \in T PROVE x >= y
  <2>1. x \in 0 .. n /\ y \in 0 .. n
    OBVIOUS
  <2>2. y .. n \in F
    OBVIOUS
  <2>3. CASE x < y
    <3>1. y .. n \subseteq A
      BY <1>4, <2>1, <2>3
    <3>2. y .. n = x .. n
      BY <1>3, <1>4, <2>2, <3>1
    <3>3. x \in x .. n /\ x \notin y .. n
      BY <2>1, <2>3
    <3> QED
      BY <3>2, <3>3
  <2> QED
    BY <2>1, <2>3
<1>6. \E z \in T : \A y \in T : z >= y
  BY <1>5
<1>7. Max(T) \in T /\ \A y \in T : Max(T) >= y
  BY <1>6 DEF Max
<1> QED
  BY <1>7

-----------------------------------------------------------------------------
(* The calls of a sync. *)

(* A call a sync may make, with its offsets in step.                         *)
GoodCall(r) ==
  /\ r \in SyncRequests
  /\ r.nomadAfter = None => r.after <= LogLength
  /\ r.nomadAfter # None => r.after # None /\ InStep(r.nomadAfter, r.after)

(* A piece of an allocation's log.                                           *)
LEMMA PartType ==
  ASSUME NEW e \in Epochs, NEW from \in 0 .. LogLength, NEW to \in 0 .. LogLength,
         from <= to
  PROVE  Part(e, from, to) \in Seq(Bytes) /\ Len(Part(e, from, to)) = to - from
<1>1. to - from \in Nat /\ LogLength \in Nat
  BY SyncAssumption
<1>2. \A k \in 1 .. to - from : <<e, from + k>> \in Bytes
  BY <1>1, BytesAssumption
<1> QED
  BY <1>1, <1>2 DEF Part

-----------------------------------------------------------------------------
(* What a sync does to the writer. *)

(* A session that gives up its call, whatever it was doing: a crash, an       *)
(* exception, a new sync.                                                    *)
Quit(w) ==
  /\ Unlocked(w)
  /\ UNCHANGED <<rows, chunks, mark>>
  /\ Return(w, "idle")

(* What one sync's session may do to the writer.                             *)
WriterMove(w) ==
  \/ \E r \in SyncRequests : GoodCall(r) /\ BeginAppend(w, r)
  \/ \E e \in Epochs : BeginReset(w, e)
  \/ WriterStep(w)
  \/ Quit(w)

LEMMA MoveIsSessionStep ==
  ASSUME NEW w \in Writers, WriterMove(w)
  PROVE  SessionStep(w) \/ Quit(w)
BY SyncRequestsAssumption DEF WriterMove, SessionStep, WriterStep

LEMMA QuitKeepsInv ==
  ASSUME WriterInv, NEW w \in Writers, Quit(w)
  PROVE  WriterInv'
<1> USE DEF WriterInv
<1>1. TypeOK'
  BY ReturnType, UnlockedType DEF Quit, TypeOK
<1>2. /\ pc'[w] = "idle"
      /\ \A v \in Writers \ {w} :
           pc'[v] = pc[v] /\ call'[v] = call[v] /\ seen'[v] = seen[v]
      /\ UNCHANGED <<rows, chunks, mark>>
  BY DEF Quit, Return, TypeOK
<1>3. LockOwned'
  <2> SUFFICES ASSUME NEW v \in Writers PROVE (HoldsLock(v) <=> lock = v)'
    BY DEF LockOwned
  <2> USE WritersAssumption
  <2>1. CASE v = w
    BY <1>2, <2>1 DEF Quit, Unlocked, HoldsLock
  <2>2. CASE v # w
    <3>1. HoldsLock(v)' <=> HoldsLock(v)
      BY <1>2, <2>2 DEF HoldsLock
    <3>2. lock' = v <=> lock = v
      BY <2>2 DEF Quit, Unlocked
    <3> QED
      BY <3>1, <3>2 DEF LockOwned
  <2> QED
    BY <2>1, <2>2
<1>4. ChunksTile' /\ MissingRowsAreDefault'
  BY <1>2 DEF ChunksTile, NoOverlap, NoGap, MissingRowsAreDefault
<1>5. SnapshotsAreVersioned'
  <2> SUFFICES ASSUME NEW v \in Writers, NEW s \in Streams, HasRead(v, s)'
               PROVE  /\ seen'[v][s].version <= rows'[s].version
                      /\ seen'[v][s].version = rows'[s].version => seen'[v][s] = rows'[s]
    BY DEF SnapshotsAreVersioned
  <2>1. v # w
    BY <1>2 DEF HasRead
  <2>2. HasRead(v, s) /\ seen'[v][s] = seen[v][s]
    BY <1>2, <2>1 DEF HasRead
  <2> QED
    BY <1>2, <2>2 DEF SnapshotsAreVersioned
<1>6. WaitersInsert'
  <2> SUFFICES ASSUME NEW v \in Writers, pc'[v] = "lock"
               PROVE  call'[v].epoch # None /\ IsNew(seen'[v][call'[v].stream])
    BY DEF WaitersInsert
  <2>1. v # w
    BY <1>2
  <2> QED
    BY <1>2, <2>1 DEF WaitersInsert
<1>7. WritersWereJudged'
  <2> SUFFICES ASSUME NEW v \in Writers, pc'[v] = "write", call'[v].epoch # None
               PROVE  (IF IsNew(seen[v][call[v].stream]) THEN call[v].epoch >= mark
                       ELSE call[v].epoch >= seen[v][call[v].stream].epoch)'
    BY DEF WritersWereJudged
  <2>1. v # w
    BY <1>2
  <2> QED
    BY <1>2, <2>1 DEF WritersWereJudged
<1> QED
  BY <1>1, <1>3, <1>4, <1>5, <1>6, <1>7

LEMMA MoveKeepsInv ==
  ASSUME WriterInv, NEW w \in Writers, WriterMove(w)
  PROVE  WriterInv'
<1>1. CASE Quit(w)
  BY <1>1, QuitKeepsInv
<1>2. CASE SessionStep(w)
  BY <1>2, TypeStep, WaitersStep, LockStep, JudgedStep, SnapshotsStep,
     MissingStep, TileStep DEF WriterInv
<1> QED
  BY <1>1, <1>2, MoveIsSessionStep

(* A call is replaced by a sync's next one, given up, or kept.                *)
LEMMA CallsStep ==
  ASSUME TypeOK, CallsInStep, NEW w \in Writers, WriterMove(w)
  PROVE  CallsInStep'
<1> DEFINE Good(r) == /\ r.nomadAfter = None => r.after <= LogLength
                      /\ r.nomadAfter # None =>
                           r.after # None /\ InStep(r.nomadAfter, r.after)
<1>1. Good(NoCall)
  BY SyncAssumption DEF NoCall, None
<1>2. \/ call' = call
      \/ call' = [call EXCEPT ![w] = NoCall]
      \/ \E r \in SyncRequests : GoodCall(r) /\ call' = [call EXCEPT ![w] = r]
  BY DEF WriterMove, BeginAppend, BeginReset, WriterStep, ReadRow, LockFirstInsert,
     WriteRow, LoseRace, ResetLock, ResetList, ResetWrite, LoseDrain, Quit, Return, GoTo
<1>3. \A r : GoodCall(r) => Good(r)
  BY DEF GoodCall
<1> HIDE DEF Good
<1>4. \A v \in Writers : Good(call[v])
  BY DEF CallsInStep, Good
<1>5. \A v \in Writers : Good(call'[v])
  BY <1>1, <1>2, <1>3, <1>4 DEF TypeOK
<1> QED
  BY <1>5 DEF CallsInStep, Good

(* A row's cursors are those of the last call that named offsets, or zero.     *)
LEMMA RowsStep ==
  ASSUME WriterInv, RowsInStep, CallsInStep, NEW w \in Writers, WriterMove(w)
  PROVE  RowsInStep'
<1> USE DEF WriterInv
<1> SUFFICES ASSUME NEW s \in Streams
             PROVE  InStep(rows'[s].nomad, rows'[s].producer)
  BY DEF RowsInStep
<1>1. /\ InStep(rows[s].nomad, rows[s].producer)
      /\ rows[s].nomad \in Nat /\ rows[s].producer \in Nat
  BY DEF RowsInStep, TypeOK, Row
<1>2. CASE WriteRow(w)
  <2> DEFINE r == call[w]
             t == r.stream
             old == seen[w][t]
  <2>1. r \in Request /\ t \in Streams
    BY CallIsRequest DEF Request
  <2>2. old = rows[t]
    BY <1>2, <2>1 DEF WriteRow, StillCurrent, SnapshotsAreVersioned, HasRead
  <2>3. PICK aged \in BOOLEAN : rows' = [rows EXCEPT ![t] = AppendedRow(old, r, aged)]
    BY <1>2 DEF WriteRow
  <2>4. CASE s # t
    BY <1>1, <2>1, <2>3, <2>4 DEF TypeOK
  <2>5. CASE s = t
    <3>1. /\ rows'[s].nomad = Kept(r.nomadAfter, rows[s].nomad)
          /\ rows'[s].producer = Kept(r.after, rows[s].producer)
      BY <2>1, <2>2, <2>3, <2>5 DEF TypeOK, AppendedRow
    <3>2. /\ r.nomadAfter = None => r.after <= LogLength
          /\ r.nomadAfter # None => r.after # None /\ InStep(r.nomadAfter, r.after)
      BY DEF CallsInStep
    <3>3. r.after \in Int /\ r.nomadAfter \in Int /\ LogLength \in Nat
      BY <2>1, SyncAssumption DEF Request, None
    <3> HIDE DEF r, t, old
    <3>4. CASE r.nomadAfter = None
      BY <1>1, <3>1, <3>2, <3>3, <3>4 DEF Kept, InStep
    <3>5. CASE r.nomadAfter # None
      BY <3>1, <3>2, <3>5 DEF Kept
    <3> QED
      BY <3>4, <3>5
  <2> QED
    BY <2>4, <2>5
<1>3. CASE ResetWrite(w)
  <2>1. rows'[s] = ResetRow(w, s)
    BY <1>3 DEF ResetWrite
  <2>2. \/ rows'[s] = rows[s]
        \/ rows'[s].nomad = 0 /\ rows'[s].producer = 0
    BY <2>1 DEF ResetRow
  <2>3. InStep(0, 0)
    BY SyncAssumption DEF InStep
  <2> QED
    BY <1>1, <2>2, <2>3
<1>4. CASE ~WriteRow(w) /\ ~ResetWrite(w)
  <2>1. rows' = rows
    BY <1>4 DEF WriterMove, BeginAppend, BeginReset, WriterStep, ReadRow,
       LockFirstInsert, LoseRace, ResetLock, ResetList, LoseDrain, Quit, dbVars
  <2> QED
    BY <1>1, <2>1
<1> QED
  BY <1>2, <1>3, <1>4

-----------------------------------------------------------------------------
(* The parts of the invariant. *)

FrameOK(f) ==
  /\ f \in Frame
  /\ \A s \in Streams : /\ f.delta[s].nomad <= f.delta[s].to
                        /\ InStep(f.delta[s].nomad, f.delta[s].producer)
  /\ f.legacy > 0 => f.prev # NoAlloc
  /\ f.step \in {"migrate", "backfill"} => f.legacy > 0
  /\ f.step \notin {"idle", "resolve", "save"} => f.alloc # NoAlloc
  /\ f.step = "poll" => f.polls < DrainAttempts

FramesOK == sync \in [Writers -> Frame] /\ \A w \in Writers : FrameOK(sync[w])

NomadOK ==
  /\ alloc \in Epochs \cup {NoAlloc} /\ dead \in BOOLEAN
  /\ written \in [Epochs -> [Streams -> 0 .. LogLength]]

HistoryOK ==
  /\ tracked \in Epochs \cup {NoAlloc} /\ status \in Results
  /\ legacy \in {0, LegacyLength}
  /\ legacy > 0 => tracked # NoAlloc

FaultsOK == aborts \in 0 .. MaxAborts /\ refused \in 0 .. MaxFetchErrors

LEMMA InvParts ==
  LogSyncInv <=> /\ WriterInv /\ RowsInStep /\ CallsInStep
                 /\ NomadOK /\ HistoryOK /\ FaultsOK /\ FramesOK
<1>1. SyncTypeOK <=> /\ TypeOK /\ alloc \in Epochs \cup {NoAlloc} /\ dead \in BOOLEAN
                     /\ written \in [Epochs -> [Streams -> 0 .. LogLength]]
                     /\ tracked \in Epochs \cup {NoAlloc} /\ status \in Results
                     /\ legacy \in {0, LegacyLength}
                     /\ sync \in [Writers -> Frame] /\ FaultsOK
  BY DEF SyncTypeOK, FaultsOK
<1>2. DeltasInStep <=> \A w \in Writers : \A s \in Streams :
                         /\ sync[w].delta[s].nomad <= sync[w].delta[s].to
                         /\ InStep(sync[w].delta[s].nomad, sync[w].delta[s].producer)
  BY DEF DeltasInStep
<1>3. FramesNameAllocations <=>
        /\ legacy > 0 => tracked # NoAlloc
        /\ \A w \in Writers :
             /\ sync[w].legacy > 0 => sync[w].prev # NoAlloc
             /\ sync[w].step \in {"migrate", "backfill"} => sync[w].legacy > 0
             /\ sync[w].step \notin {"idle", "resolve", "save"} => sync[w].alloc # NoAlloc
             /\ sync[w].step = "poll" => sync[w].polls < DrainAttempts
  BY DEF FramesNameAllocations
<1>4. FramesOK <=>
        /\ sync \in [Writers -> Frame]
        /\ \A w \in Writers :
             /\ \A s \in Streams :
                  /\ sync[w].delta[s].nomad <= sync[w].delta[s].to
                  /\ InStep(sync[w].delta[s].nomad, sync[w].delta[s].producer)
             /\ sync[w].legacy > 0 => sync[w].prev # NoAlloc
             /\ sync[w].step \in {"migrate", "backfill"} => sync[w].legacy > 0
             /\ sync[w].step \notin {"idle", "resolve", "save"} => sync[w].alloc # NoAlloc
             /\ sync[w].step = "poll" => sync[w].polls < DrainAttempts
  BY DEF FramesOK, FrameOK
<1>5. WriterInv => TypeOK
  BY DEF WriterInv
<1> QED
  BY <1>1, <1>2, <1>3, <1>4, <1>5 DEF LogSyncInv, NomadOK, HistoryOK, FaultsOK

LEMMA InvPartsNext ==
  (LogSyncInv <=> /\ WriterInv /\ RowsInStep /\ CallsInStep
                  /\ NomadOK /\ HistoryOK /\ FaultsOK /\ FramesOK)'
BY InvParts, PTL

(* A sync that goes on to a well-formed frame keeps all frames well-formed.    *)
LEMMA AdvanceKeeps ==
  ASSUME FramesOK, NEW w \in Writers, NEW f, FrameOK(f), Advance(w, f)
  PROVE  FramesOK'
<1>1. sync' \in [Writers -> Frame]
  BY DEF FramesOK, FrameOK, Advance
<1>2. ASSUME NEW v \in Writers PROVE FrameOK(sync'[v])
  BY DEF FramesOK, Advance
<1> QED
  BY <1>1, <1>2 DEF FramesOK, FrameOK

-----------------------------------------------------------------------------
(* Frames. *)

(* A sync that knows its allocation may go on to any of these.                *)
Onward == {"reset", "offsets", "fetch", "write", "list", "flush", "save"}

LEMMA GoesOn ==
  ASSUME NEW f, FrameOK(f), f.alloc # NoAlloc, NEW step \in Onward
  PROVE  FrameOK([f EXCEPT !.step = step])
BY DEF FrameOK, Frame, Steps, Onward

LEMMA TakesOver ==
  ASSUME NEW f, FrameOK(f), NEW todo \in SUBSET Streams
  PROVE  FrameOK([f EXCEPT !.todo = todo])
BY DEF FrameOK, Frame

LEMMA NothingInStep == Nothing \in Delta /\ Nothing.nomad <= Nothing.to
                         /\ InStep(Nothing.nomad, Nothing.producer)
BY SyncAssumption DEF Nothing, Delta, InStep

LEMMA Forgets ==
  ASSUME NEW f, FrameOK(f)
  PROVE  FrameOK([f EXCEPT !.delta = NoDelta])
BY NothingInStep DEF FrameOK, Frame, NoDelta

LEMMA NoFrameOK == FrameOK(NoFrame)
<1>1. NoFrame.delta \in [Streams -> Delta]
  BY NothingInStep DEF NoFrame, NoDelta
<1>2. \A s \in Streams : NoFrame.delta[s] = Nothing
  BY DEF NoFrame, NoDelta
<1>3. NoFrame \in Frame
  BY <1>1, SyncAssumption DEF NoFrame, Frame, Steps, Results
<1> QED
  BY <1>2, <1>3, NothingInStep DEF FrameOK, NoFrame

LEMMA MigrationEnds ==
  ASSUME NEW f, FrameOK(f), f.alloc # NoAlloc
  PROVE  FrameOK(AfterMigration(f))
BY GoesOn DEF AfterMigration, Onward

LEMMA DrainEnds ==
  ASSUME NEW f, FrameOK(f), f.alloc # NoAlloc
  PROVE  FrameOK(AfterDrain(f))
<1>1. FrameOK([f EXCEPT !.step = "list"])
  BY GoesOn DEF Onward
<1>2. FrameOK([f EXCEPT !.step = "offsets", !.final = TRUE])
  BY DEF FrameOK, Frame, Steps
<1> QED
  BY <1>1, <1>2 DEF AfterDrain

LEMMA WritesEnd ==
  ASSUME NEW f, FrameOK(f), f.alloc # NoAlloc
  PROVE  FrameOK(AfterWrites(f))
<1>1. FrameOK([f EXCEPT !.step = "save"])
  BY GoesOn DEF Onward
<1>2. f.polls < DrainAttempts => FrameOK([f EXCEPT !.step = "poll"])
  BY DEF FrameOK, Frame, Steps
<1> QED
  BY <1>1, <1>2, DrainEnds DEF AfterWrites

(* The cursors a sync reads are those of rows in step.                        *)
LEMMA CursorInStep ==
  ASSUME TypeOK, RowsInStep, NEW s \in Streams, NEW e
  PROVE  /\ Cursor(rows[s], e) \in Delta
         /\ Cursor(rows[s], e).nomad <= Cursor(rows[s], e).to
         /\ InStep(Cursor(rows[s], e).nomad, Cursor(rows[s], e).producer)
<1>1. rows[s].nomad \in Nat /\ rows[s].producer \in Nat
  BY DEF TypeOK, Row
<1>2. InStep(rows[s].nomad, rows[s].producer)
  BY DEF RowsInStep
<1>3. rows[s].nomad \in 0 .. LogLength
  BY <1>1, <1>2, SyncAssumption DEF InStep
<1>4. Cursor(rows[s], e) = Nothing
      \/ Cursor(rows[s], e) = [nomad |-> rows[s].nomad, producer |-> rows[s].producer,
                               to |-> rows[s].nomad]
  BY DEF Cursor
<1> QED
  BY <1>1, <1>2, <1>3, <1>4, NothingInStep DEF Delta

(* A fetch reads on from its cursor, and no further than the log.             *)
LEMMA ReadableOn ==
  ASSUME NomadOK, NEW f, FrameOK(f), f.alloc # NoAlloc, NEW s \in Streams
  PROVE  Readable(f, s) \in 0 .. LogLength /\ f.delta[s].nomad <= Readable(f, s)
<1> DEFINE from == f.delta[s].nomad
           length == Max({from, written[f.alloc][s]})
           complete == {from} \cup { n \in LineEnds : from < n /\ n <= length }
<1>1. /\ from \in 0 .. LogLength /\ written[f.alloc][s] \in 0 .. LogLength
      /\ LogLength \in Nat
  <2>1. f.alloc \in Epochs /\ f.delta[s] \in Delta /\ InStep(from, f.delta[s].producer)
    BY DEF FrameOK, Frame
  <2>2. from \in Nat /\ from <= LogLength
    BY <2>1 DEF Delta, InStep
  <2> QED
    BY <2>1, <2>2, SyncAssumption DEF NomadOK
<1> HIDE DEF from
<1>2. length \in 0 .. LogLength /\ from <= length
  <2>1. {from, written[f.alloc][s]} \subseteq 0 .. LogLength
    BY <1>1
  <2> QED
    BY <1>1, <2>1, MaxIsGreatest
<1> HIDE DEF length
<1>3. Max(complete) \in 0 .. LogLength /\ from <= Max(complete)
  <2>1. complete \subseteq 0 .. LogLength /\ from \in complete
    <3>1. LineEnds \subseteq 0 .. LogLength
      BY <1>1, SyncAssumption
    <3> QED
      BY <1>1, <3>1
  <2> HIDE DEF complete
  <2> QED
    BY <1>1, <2>1, MaxIsGreatest
<1> HIDE DEF complete
<1>4. Readable(f, s) = IF s \in Anonymized /\ ~f.final THEN Max(complete) ELSE length
  BY DEF Readable, CompleteLines, from, length, complete
<1> QED
  BY <1>2, <1>3, <1>4 DEF from

-----------------------------------------------------------------------------
(* The calls a sync makes are calls the writer may be given. *)

LEMMA LegacyCall ==
  ASSUME NEW w \in Writers, FrameOK(sync[w]), sync[w].step = "backfill",
         NEW s \in Streams
  PROVE  GoodCall(LegacyRequest(w, s))
<1> DEFINE e == sync[w].prev
           length == sync[w].legacy
<1>1. e \in Epochs /\ length \in 0 .. LogLength /\ LogLength \in Nat
  BY SyncAssumption DEF FrameOK, Frame
<1>2. LegacyRequest(w, s) = [stream |-> s, data |-> Part(e, 0, length), force |-> TRUE,
        after |-> length, nomadAfter |-> None, epoch |-> None]
  BY DEF LegacyRequest
<1> HIDE DEF e, length
<1>3. 0 \in 0 .. LogLength /\ 0 <= length /\ length - 0 = length
  BY <1>1
<1>4. Len(Part(e, 0, length)) = length
  BY <1>1, <1>3, PartType
<1>5. length \in 0 .. 2 * LogLength /\ length <= LogLength /\ length # None
  BY <1>1 DEF None
<1>6. Part(e, 0, length) \in { Part(d, from, to) : d \in Epochs, from, to \in 0 .. LogLength }
  BY <1>1, <1>3
<1>7. LegacyRequest(w, s) \in SyncRequests
  BY <1>1, <1>2, <1>4, <1>5, <1>6 DEF SyncRequests
<1> QED
  BY <1>2, <1>5, <1>7 DEF GoodCall

LEMMA DeltaCall ==
  ASSUME NEW w \in Writers, FrameOK(sync[w]), sync[w].step = "write",
         NEW s \in Streams
  PROVE  GoodCall(DeltaRequest(w, s))
<1> DEFINE e == sync[w].alloc
           from == sync[w].delta[s].nomad
           to == sync[w].delta[s].to
           producer == sync[w].delta[s].producer
           after == producer + (to - from)
<1>1. /\ e \in Epochs /\ from \in Nat /\ to \in 0 .. LogLength /\ producer \in Nat
      /\ from <= to /\ producer <= from + LogLength /\ LogLength \in Nat
  BY SyncAssumption DEF FrameOK, Frame, Delta, InStep
<1>2. DeltaRequest(w, s) = [stream |-> s, data |-> Part(e, from, to),
        force |-> Terminal(sync[w]), after |-> after, nomadAfter |-> to, epoch |-> e]
  BY DEF DeltaRequest
<1> HIDE DEF e, from, to, producer
<1>3. /\ from \in 0 .. LogLength /\ after \in 0 .. 2 * LogLength /\ after # None
      /\ to # None /\ after >= to - from /\ InStep(to, after)
  BY <1>1 DEF None, InStep
<1> HIDE DEF after
<1>4. Len(Part(e, from, to)) = to - from
  BY <1>1, <1>3, PartType
<1>5. Part(e, from, to) \in { Part(d, x, y) : d \in Epochs, x, y \in 0 .. LogLength }
  BY <1>1, <1>3
<1>6. DeltaRequest(w, s) \in SyncRequests
  BY <1>1, <1>2, <1>3, <1>4, <1>5 DEF SyncRequests, Terminal
<1> QED
  BY <1>2, <1>3, <1>6 DEF GoodCall

LEMMA FlushCall ==
  ASSUME NEW s \in Streams
  PROVE  GoodCall(FlushRequest(s))
<1>1. PICK e \in Epochs : TRUE
  BY SyncAssumption
<1>2. LogLength \in Nat /\ 0 \in 0 .. LogLength /\ 0 <= 0 /\ 0 - 0 = 0
  BY SyncAssumption
<1>3. Part(e, 0, 0) = <<>>
  BY <1>2, PartType, EmptySeq
<1>4. <<>> \in { Part(d, x, y) : d \in Epochs, x, y \in 0 .. LogLength }
  BY <1>1, <1>2, <1>3
<1>5. FlushRequest(s) \in SyncRequests
  BY <1>4 DEF FlushRequest, SyncRequests
<1> QED
  BY <1>2, <1>5 DEF GoodCall, FlushRequest, None

-----------------------------------------------------------------------------
(* The steps. *)

(* What Nomad does touches neither the database nor a sync.                   *)
NomadStep ==
  (\E s \in Streams : LogmonWrites(s)) \/ Schedule \/ JobDies \/ JobPurged

LEMMA NomadSteps ==
  ASSUME NomadOK, NomadStep
  PROVE  NomadOK' /\ UNCHANGED <<writerVars, historyVars, sync, faultVars>>
<1>1. CASE \E s \in Streams : LogmonWrites(s)
  <2>1. PICK s \in Streams : LogmonWrites(s)
    BY <1>1
  <2>2. /\ alloc \in Epochs /\ written[alloc][s] < LogLength
        /\ UNCHANGED <<alloc, dead>>
    BY <2>1 DEF LogmonWrites, NomadOK
  <2>3. written' = [written EXCEPT ![alloc] =
          [written[alloc] EXCEPT ![s] = written[alloc][s] + 1]]
    BY <2>1 DEF LogmonWrites
  <2>4. written[alloc] \in [Streams -> 0 .. LogLength]
    BY <2>2 DEF NomadOK
  <2>5. written[alloc][s] + 1 \in 0 .. LogLength
    BY <2>2, <2>4, SyncAssumption
  <2>6. [written[alloc] EXCEPT ![s] = written[alloc][s] + 1] \in [Streams -> 0 .. LogLength]
    BY <2>4, <2>5
  <2>7. written' \in [Epochs -> [Streams -> 0 .. LogLength]]
    BY <2>2, <2>3, <2>6 DEF NomadOK
  <2> QED
    BY <2>1, <2>2, <2>7 DEF LogmonWrites, NomadOK
<1>2. CASE Schedule \/ JobDies \/ JobPurged
  BY <1>2 DEF Schedule, JobDies, JobPurged, NomadOK
<1> QED
  BY <1>1, <1>2 DEF NomadStep

(* What a sync does to the writer: nothing, or one of its session's moves.    *)
LEMMA SyncMoves ==
  ASSUME WriterInv, FramesOK, NEW w \in Writers,
         StartSync(w) \/ SyncStep(w) \/ AbortSync(w)
  PROVE  UNCHANGED writerVars \/ WriterMove(w)
<1>1. AtRest(w) \/ pc[w] = "raised" => lock # w
  BY DEF WriterInv, LockOwned, HoldsLock, AtRest
<1>2. CASE StartSync(w) \/ Raise(w) \/ AbortSync(w)
  BY <1>1, <1>2 DEF StartSync, Raise, AbortSync, WriterMove, Quit, Unlocked, dbVars
<1>3. CASE Backfill(w)
  <2>1. PICK s \in sync[w].todo : BeginAppend(w, LegacyRequest(w, s))
    BY <1>3 DEF Backfill
  <2>2. FrameOK(sync[w]) /\ s \in Streams /\ sync[w].step = "backfill"
    BY <1>3 DEF FramesOK, Frame, Backfill, At
  <2>3. GoodCall(LegacyRequest(w, s))
    BY <2>2, LegacyCall
  <2> QED
    BY <2>1, <2>3 DEF WriterMove, GoodCall
<1>4. CASE WriteDelta(w)
  <2>1. PICK s \in sync[w].todo : BeginAppend(w, DeltaRequest(w, s))
    BY <1>4 DEF WriteDelta
  <2>2. FrameOK(sync[w]) /\ s \in Streams /\ sync[w].step = "write"
    BY <1>4 DEF FramesOK, Frame, WriteDelta, At
  <2>3. GoodCall(DeltaRequest(w, s))
    BY <2>2, DeltaCall
  <2> QED
    BY <2>1, <2>3 DEF WriterMove, GoodCall
<1>5. CASE FlushRow(w)
  <2>1. PICK s \in sync[w].todo : BeginAppend(w, FlushRequest(s))
    BY <1>5 DEF FlushRow
  <2>2. s \in Streams
    BY DEF FramesOK, Frame
  <2>3. GoodCall(FlushRequest(s))
    BY <2>2, FlushCall
  <2> QED
    BY <2>1, <2>3 DEF WriterMove, GoodCall
<1>6. CASE Reset(w)
  <2>1. sync[w].alloc \in Epochs
    BY <1>6 DEF FramesOK, FrameOK, Frame, Reset, At
  <2> QED
    BY <1>6, <2>1 DEF Reset, WriterMove
<1>7. CASE InWriter(w)
  BY <1>7 DEF InWriter, WriterMove
<1>8. CASE Resolve(w) \/ ResolveNothing(w) \/ ListLegacy(w) \/ Offsets(w) \/ Fetch(w)
           \/ Poll(w) \/ ListRows(w) \/ Save(w)
  BY <1>8 DEF Resolve, ResolveNothing, ListLegacy, Offsets, Fetch, Poll, ListRows, Save
<1> QED
  BY <1>2, <1>3, <1>4, <1>5, <1>6, <1>7, <1>8 DEF SyncStep

(* What a sync's step makes of its frame.                                    *)
LEMMA FramesStep ==
  ASSUME LogSyncInv, NEW w \in Writers, StartSync(w) \/ SyncStep(w) \/ AbortSync(w)
  PROVE  FramesOK'
<1> DEFINE f == sync[w]
<1>0. /\ TypeOK /\ RowsInStep /\ NomadOK /\ HistoryOK /\ FramesOK /\ FrameOK(f)
      /\ f.todo \in SUBSET Streams
  BY InvParts DEF FramesOK, WriterInv, Frame
<1> SUFFICES \/ UNCHANGED sync
             \/ \E g : FrameOK(g) /\ Advance(w, g)
  <2>1. CASE UNCHANGED sync
    BY <1>0, <2>1 DEF FramesOK
  <2>2. ASSUME NEW g, FrameOK(g), Advance(w, g) PROVE FramesOK'
    BY <1>0, <2>2, AdvanceKeeps
  <2> QED
    BY <2>1, <2>2
<1>1. CASE StartSync(w)
  <2> DEFINE g == [NoFrame EXCEPT !.step = "resolve", !.prev = tracked, !.legacy = legacy]
  <2>1. FrameOK(g)
    BY <1>0, NoFrameOK DEF FrameOK, Frame, NoFrame, Steps, HistoryOK
  <2> QED
    BY <1>1, <2>1 DEF StartSync
<1>2. CASE Resolve(w)
  <2> DEFINE g == [f EXCEPT !.alloc = alloc, !.result = IF dead THEN "DONE" ELSE "RUNNING"]
  <2>1. f.step = "resolve" /\ alloc # NoAlloc /\ alloc \in Epochs
    BY <1>0, <1>2 DEF Resolve, At, NomadOK
  <2>2. FrameOK(g) /\ g.alloc # NoAlloc /\ g.legacy = f.legacy
    BY <1>0, <2>1 DEF FrameOK, Frame, Results
  <2> HIDE DEF g
  <2>3. g.legacy > 0 => FrameOK([g EXCEPT !.step = "migrate"])
    BY <2>2 DEF FrameOK, Frame, Steps
  <2>4. FrameOK(AfterMigration(g))
    BY <2>2, MigrationEnds
  <2>5. Advance(w, IF g.legacy > 0 THEN [g EXCEPT !.step = "migrate"]
                   ELSE AfterMigration(g))
    BY <1>2 DEF Resolve, g
  <2> QED
    BY <2>3, <2>4, <2>5
<1>3. CASE ResolveNothing(w)
  <2> DEFINE g == [f EXCEPT !.step = "save", !.result = IF dead THEN "LOST" ELSE "RUNNING"]
  <2>1. FrameOK(g)
    BY <1>0 DEF FrameOK, Frame, Steps, Results
  <2> QED
    BY <1>3, <2>1 DEF ResolveNothing
<1>4. CASE ListLegacy(w)
  <2> DEFINE missing == { s \in Streams : IsNew(rows[s]) }
  <2>1. f.step = "migrate" /\ f.alloc # NoAlloc
    BY <1>0, <1>4 DEF ListLegacy, At, FrameOK
  <2>2. FrameOK(AfterMigration(f))
    BY <1>0, <2>1, MigrationEnds
  <2>3. FrameOK([f EXCEPT !.todo = missing, !.step = "backfill"])
    <3>1. missing \in SUBSET Streams
      OBVIOUS
    <3> HIDE DEF missing
    <3> QED
      BY <1>0, <2>1, <3>1 DEF FrameOK, Frame, Steps
  <2>4. \/ Advance(w, AfterMigration(f))
        \/ Advance(w, [f EXCEPT !.todo = missing, !.step = "backfill"])
    BY <1>4 DEF ListLegacy
  <2> QED
    BY <2>2, <2>3, <2>4
<1>5. CASE Backfill(w)
  <2>1. PICK s \in f.todo :
          LET left == [f EXCEPT !.todo = @ \ {s}] IN
          Advance(w, IF left.todo # {} THEN left ELSE AfterMigration(left))
    BY <1>5 DEF Backfill
  <2> DEFINE left == [f EXCEPT !.todo = f.todo \ {s}]
  <2>2. FrameOK(left) /\ left.alloc # NoAlloc
    <3>1. FrameOK(left)
      BY <1>0, TakesOver
    <3>2. left.alloc = f.alloc /\ f.alloc # NoAlloc
      BY <1>0, <1>5 DEF Backfill, At, FrameOK, Frame
    <3> QED
      BY <3>1, <3>2
  <2>3. Advance(w, IF left.todo # {} THEN left ELSE AfterMigration(left))
    BY <2>1
  <2> HIDE DEF left
  <2> QED
    BY <2>2, <2>3, MigrationEnds
<1>6. CASE Reset(w)
  <2>1. Advance(w, [f EXCEPT !.step = "offsets"]) /\ f.alloc # NoAlloc
    BY <1>0, <1>6 DEF Reset, At, FrameOK
  <2>2. FrameOK([f EXCEPT !.step = "offsets"])
    BY <1>0, <2>1, GoesOn DEF Onward
  <2> QED
    BY <2>1, <2>2
<1>7. CASE Offsets(w)
  <2> DEFINE delta == [s \in Streams |-> Cursor(rows[s], f.alloc)]
  <2>1. Advance(w, [f EXCEPT !.step = "fetch", !.delta = delta]) /\ f.alloc # NoAlloc
    BY <1>0, <1>7 DEF Offsets, At, FrameOK
  <2>2. /\ delta \in [Streams -> Delta]
        /\ \A s \in Streams : /\ delta[s].nomad <= delta[s].to
                              /\ InStep(delta[s].nomad, delta[s].producer)
    BY <1>0, CursorInStep
  <2> HIDE DEF delta
  <2>3. FrameOK([f EXCEPT !.step = "fetch", !.delta = delta])
    BY <1>0, <2>1, <2>2 DEF FrameOK, Frame, Steps
  <2> QED
    BY <2>1, <2>3
<1>8. CASE Fetch(w)
  <2>1. PICK ok \in SUBSET Streams :
          LET delta == [s \in Streams |->
                IF s \in ok THEN [f.delta[s] EXCEPT !.to = Readable(f, s)] ELSE f.delta[s]]
              got == [f EXCEPT !.delta = delta, !.todo = Due(f, delta),
                        !.advanced = IF f.polls > 0 THEN @ \cup Produced(delta) ELSE @]
          IN Advance(w, IF got.todo # {} THEN [got EXCEPT !.step = "write"]
                        ELSE IF f.polls > 0 /\ DrainIsQuiet(f, delta, ok)
                        THEN AfterDrain(got) ELSE AfterWrites(got))
    BY <1>8 DEF Fetch
  <2> DEFINE delta == [s \in Streams |->
               IF s \in ok THEN [f.delta[s] EXCEPT !.to = Readable(f, s)] ELSE f.delta[s]]
             reached == IF f.polls > 0 THEN f.advanced \cup Produced(delta) ELSE f.advanced
             got == [f EXCEPT !.delta = delta, !.todo = Due(f, delta), !.advanced = reached]
  <2>2. f.alloc # NoAlloc /\ f.step = "fetch"
    BY <1>0, <1>8 DEF Fetch, At, FrameOK
  <2>3. /\ delta \in [Streams -> Delta]
        /\ \A s \in Streams : /\ delta[s].nomad <= delta[s].to
                              /\ InStep(delta[s].nomad, delta[s].producer)
    <3> SUFFICES ASSUME NEW s \in Streams
                 PROVE  /\ delta[s] \in Delta
                        /\ delta[s].nomad <= delta[s].to
                        /\ InStep(delta[s].nomad, delta[s].producer)
      OBVIOUS
    <3>1. /\ f.delta[s] \in Delta /\ f.delta[s].nomad <= f.delta[s].to
          /\ InStep(f.delta[s].nomad, f.delta[s].producer)
      BY <1>0 DEF FrameOK, Frame
    <3>2. Readable(f, s) \in 0 .. LogLength /\ f.delta[s].nomad <= Readable(f, s)
      BY <1>0, <2>2, ReadableOn
    <3> HIDE DEF f
    <3> QED
      BY <3>1, <3>2 DEF Delta
  <2>4. Due(f, delta) \in SUBSET Streams /\ reached \in SUBSET Streams
    BY <1>0 DEF Due, Produced, FrameOK, Frame
  <2>5. Advance(w, IF got.todo # {} THEN [got EXCEPT !.step = "write"]
                   ELSE IF f.polls > 0 /\ DrainIsQuiet(f, delta, ok)
                   THEN AfterDrain(got) ELSE AfterWrites(got))
    BY <2>1
  <2> HIDE DEF delta, reached
  <2>6. FrameOK(got) /\ got.alloc # NoAlloc
    BY <1>0, <2>2, <2>3, <2>4 DEF FrameOK, Frame
  <2> HIDE DEF got
  <2>7. /\ FrameOK([got EXCEPT !.step = "write"]) /\ FrameOK(AfterDrain(got))
        /\ FrameOK(AfterWrites(got))
    BY <2>6, GoesOn, DrainEnds, WritesEnd DEF Onward
  <2> QED
    BY <2>5, <2>7
<1>9. CASE Poll(w)
  <2>1. /\ Advance(w, [f EXCEPT !.step = "offsets", !.polls = f.polls + 1])
        /\ f.alloc # NoAlloc /\ f.polls < DrainAttempts
    BY <1>0, <1>9 DEF Poll, At, FrameOK
  <2>2. FrameOK([f EXCEPT !.step = "offsets", !.polls = f.polls + 1])
    <3>1. f.polls + 1 \in 0 .. DrainAttempts
      BY <1>0, <2>1, SyncAssumption DEF FrameOK, Frame
    <3> QED
      BY <1>0, <2>1, <3>1 DEF FrameOK, Frame, Steps
  <2> QED
    BY <2>1, <2>2
<1>10. CASE WriteDelta(w)
  <2>1. PICK s \in f.todo :
          LET left == [f EXCEPT !.todo = @ \ {s}] IN
          Advance(w, IF left.todo # {} THEN left
                     ELSE [AfterWrites(left) EXCEPT !.delta = NoDelta])
    BY <1>10 DEF WriteDelta
  <2> DEFINE left == [f EXCEPT !.todo = f.todo \ {s}]
  <2>2. FrameOK(left) /\ left.alloc # NoAlloc
    <3>1. FrameOK(left)
      BY <1>0, TakesOver
    <3>2. left.alloc = f.alloc /\ f.alloc # NoAlloc
      BY <1>0, <1>10 DEF WriteDelta, At, FrameOK, Frame
    <3> QED
      BY <3>1, <3>2
  <2>3. Advance(w, IF left.todo # {} THEN left
                   ELSE [AfterWrites(left) EXCEPT !.delta = NoDelta])
    BY <2>1
  <2> HIDE DEF left
  <2> QED
    BY <2>2, <2>3, WritesEnd, Forgets
<1>11. CASE ListRows(w)
  <2> DEFINE stored == { s \in Streams : ~IsNew(rows[s]) }
             step == IF stored = {} THEN "save" ELSE "flush"
  <2>1. /\ Advance(w, [f EXCEPT !.todo = stored, !.delta = NoDelta, !.step = step])
        /\ f.alloc # NoAlloc
    BY <1>0, <1>11 DEF ListRows, At, FrameOK
  <2>2. stored \in SUBSET Streams /\ step \in Onward
    BY DEF Onward
  <2> HIDE DEF stored, step
  <2>3. FrameOK([f EXCEPT !.todo = stored, !.delta = NoDelta, !.step = step])
    <3>1. FrameOK([f EXCEPT !.todo = stored])
      BY <1>0, <2>2, TakesOver
    <3>2. FrameOK([[f EXCEPT !.todo = stored] EXCEPT !.delta = NoDelta])
      BY <3>1, Forgets
    <3>3. [f EXCEPT !.todo = stored, !.delta = NoDelta] =
            [[f EXCEPT !.todo = stored] EXCEPT !.delta = NoDelta]
      OBVIOUS
    <3>4. [[f EXCEPT !.todo = stored] EXCEPT !.delta = NoDelta].alloc # NoAlloc
      BY <1>0, <2>1 DEF FrameOK, Frame
    <3>5. FrameOK([[[f EXCEPT !.todo = stored] EXCEPT !.delta = NoDelta]
                    EXCEPT !.step = step])
      BY <2>2, <3>2, <3>4, GoesOn
    <3> QED
      BY <3>5
  <2> QED
    BY <2>1, <2>3
<1>12. CASE FlushRow(w)
  <2>1. PICK s \in f.todo :
          LET left == [f EXCEPT !.todo = @ \ {s}] IN
          Advance(w, IF left.todo # {} THEN left ELSE [left EXCEPT !.step = "save"])
    BY <1>12 DEF FlushRow
  <2> DEFINE left == [f EXCEPT !.todo = f.todo \ {s}]
  <2>2. FrameOK(left) /\ left.alloc # NoAlloc
    <3>1. FrameOK(left)
      BY <1>0, TakesOver
    <3>2. left.alloc = f.alloc /\ f.alloc # NoAlloc
      BY <1>0, <1>12 DEF FlushRow, At, FrameOK, Frame
    <3> QED
      BY <3>1, <3>2
  <2>3. Advance(w, IF left.todo # {} THEN left ELSE [left EXCEPT !.step = "save"])
    BY <2>1
  <2> HIDE DEF left
  <2> QED
    BY <2>2, <2>3, GoesOn DEF Onward
<1>13. CASE Save(w) \/ Raise(w) \/ AbortSync(w)
  BY <1>13, NoFrameOK DEF Save, Raise, AbortSync
<1>14. CASE InWriter(w)
  BY <1>14 DEF InWriter
<1> QED
  BY <1>1, <1>2, <1>3, <1>4, <1>5, <1>6, <1>7, <1>8, <1>9, <1>10, <1>11, <1>12, <1>13,
     <1>14 DEF SyncStep

(* What a sync commits of the task history, and its faults.                   *)
LEMMA HistoryStep ==
  ASSUME LogSyncInv, NEW w \in Writers, StartSync(w) \/ SyncStep(w) \/ AbortSync(w)
  PROVE  NomadOK' /\ HistoryOK' /\ FaultsOK'
<1>0. HistoryOK /\ NomadOK /\ FaultsOK /\ FrameOK(sync[w])
  BY InvParts DEF FramesOK
<1>1. CASE Save(w)
  <2>1. /\ tracked' = IF sync[w].alloc = NoAlloc THEN sync[w].prev ELSE sync[w].alloc
        /\ legacy' = IF sync[w].alloc = NoAlloc THEN sync[w].legacy ELSE 0
        /\ status' = sync[w].result
        /\ UNCHANGED <<nomadVars, faultVars>>
    BY <1>1 DEF Save
  <2>2. HistoryOK'
    BY <1>0, <2>1 DEF HistoryOK, FrameOK, Frame
  <2> QED
    BY <1>0, <2>1, <2>2 DEF NomadOK, FaultsOK, nomadVars, faultVars
<1>2. CASE Fetch(w)
  <2>1. UNCHANGED <<nomadVars, historyVars, aborts>>
    BY <1>2 DEF Fetch
  <2>2. PICK ok \in SUBSET Streams :
          IF Purged THEN ok = {} /\ UNCHANGED refused
          ELSE /\ refused' = refused + Cardinality(Streams \ ok)
               /\ refused' <= MaxFetchErrors
    BY <1>2 DEF Fetch
  <2>3. Cardinality(Streams \ ok) \in Nat
    <3>1. IsFiniteSet(Streams \ ok)
      BY SyncAssumption, FS_Subset
    <3> QED
      BY <3>1, FS_CardinalityType
  <2>4. refused' \in 0 .. MaxFetchErrors
    BY <1>0, <2>2, <2>3, SyncAssumption DEF FaultsOK
  <2> QED
    BY <1>0, <2>1, <2>4 DEF NomadOK, HistoryOK, FaultsOK, nomadVars, historyVars
<1>3. CASE AbortSync(w)
  <2>1. /\ UNCHANGED <<nomadVars, historyVars, refused>>
        /\ aborts < MaxAborts /\ aborts' = aborts + 1
    BY <1>3 DEF AbortSync
  <2> QED
    BY <1>0, <2>1, SyncAssumption DEF NomadOK, HistoryOK, FaultsOK, nomadVars, historyVars
<1>4. CASE \/ StartSync(w) \/ Resolve(w) \/ ResolveNothing(w) \/ ListLegacy(w)
           \/ Backfill(w) \/ Reset(w) \/ Offsets(w) \/ Poll(w) \/ WriteDelta(w)
           \/ ListRows(w) \/ FlushRow(w) \/ Raise(w) \/ InWriter(w)
  <2>1. UNCHANGED <<nomadVars, historyVars, faultVars>>
    BY <1>4 DEF StartSync, Resolve, ResolveNothing, ListLegacy, Backfill, Reset, Offsets,
       Poll, WriteDelta, ListRows, FlushRow, Raise, InWriter, Untouched
  <2> QED
    BY <1>0, <2>1 DEF NomadOK, HistoryOK, FaultsOK, nomadVars, historyVars, faultVars
<1> QED
  BY <1>1, <1>2, <1>3, <1>4 DEF SyncStep

-----------------------------------------------------------------------------
(* The theorems *)

(* A database that does not move keeps the writer's part of the invariant.    *)
LEMMA WriterStands ==
  ASSUME WriterInv, RowsInStep, CallsInStep, UNCHANGED writerVars
  PROVE  WriterInv' /\ RowsInStep' /\ CallsInStep'
<1>1. WriterInv'
  BY InvStep
<1> QED
  BY <1>1 DEF RowsInStep, CallsInStep, writerVars, dbVars, frameVars

(* A task starts with an empty store, or tracked with its old log.            *)
LEMMA LogSyncInit == SyncInit => LogSyncInv
<1> SUFFICES ASSUME SyncInit PROVE LogSyncInv
  OBVIOUS
<1>1. WriterInv
  BY InvInit DEF SyncInit
<1>2. RowsInStep /\ CallsInStep
  BY SyncAssumption
  DEF SyncInit, WriterInit, NoRows, DefaultRow, NoCall, None, RowsInStep, CallsInStep, InStep
<1>3. alloc \in Epochs \cup {NoAlloc} /\ (legacy > 0 => alloc # NoAlloc)
  <2>1. Min(Epochs) \in Epochs
    BY SyncAssumption, EpochsAssumption, MinIsLeast
  <2>2. Min(Epochs) # NoAlloc
    BY <2>1, EpochsAssumption DEF NoAlloc
  <2>3. legacy \in {0, LegacyLength} /\ alloc = IF legacy = 0 THEN NoAlloc ELSE Min(Epochs)
    BY DEF SyncInit
  <2> QED
    BY <2>1, <2>2, <2>3
<1>4. NomadOK /\ HistoryOK /\ FaultsOK
  <2>1. legacy \in 0 .. LogLength
    BY SyncAssumption DEF SyncInit
  <2>2. written \in [Epochs -> [Streams -> 0 .. LogLength]]
    BY <2>1, SyncAssumption DEF SyncInit
  <2> QED
    <3>1. dead = FALSE /\ tracked = alloc /\ status = "RUNNING" /\ aborts = 0 /\ refused = 0
      BY DEF SyncInit
    <3>2. NomadOK
      BY <1>3, <2>2, <3>1 DEF NomadOK
    <3>3. HistoryOK
      BY <1>3, <3>1 DEF SyncInit, HistoryOK, Results
    <3>4. FaultsOK
      BY <3>1, SyncAssumption DEF FaultsOK
    <3> QED
      BY <3>2, <3>3, <3>4
<1>5. FramesOK
  BY NoFrameOK DEF SyncInit, FramesOK, FrameOK
<1> QED
  BY <1>1, <1>2, <1>4, <1>5, InvParts

LEMMA LogSyncStep == LogSyncInv /\ [SyncNext]_syncVars => LogSyncInv'
<1> SUFFICES ASSUME LogSyncInv, [SyncNext]_syncVars PROVE LogSyncInv'
  OBVIOUS
<1>0. /\ WriterInv /\ RowsInStep /\ CallsInStep /\ TypeOK
      /\ NomadOK /\ HistoryOK /\ FaultsOK /\ FramesOK
  BY InvParts DEF WriterInv
<1>1. ASSUME NEW w \in Writers, StartSync(w) \/ SyncStep(w) \/ AbortSync(w)
      PROVE  LogSyncInv'
  <2>1. WriterInv' /\ RowsInStep' /\ CallsInStep'
    <3>1. CASE UNCHANGED writerVars
      BY <1>0, <3>1, WriterStands
    <3>2. CASE WriterMove(w)
      BY <1>0, <3>2, MoveKeepsInv, RowsStep, CallsStep
    <3> QED
      BY <1>0, <1>1, <3>1, <3>2, SyncMoves
  <2>2. NomadOK' /\ HistoryOK' /\ FaultsOK' /\ FramesOK'
    BY <1>1, HistoryStep, FramesStep
  <2> QED
    BY <2>1, <2>2, InvPartsNext
<1>2. CASE NomadStep
  <2>1. NomadOK' /\ UNCHANGED <<writerVars, historyVars, sync, faultVars>>
    BY <1>0, <1>2, NomadSteps
  <2>2. WriterInv' /\ RowsInStep' /\ CallsInStep'
    BY <1>0, <2>1, WriterStands
  <2>3. HistoryOK' /\ FaultsOK' /\ FramesOK'
    BY <1>0, <2>1 DEF HistoryOK, FaultsOK, FramesOK, historyVars, faultVars
  <2> QED
    BY <2>1, <2>2, <2>3, InvPartsNext
<1>3. CASE UNCHANGED syncVars
  <2>1. WriterInv' /\ RowsInStep' /\ CallsInStep'
    BY <1>0, <1>3, WriterStands DEF syncVars
  <2>2. NomadOK' /\ HistoryOK' /\ FaultsOK' /\ FramesOK'
    BY <1>0, <1>3 DEF syncVars, NomadOK, HistoryOK, FaultsOK, FramesOK,
       nomadVars, historyVars, faultVars
  <2> QED
    BY <2>1, <2>2, InvPartsNext
<1> QED
  BY <1>1, <1>2, <1>3 DEF SyncNext, NomadStep

(* Whatever syncs overlap, die or meet a new allocation, every call they make   *)
(* is one the writer may be given, and the writer's invariant holds.           *)
THEOREM LogSyncInvariant == SyncSpec => []LogSyncInv
BY LogSyncInit, LogSyncStep, PTL DEF SyncSpec

(* Every reachable state of the syncs, of Nomad and of the store is well typed. *)
THEOREM LogSyncTypeCorrect == SyncSpec => []SyncTypeOK
<1>1. LogSyncInv => SyncTypeOK
  BY DEF LogSyncInv
<1> QED
  BY <1>1, LogSyncInvariant, PTL

(* Under the syncs, crashes and refused requests included, the chunk rows of    *)
(* every stream tile its offsets.                                            *)
THEOREM SyncedChunksTile == SyncSpec => []ChunksTile
<1>1. LogSyncInv => ChunksTile
  BY DEF LogSyncInv, WriterInv
<1> QED
  BY <1>1, LogSyncInvariant, PTL

(* Under the syncs the store is an append-only log: no sync, however late, can   *)
(* rewrite or move a byte an earlier one stored.                              *)
THEOREM SyncedLogIsAppendOnly == SyncSpec => IsAppendOnlyLog
<1>1. SyncInit => Log!Init
  BY StoreInit DEF SyncInit
<1>2. LogSyncInv /\ LogSyncInv' /\ [SyncNext]_syncVars => [Log!Next]_(Log!vars)
  <2> SUFFICES ASSUME LogSyncInv, LogSyncInv', [SyncNext]_syncVars
               PROVE  Log!Next \/ UNCHANGED Log!vars
    OBVIOUS
  <2>1. WriterInv /\ WriterInv' /\ FramesOK /\ NomadOK
    BY InvParts, InvPartsNext
  <2>2. CASE UNCHANGED writerVars
    BY <2>2, LogStandsWithRows DEF writerVars, dbVars
  <2>3. ASSUME NEW w \in Writers, WriterMove(w)
        PROVE  Log!Next \/ UNCHANGED Log!vars
    <3>1. CASE Quit(w)
      BY <3>1, LogStandsWithRows DEF Quit
    <3>2. CASE SessionStep(w)
      BY <2>1, <3>2, SessionAppends
    <3> QED
      BY <2>3, <3>1, <3>2, MoveIsSessionStep
  <2>4. UNCHANGED writerVars \/ \E w \in Writers : WriterMove(w)
    BY <2>1, SyncMoves, NomadSteps DEF SyncNext, NomadStep, syncVars
  <2> QED
    BY <2>2, <2>3, <2>4
<1> QED
  BY <1>1, <1>2, LogSyncInvariant, PTL DEF SyncSpec, IsAppendOnlyLog, Log!Spec
================================================================================
