----------------------------- MODULE NomadLogSync ------------------------------
(***************************************************************************)
(* One running Nomad task and the sync cycles that copy its logs            *)
(* (NomadExecutor._sync_task_history and what it calls in                   *)
(* src/app/tasks/execution/executors/nomad/models.py), on top of the writer. *)
(*                                                                         *)
(* Every Writer runs one sync at a time: it loads the task history, resolves *)
(* the allocation Nomad has now, migrates a log of the old format, resets the *)
(* fetch frontier if the tracked allocation is another one, reads the cursors, *)
(* fetches, appends, drains when the job is dead, and saves tracking and      *)
(* status.  Two syncs overlap when one takes longer than SYNC_LOCK_TTL, and    *)
(* whenever a connectivity check polls its task, which it does without the     *)
(* claim (TaskSync models the claim).  An allocation is named by its           *)
(* CreateIndex; an anonymized stream keeps its bytes (redaction is a rewrite   *)
(* of complete lines) but withholds its last partial line.                    *)
(***************************************************************************)
EXTENDS LogWriter, FiniteSetsExt

CONSTANTS
  LogLength,       \* model bound: bytes an allocation writes to each stream
  DrainAttempts,   \* terminal_log_drain_max_attempts
  Anonymized,      \* the streams of the anonymized steps
  LineEnds,        \* the positions of the line terminators in a log
  LegacyLength,    \* bytes of each stream a task of the old format has shown
  MaxAborts,       \* model bound: syncs that crash or raise midway
  MaxFetchErrors   \* model bound: log requests Nomad refuses

NoAlloc == 0

ASSUME BytesAssumption == Bytes = Epochs \X (1 .. LogLength)
ASSUME SyncAssumption ==
  /\ Anonymized \subseteq Streams /\ LineEnds \subseteq 1 .. LogLength
  /\ LogLength \in Nat /\ LegacyLength \in 0 .. LogLength
  /\ DrainAttempts \in Nat /\ MaxAborts \in Nat /\ MaxFetchErrors \in Nat
  /\ IsFiniteSet(Streams) /\ Epochs # {}

Part(e, from, to) == [k \in 1 .. to - from |-> <<e, from + k>>]

(* The calls of append a sync may make: a piece of one allocation's log, up to  *)
(* an offset at most one log length ahead of Nomad's.                         *)
SyncRequests ==
  { r \in [stream: Streams, force: BOOLEAN,
           data: { Part(e, from, to) : e \in Epochs, from, to \in 0 .. LogLength },
           after: 0 .. 2 * LogLength \cup {None},
           nomadAfter: 0 .. LogLength \cup {None}, epoch: Epochs \cup {None}] :
      r.after # None => r.after >= Len(r.data) }
ASSUME SyncRequestsAssumption == SyncRequests \subseteq Requests

VARIABLES
  alloc,     \* Nomad: the latest allocation, NoAlloc before it and after its purge
  written,   \* Nomad: bytes of each allocation's log file
  dead,      \* Nomad: the job is dead and its allocation finished
  tracked,   \* tracking["allocation_id"] as committed
  legacy,    \* bytes of each stream in tracking["task_logs"], as committed
  status,    \* TaskHistory.status as committed: DONE for what the allocation tells
  sync,      \* the frame of each sync
  aborts,    \* number of aborted syncs
  refused    \* number of log requests Nomad refused

nomadVars == <<alloc, written, dead>>
historyVars == <<tracked, legacy, status>>
faultVars == <<aborts, refused>>
syncVars == <<writerVars, nomadVars, historyVars, sync, faultVars>>

Purged == dead /\ alloc = NoAlloc

Nothing == [nomad |-> 0, producer |-> 0, to |-> 0]
NoDelta == [s \in Streams |-> Nothing]
NoFrame == [step |-> "idle", prev |-> NoAlloc, alloc |-> NoAlloc, legacy |-> 0,
            result |-> "RUNNING", delta |-> NoDelta, todo |-> {}, advanced |-> {},
            polls |-> 0, final |-> FALSE]

Terminal(frame) == frame.result # "RUNNING"
Draining(frame) == frame.polls > 0 \/ frame.final

(* A task either starts now, or was tracked by the release that kept its logs *)
(* in tracking and has no state row yet.                                      *)
SyncInit ==
  /\ WriterInit
  /\ legacy \in {0, LegacyLength}
  /\ alloc = IF legacy = 0 THEN NoAlloc ELSE Min(Epochs)
  /\ written = [e \in Epochs |-> [s \in Streams |-> IF e = alloc THEN legacy ELSE 0]]
  /\ dead = FALSE
  /\ tracked = alloc
  /\ status = "RUNNING"
  /\ sync = [w \in Writers |-> NoFrame]
  /\ aborts = 0
  /\ refused = 0

-----------------------------------------------------------------------------
(* Nomad *)

(* logmon may write the tail after the job died.  Once the terminal drain polls, *)
(* it does so only for a stream of which the drain has read nothing yet, and in   *)
(* time for a poll that Nomad answers: that is what the interval and the number   *)
(* of attempts are for.                                                      *)
MayBegin(s, frame) ==
  /\ s \notin frame.advanced
  /\ frame.step \in {"poll", "offsets", "fetch", "write"} /\ ~frame.final
  /\ frame.polls + MaxFetchErrors < DrainAttempts
LogmonWrites(s) ==
  /\ alloc # NoAlloc /\ written[alloc][s] < LogLength
  /\ dead => status = "RUNNING" /\ \A w \in Writers : Draining(sync[w]) => MayBegin(s, sync[w])
  /\ written' = [written EXCEPT ![alloc][s] = @ + 1]
  /\ UNCHANGED <<writerVars, alloc, dead, historyVars, sync, faultVars>>

(* The pending evaluation places an allocation, or a follow-up one another.  *)
Schedule ==
  /\ ~dead
  /\ \E e \in Epochs : e > alloc /\ alloc' = e
  /\ UNCHANGED <<writerVars, written, dead, historyVars, sync, faultVars>>

JobDies ==
  /\ ~dead
  /\ dead' = TRUE
  /\ UNCHANGED <<writerVars, alloc, written, historyVars, sync, faultVars>>

(* Nomad's garbage collection takes the dead job and its allocations.        *)
JobPurged ==
  /\ dead /\ ~Purged
  /\ alloc' = NoAlloc
  /\ UNCHANGED <<writerVars, written, dead, historyVars, sync, faultVars>>

-----------------------------------------------------------------------------
(* A sync *)

At(w, step) == sync[w].step = step /\ AtRest(w) /\ pc[w] # "raised"

Advance(w, frame) == sync' = [sync EXCEPT ![w] = frame]

Untouched == UNCHANGED <<nomadVars, historyVars, faultVars>>

StartSync(w) ==
  /\ sync[w].step = "idle" /\ AtRest(w)
  /\ status = "RUNNING"
  /\ Advance(w, [NoFrame EXCEPT !.step = "resolve", !.prev = tracked, !.legacy = legacy])
  /\ Return(w, "idle")
  /\ UNCHANGED dbVars /\ Untouched

(* _resolve_running_allocation follows the follow-up evaluations to the latest *)
(* allocation; the job status read next decides whether this sync is terminal. *)
NeverSeesAnother(frame) == FALSE
SeesAnotherAllocation(frame) == frame.prev # NoAlloc /\ frame.prev # frame.alloc

AfterMigration(frame) ==
  [frame EXCEPT !.step = IF SeesAnotherAllocation(frame) THEN "reset" ELSE "offsets"]

Resolve(w) ==
  LET f == [sync[w] EXCEPT !.alloc = alloc, !.result = IF dead THEN "DONE" ELSE "RUNNING"]
  IN /\ At(w, "resolve")
     /\ alloc # NoAlloc
     /\ Advance(w, IF f.legacy > 0 THEN [f EXCEPT !.step = "migrate"]
                    ELSE AfterMigration(f))
     /\ UNCHANGED writerVars /\ Untouched

(* No allocation: the evaluation is pending, or the task is FAILED or LOST.  *)
ResolveNothing(w) ==
  /\ At(w, "resolve")
  /\ alloc = NoAlloc
  /\ Advance(w, [sync[w] EXCEPT !.step = "save",
                   !.result = IF dead THEN "LOST" ELSE "RUNNING"])
  /\ UNCHANGED writerVars /\ Untouched

(* backfill_legacy_logs: the streams without a state row, one append each,    *)
(* without an allocation epoch or a Nomad offset.                            *)
ListLegacy(w) ==
  LET missing == { s \in Streams : IsNew(rows[s]) } IN
  /\ At(w, "migrate")
  /\ Advance(w, IF missing = {} THEN AfterMigration(sync[w])
                 ELSE [sync[w] EXCEPT !.todo = missing, !.step = "backfill"])
  /\ UNCHANGED writerVars /\ Untouched

LegacyRequest(w, s) ==
  LET f == sync[w] IN
  [stream |-> s, data |-> Part(f.prev, 0, f.legacy), force |-> TRUE,
   after |-> f.legacy, nomadAfter |-> None, epoch |-> None]

Backfill(w) ==
  /\ At(w, "backfill")
  /\ \E s \in sync[w].todo :
       /\ BeginAppend(w, LegacyRequest(w, s))
       /\ LET left == [sync[w] EXCEPT !.todo = @ \ {s}] IN
          Advance(w, IF left.todo # {} THEN left ELSE AfterMigration(left))
  /\ Untouched

Reset(w) ==
  /\ At(w, "reset")
  /\ BeginReset(w, sync[w].alloc)
  /\ Advance(w, [sync[w] EXCEPT !.step = "offsets"])
  /\ Untouched

(* _build_initial_log_offsets: a cursor of another allocation is not used.  *)
UsesCursor(row, e) == ~IsNew(row) /\ row.epoch \in {0, e}

CursorFromStart(row, e) ==
  IF UsesCursor(row, e)
  THEN [nomad |-> 0, producer |-> row.producer, to |-> 0] ELSE Nothing

Cursor(row, e) ==
  IF UsesCursor(row, e)
  THEN [nomad |-> row.nomad, producer |-> row.producer, to |-> row.nomad]
  ELSE Nothing

Offsets(w) ==
  /\ At(w, "offsets")
  /\ Advance(w, [sync[w] EXCEPT !.step = "fetch",
                  !.delta = [s \in Streams |-> Cursor(rows[s], sync[w].alloc)]])
  /\ UNCHANGED writerVars /\ Untouched

(* split_complete_lines: up to the last line terminator, or nothing.         *)
CompleteLines(from, length) ==
  Max({from} \cup { n \in LineEnds : from < n /\ n <= length })

(* get_logs_for_allocation reads from each cursor to the end of the log; an   *)
(* anonymized stream stops at its last complete line until the final pass.    *)
(* A stream whose request fails keeps its cursor.                            *)
Readable(f, s) ==
  LET from == f.delta[s].nomad
      length == Max({from, written[f.alloc][s]})
  IN IF s \in Anonymized /\ ~f.final THEN CompleteLines(from, length) ELSE length

Withholding(f, ok) ==
  { s \in ok : written[f.alloc][s] > Readable(f, s) }

Produced(delta) == { s \in Streams : delta[s].to > delta[s].nomad }

(* The first terminal fetch is followed by polls; the drain stops when every *)
(* stream advanced and a poll was quiet, or after DrainAttempts polls; then    *)
(* the partial lines of anonymized streams are read.                         *)
OneStreamSeen(f, delta, ok) ==
  Produced(delta) = {} /\ f.advanced # {} /\ Withholding(f, ok) = {}
DrainIsQuiet(f, delta, ok) ==
  /\ Produced(delta) = {}
  /\ f.advanced = Streams
  /\ Withholding(f, ok) = {}

DrainEndsAtOnce(frame) == [frame EXCEPT !.step = "list"]
AfterDrain(frame) ==
  IF Anonymized = {} \/ frame.final THEN [frame EXCEPT !.step = "list"]
  ELSE [frame EXCEPT !.step = "offsets", !.final = TRUE]

OnePollTooMany(frame) ==
  IF ~Terminal(frame) THEN [frame EXCEPT !.step = "save"]
  ELSE IF ~frame.final /\ frame.polls <= DrainAttempts
  THEN [frame EXCEPT !.step = "poll"] ELSE AfterDrain(frame)
DrainsUntilQuiet(frame) ==
  IF ~Terminal(frame) THEN [frame EXCEPT !.step = "save"]
  ELSE IF ~frame.final
  THEN [frame EXCEPT !.step = "poll", !.polls = Min({@, DrainAttempts - 1})]
  ELSE AfterDrain(frame)
AfterWrites(frame) ==
  IF ~Terminal(frame) THEN [frame EXCEPT !.step = "save"]
  ELSE IF ~frame.final /\ frame.polls < DrainAttempts
  THEN [frame EXCEPT !.step = "poll"] ELSE AfterDrain(frame)

(* What _write_nomad_deltas has to append after this fetch.                  *)
Due(f, delta) ==
  IF ~Terminal(f) THEN Produced(delta)
  ELSE IF f.polls > 0 /\ ~f.final /\ Produced(delta) = {} THEN {} ELSE Streams

Fetch(w) ==
  LET f == sync[w] IN
  /\ At(w, "fetch")
  /\ \E ok \in SUBSET Streams :
       /\ IF Purged THEN ok = {} /\ UNCHANGED refused
          ELSE /\ refused' = refused + Cardinality(Streams \ ok)
               /\ refused' <= MaxFetchErrors
       /\ LET delta == [s \in Streams |->
                IF s \in ok THEN [f.delta[s] EXCEPT !.to = Readable(f, s)] ELSE f.delta[s]]
              got == [f EXCEPT !.delta = delta, !.todo = Due(f, delta),
                        !.advanced = IF f.polls > 0 THEN @ \cup Produced(delta) ELSE @]
          IN Advance(w, IF got.todo # {} THEN [got EXCEPT !.step = "write"]
                        ELSE IF f.polls > 0 /\ DrainIsQuiet(f, delta, ok)
                        THEN AfterDrain(got) ELSE AfterWrites(got))
  /\ UNCHANGED <<writerVars, nomadVars, historyVars, aborts>>

Poll(w) ==
  /\ At(w, "poll")
  /\ Advance(w, [sync[w] EXCEPT !.step = "offsets", !.polls = @ + 1])
  /\ UNCHANGED writerVars /\ Untouched

(* _write_nomad_deltas: one append per stream. *)
DeltaToFileEnd(w, s) ==
  LET f == sync[w]
      d == f.delta[s]
  IN [stream |-> s, data |-> Part(f.alloc, d.nomad, d.to), force |-> Terminal(f),
      after |-> d.producer + (d.to - d.nomad), nomadAfter |-> written[f.alloc][s],
      epoch |-> f.alloc]
DeltaRequest(w, s) ==
  LET f == sync[w]
      d == f.delta[s]
  IN [stream |-> s, data |-> Part(f.alloc, d.nomad, d.to), force |-> Terminal(f),
      after |-> d.producer + (d.to - d.nomad), nomadAfter |-> d.to,
      epoch |-> f.alloc]

WriteDelta(w) ==
  /\ At(w, "write")
  /\ \E s \in sync[w].todo :
       /\ BeginAppend(w, DeltaRequest(w, s))
       /\ LET left == [sync[w] EXCEPT !.todo = @ \ {s}] IN
          Advance(w, IF left.todo # {} THEN left
                     ELSE [AfterWrites(left) EXCEPT !.delta = NoDelta])
  /\ Untouched

(* _force_flush_remaining_streams: every stored row is flushed once more.   *)
ListRows(w) ==
  LET stored == { s \in Streams : ~IsNew(rows[s]) } IN
  /\ At(w, "list")
  /\ Advance(w, [sync[w] EXCEPT !.todo = stored, !.delta = NoDelta,
                   !.step = IF stored = {} THEN "save" ELSE "flush"])
  /\ UNCHANGED writerVars /\ Untouched

FlushRequest(s) ==
  [stream |-> s, data |-> <<>>, force |-> TRUE,
   after |-> None, nomadAfter |-> None, epoch |-> None]

FlushRow(w) ==
  /\ At(w, "flush")
  /\ \E s \in sync[w].todo :
       /\ BeginAppend(w, FlushRequest(s))
       /\ LET left == [sync[w] EXCEPT !.todo = @ \ {s}] IN
          Advance(w, IF left.todo # {} THEN left ELSE [left EXCEPT !.step = "save"])
  /\ Untouched

(* sync_queue_item saves execution_request and status as it holds them (task  *)
(* logs of the old format are gone once a sync persisted them); the update    *)
(* waits for the row lock.                                                   *)
Save(w) ==
  /\ At(w, "save")
  /\ lock = Free
  /\ LET f == sync[w] IN
     /\ tracked' = IF f.alloc = NoAlloc THEN f.prev ELSE f.alloc
     /\ legacy' = IF f.alloc = NoAlloc THEN f.legacy ELSE 0
     /\ status' = f.result
  /\ Advance(w, NoFrame)
  /\ UNCHANGED <<writerVars, nomadVars, faultVars>>

(* The writer raised: the sync raises, and neither tracking nor status is saved. *)
Raise(w) ==
  /\ sync[w].step # "idle" /\ pc[w] = "raised"
  /\ Return(w, "idle")
  /\ Advance(w, NoFrame)
  /\ UNCHANGED dbVars /\ Untouched

AbortSync(w) ==
  /\ aborts < MaxAborts
  /\ aborts' = aborts + 1
  /\ sync[w].step # "idle"
  /\ Unlocked(w)
  /\ Return(w, "idle")
  /\ Advance(w, NoFrame)
  /\ UNCHANGED <<rows, chunks, mark, nomadVars, historyVars, refused>>

InWriter(w) == WriterStep(w) /\ UNCHANGED <<nomadVars, historyVars, sync, faultVars>>

SyncStep(w) ==
  \/ Resolve(w) \/ ResolveNothing(w) \/ ListLegacy(w) \/ Backfill(w)
  \/ Reset(w) \/ Offsets(w) \/ Fetch(w) \/ Poll(w) \/ WriteDelta(w)
  \/ ListRows(w) \/ FlushRow(w) \/ Save(w) \/ Raise(w) \/ InWriter(w)

SyncNext ==
  \/ \E s \in Streams : LogmonWrites(s)
  \/ Schedule \/ JobDies \/ JobPurged
  \/ \E w \in Writers : StartSync(w) \/ SyncStep(w) \/ AbortSync(w)

SyncSpec == SyncInit /\ [][SyncNext]_syncVars

(* Celery beat schedules sync_running_items for ever and its workers go on;   *)
(* Nomad gives no such promise.                                              *)
SyncFairness ==
  \A w \in Writers : WF_syncVars(StartSync(w)) /\ WF_syncVars(SyncStep(w))

FairSyncSpec == SyncSpec /\ SyncFairness

-----------------------------------------------------------------------------
Steps == {"idle", "resolve", "migrate", "backfill", "reset", "offsets", "fetch",
          "write", "poll", "list", "flush", "save"}
Results == {"RUNNING", "DONE", "LOST"}
Delta == [nomad: Nat, producer: Nat, to: 0 .. LogLength]
Frame == [step: Steps, prev: Epochs \cup {NoAlloc}, alloc: Epochs \cup {NoAlloc},
          legacy: {0, LegacyLength}, result: Results, delta: [Streams -> Delta],
          todo: SUBSET Streams, advanced: SUBSET Streams, polls: 0 .. DrainAttempts,
          final: BOOLEAN]

(* The types, the writer's with them: the calls of a sync are the requests it *)
(* was given, so they keep what it asks of its callers.                      *)
SyncTypeOK ==
  /\ TypeOK
  /\ alloc \in Epochs \cup {NoAlloc} /\ dead \in BOOLEAN
  /\ written \in [Epochs -> [Streams -> 0 .. LogLength]]
  /\ tracked \in Epochs \cup {NoAlloc} /\ status \in Results
  /\ legacy \in {0, LegacyLength}
  /\ sync \in [Writers -> Frame]
  /\ aborts \in 0 .. MaxAborts /\ refused \in 0 .. MaxFetchErrors

(* Nomad's cursor stays inside a log; the producer's may be ahead of it by what *)
(* backfill_legacy_logs stored, never by more than one log.                  *)
InStep(nomad, producer) == nomad <= LogLength /\ producer <= nomad + LogLength

RowsInStep == \A s \in Streams : InStep(rows[s].nomad, rows[s].producer)

DeltasInStep ==
  \A w \in Writers, s \in Streams :
    LET d == sync[w].delta[s] IN d.nomad <= d.to /\ InStep(d.nomad, d.producer)

CallsInStep ==
  \A w \in Writers :
    LET r == call[w] IN
    /\ r.nomadAfter = None => r.after <= LogLength
    /\ r.nomadAfter # None => r.after # None /\ InStep(r.nomadAfter, r.after)

(* A sync that fetches knows its allocation, one that migrates the allocation  *)
(* of the old log.                                                           *)
FramesNameAllocations ==
  /\ legacy > 0 => tracked # NoAlloc
  /\ \A w \in Writers :
       LET f == sync[w] IN
       /\ f.legacy > 0 => f.prev # NoAlloc
       /\ f.step \in {"migrate", "backfill"} => f.legacy > 0
       /\ f.step \notin {"idle", "resolve", "save"} => f.alloc # NoAlloc
       /\ f.step = "poll" => f.polls < DrainAttempts

(* The inductive invariant of the syncs: every call they make is one the       *)
(* writer may be given, and the writer's own invariant holds under them.      *)
LogSyncInv ==
  /\ SyncTypeOK
  /\ WriterInv
  /\ RowsInStep
  /\ DeltasInStep
  /\ CallsInStep
  /\ FramesNameAllocations

(* The stored log holds every byte of an allocation at most once.            *)
NoByteTwice ==
  \A s \in Streams : \A x, y \in Placed(s) : x[2] = y[2] => x = y

(* Every byte is stored at most once, but for those a task of the old format   *)
(* had shown, which its first sync reads from Nomad again.                    *)
Migrated(byte) == byte[1] = Min(Epochs) /\ byte[2] <= LegacyLength

FreshBytesOnce ==
  \A s \in Streams : \A x, y \in Placed(s) :
    x[2] = y[2] /\ ~Migrated(x[2]) => x = y

(* Within a stream the bytes of an allocation stand in the order they were    *)
(* written, and none is missing before one that is there.                    *)
PrefixKept ==
  \A s \in Streams : \A x \in Placed(s) :
    \A i \in 1 .. x[2][2] - 1 :
      \E y \in Placed(s) : y[1] < x[1] /\ y[2] = <<x[2][1], i>>

(* A task history finished by what its allocation told has nothing left in a  *)
(* staging buffer, and unless Nomad purged the allocation meanwhile, its      *)
(* whole last log is stored: the late tail logmon wrote, and the last partial *)
(* line of an anonymized stream.                                             *)
TerminalLogComplete ==
  status = "DONE" =>
    \A s \in Streams :
      /\ rows[s].staging = <<>>
      /\ Purged \/ \A i \in 1 .. written[tracked][s] :
                     \E x \in Placed(s) : x[2] = <<tracked, i>>

(* A dead job is eventually recorded as finished, under the beat schedule.   *)
DeadJobFinishes == dead ~> status # "RUNNING"
================================================================================
