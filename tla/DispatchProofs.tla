---------------------------- MODULE DispatchProofs -----------------------------
(***************************************************************************)
(* The safety of Dispatch, for any number of histories, requests and           *)
(* processes, of retries and of faults.                                        *)
(***************************************************************************)
EXTENDS Dispatch, TLAPS

-------------------------------------------------------------------------------
(* Types.                                                                     *)

(* One process moves to a state of the right type, the others stay.             *)
LEMMA ProcMoves ==
  ASSUME NEW p \in Proc, NEW f \in Proc_, proc \in [Proc -> Proc_], Become(p, f)
  PROVE  /\ proc' \in [Proc -> Proc_]
         /\ proc'[p] = f
         /\ \A q \in Proc \ {p} : proc'[q] = proc[q]
BY DEF Become

LEMMA IdleType == Idle \in Proc_
BY ItemAssumption DEF Idle, Frame, Proc_, Step, RowStatus, Active, NoTrack, Message

(* Within a dispatch a process keeps everything but its step and its outcome.    *)
LEMMA StepMoves ==
  ASSUME NEW p \in Proc, NEW s \in Step, proc \in [Proc -> Proc_], GoTo(p, s)
  PROVE  /\ Become(p, [proc[p] EXCEPT !.step = s])
         /\ [proc[p] EXCEPT !.step = s] \in Proc_
BY DEF Become, GoTo, Proc_

LEMMA FailMoves ==
  ASSUME NEW p \in Proc, proc \in [Proc -> Proc_], Fail(p)
  PROVE  /\ Become(p, [proc[p] EXCEPT !.step = "unlock", !.failed = TRUE])
         /\ [proc[p] EXCEPT !.step = "unlock", !.failed = TRUE] \in Proc_
BY DEF Become, Fail, Proc_, Step

(* What the broker gets back is a message with one more retry.                  *)
LEMMA RetriedType ==
  ASSUME NEW ms \in SUBSET Message
  PROVE  /\ Retried(ms) \subseteq Message
         /\ \A m \in Retried(ms) : \E n \in ms : m.item = n.item
<1>1. ASSUME NEW n \in Message, n.retries < MaxRetries
      PROVE  [n EXCEPT !.retries = n.retries + 1] \in Message
  BY <1>1, BoundAssumption DEF Message
<1> QED BY <1>1 DEF Retried, Message

(* A new lock row has a key of its own, never 0.                               *)
LEMMA FreshIdType ==
  ASSUME NEW k \in Key, NEW id \in LockId, TypeOK, FreshId(id, k)
  PROVE  id \in Nat /\ id # 0
<1>1. id \in Nat
  BY IdAssumption
<1>2. CASE engine = "sqlite"
  <2>1. \A j \in Key : lock[j].id \in Nat
    BY DEF TypeOK
  <2> QED BY <1>1, <1>2, <2>1 DEF FreshId
<1>3. CASE engine # "sqlite"
  BY <1>1, <1>3 DEF FreshId
<1> QED BY <1>2, <1>3

(* A message, in the broker or in the hands of a worker, is about a history whose  *)
(* row was committed.                                                          *)
Sent ==
  /\ \A m \in queue : status[m.item] # "unsaved"
  /\ \A p \in Proc :
       /\ \A m \in proc[p].msg : status[m.item] # "unsaved"
       /\ At(p, "enqueue") => status[proc[p].item] # "unsaved"

Typed == TypeOK /\ Sent

LEMMA TypeInit == Init => Typed
<1> SUFFICES ASSUME Init PROVE Typed
  OBVIOUS
<1>1. proc \in [Proc -> Proc_]
  BY IdleType DEF Init
<1>2. lock \in [Key -> [id : Nat, old : BOOLEAN]] /\ track \in [Item -> [job : Nat, celery : BOOLEAN]]
  BY DEF Init, NoLock, NoTrack
<1>3. Sent
  BY DEF Init, Sent, At, Idle, Frame
<1> QED BY <1>1, <1>2, <1>3 DEF Init, TypeOK, Typed

(* The actions of requests and of the broker keep the types.                    *)
LEMMA TypeRequests ==
  ASSUME Typed, NEW p \in Proc,
         \/ \E i \in Item : Execute(p, i) \/ Schedule(p, i)
         \/ \E m \in queue : Take(p, m)
         \/ Enqueue(p) \/ SaveCeleryId(p)
  PROVE  TypeOK'
<1> USE DEF Typed, rowVars, nomadVars, ghostVars
<1>0. Idle \in Proc_ /\ proc \in [Proc -> Proc_] /\ proc[p] \in Proc_
  BY IdleType DEF TypeOK
<1>1. ASSUME NEW i \in Item, Execute(p, i) PROVE TypeOK'
  <2>1. Frame("gate", i, "PENDING", NoTrack, {}) \in Proc_
    BY DEF Frame, NoTrack, Proc_, Step, RowStatus, Active
  <2> QED BY <1>1, <2>1, <1>0, ProcMoves DEF Execute, TypeOK
<1>2. ASSUME NEW i \in Item, Schedule(p, i) PROVE TypeOK'
  <2>1. Frame("enqueue", i, "PENDING", NoTrack, {}) \in Proc_
    BY DEF Frame, NoTrack, Proc_, Step, RowStatus, Active
  <2>2. proc' \in [Proc -> Proc_]
    BY <1>2, <2>1, <1>0, ProcMoves DEF Schedule
  <2> QED BY <1>2, <2>2 DEF Schedule, TypeOK, RowStatus, Active
<1>3. ASSUME NEW m \in queue, Take(p, m) PROVE TypeOK'
  <2>0. m \in Message /\ m.item \in Item /\ status[m.item] # "unsaved"
    BY DEF TypeOK, Message, Sent
  <2>1. Retried({m}) \subseteq Message
    BY <2>0, RetriedType
  <2>2. early' \subseteq Item
    BY <1>3, <2>0 DEF Take, TypeOK
  <2>3. CASE status[m.item] = "gone"
    BY <1>3, <2>0, <2>1, <2>2, <2>3 DEF Take, TypeOK
  <2>4. CASE status[m.item] # "gone"
    <3> DEFINE f == Frame("gate", m.item, status[m.item], track[m.item], {m})
    <3>1. status[m.item] \in RowStatus /\ track[m.item] \in [job : Nat, celery : BOOLEAN]
      BY <2>0, <2>4 DEF TypeOK
    <3>2. f \in Proc_
      BY <2>0, <3>1 DEF Frame, Proc_, Step
    <3>3. proc' \in [Proc -> Proc_]
      BY <1>3, <2>4, <3>2, <1>0, ProcMoves DEF Take
    <3> QED BY <1>3, <2>2, <2>4, <3>3 DEF Take, TypeOK
  <2> QED BY <2>3, <2>4
<1>4. CASE Enqueue(p)
  <2>1. [item |-> proc[p].item, retries |-> 0, copy |-> 0] \in Message
    BY <1>0, BoundAssumption DEF Message, Proc_
  <2>2. proc' \in [Proc -> Proc_]
    BY <1>4, <1>0, StepMoves, ProcMoves DEF Enqueue, Step
  <2> QED BY <1>4, <2>1, <2>2 DEF Enqueue, TypeOK
<1>5. CASE SaveCeleryId(p)
  <2>1. proc' \in [Proc -> Proc_]
    BY <1>5, <1>0, ProcMoves DEF SaveCeleryId
  <2>2. track' \in [Item -> [job : Nat, celery : BOOLEAN]]
    BY <1>5 DEF SaveCeleryId, TypeOK
  <2> QED BY <1>5, <2>1, <2>2 DEF SaveCeleryId, TypeOK
<1> QED BY <1>1, <1>2, <1>3, <1>4, <1>5

(* Leaving a dispatch gives the broker messages and frees the process.            *)
LEMMA LeaveType ==
  ASSUME TypeOK, NEW p \in Proc, Leave(p)
  PROVE  queue' \subseteq Message /\ proc' \in [Proc -> Proc_]
<1>1. proc \in [Proc -> Proc_] /\ proc[p].msg \in SUBSET Message
  BY DEF TypeOK, Proc_
<1>2. proc' \in [Proc -> Proc_]
  BY <1>1, IdleType, ProcMoves DEF Leave
<1> QED BY <1>1, <1>2, RetriedType DEF Leave, TypeOK

(* The actions of a dispatch keep the types.                                    *)
LEMMA TypeDispatch ==
  ASSUME TypeOK, NEW p \in Proc, Dispatching(p)
  PROVE  TypeOK'
<1> USE DEF rowVars, nomadVars, ghostVars
<1>0. /\ proc \in [Proc -> Proc_] /\ proc[p] \in Proc_ /\ Idle \in Proc_
      /\ proc[p].item \in Item /\ KeyOf[proc[p].item] \in Key
  BY IdleType, ItemAssumption DEF TypeOK, Proc_
<1>d. ASSUME DeleteLock(p)
      PROVE  /\ lock' \in [Key -> [id : Nat, old : BOOLEAN]]
             /\ unguarded' \subseteq Key /\ leaked' \subseteq Key
  BY <1>d DEF DeleteLock, OwnRows, TypeOK, NoLock
<1>1. CASE GateFails(p)
  <2>1. status' \in [Item -> RowStatus \cup {"unsaved", "gone"}]
    BY <1>1, <1>0 DEF GateFails, TypeOK, RowStatus
  <2>2. queue' \subseteq Message /\ proc' \in [Proc -> Proc_]
    BY <1>1, <1>0, LeaveType, ProcMoves DEF GateFails, TypeOK
  <2> QED BY <1>1, <1>0, <2>1, <2>2 DEF GateFails, TypeOK
<1>2. CASE Refuse(p)
  BY <1>2, LeaveType DEF Refuse, TypeOK
<1>3. CASE Lock(p)
  <2> DEFINE k == KeyOf[proc[p].item]
  <2>1. PICK id \in LockId : /\ FreshId(id, k)
                             /\ lock' = [lock EXCEPT ![k] = [id |-> id, old |-> FALSE]]
                             /\ Become(p, [proc[p] EXCEPT !.step = "locked", !.lockId = id])
    BY <1>3 DEF Lock
  <2>2. id \in Nat
    BY IdAssumption
  <2>3. [proc[p] EXCEPT !.step = "locked", !.lockId = id] \in Proc_
    BY <1>0, <2>2 DEF Proc_, Step
  <2>4. proc' \in [Proc -> Proc_]
    BY <2>1, <2>3, <1>0, ProcMoves
  <2>5. lock' \in [Key -> [id : Nat, old : BOOLEAN]]
    BY <2>1, <2>2, <1>0 DEF TypeOK
  <2>6. unguarded' \subseteq Key /\ leaked' \subseteq Key
    BY <1>3, <1>0 DEF Lock, Disturbed, TypeOK
  <2> QED BY <1>3, <2>4, <2>5, <2>6 DEF Lock, TypeOK
<1>4. CASE Check(p)
  <2>1. proc' \in [Proc -> Proc_]
    BY <1>4, <1>0, FailMoves, StepMoves, ProcMoves DEF Check, Step
  <2> QED BY <1>4, <2>1 DEF Check, TypeOK
<1>5. CASE StartJob(p)
  <2> DEFINE n == started[proc[p].item] + 1
  <2>1. n \in Nat
    BY <1>0 DEF TypeOK
  <2>2. [proc[p] EXCEPT !.step = "started", !.track.job = n] \in Proc_
    BY <1>0, <2>1 DEF Proc_, Step
  <2>3. proc' \in [Proc -> Proc_]
    BY <1>5, <1>0, <2>2, ProcMoves DEF StartJob
  <2>4. /\ started' \in [Item -> Nat]
        /\ live' \subseteq Item \X Nat /\ pending' \subseteq Item \X Nat
    BY <1>5, <1>0, <2>1 DEF StartJob, TypeOK
  <2> QED BY <1>5, <2>3, <2>4 DEF StartJob, TypeOK
<1>6. CASE StartFails(p)
  <2>1. proc' \in [Proc -> Proc_]
    BY <1>6, <1>0, FailMoves, ProcMoves DEF StartFails
  <2> QED BY <1>6, <2>1 DEF StartFails, TypeOK
<1>7. CASE Save(p)
  <2>1. proc' \in [Proc -> Proc_]
    BY <1>7, <1>0, FailMoves, StepMoves, ProcMoves DEF Save, Step
  <2>2. proc[p].track \in [job : Nat, celery : BOOLEAN]
    BY <1>0 DEF Proc_
  <2>3. /\ status' \in [Item -> RowStatus \cup {"unsaved", "gone"}]
        /\ track' \in [Item -> [job : Nat, celery : BOOLEAN]]
        /\ lost' \in [Item -> Nat]
    <3>1. CASE Writable(proc[p].item)
      <4>1. /\ status' = [status EXCEPT ![proc[p].item] = "RUNNING"]
            /\ track' = [track EXCEPT ![proc[p].item] = proc[p].track]
            /\ lost' = lost
        BY <1>7, <3>1 DEF Save, FlaggedTrack
      <4> QED BY <4>1, <1>0, <2>2 DEF TypeOK, RowStatus, Active
    <3>2. CASE ~Writable(proc[p].item)
      BY <1>7, <1>0, <3>2 DEF Save, TypeOK
    <3> QED BY <3>1, <3>2
  <2> QED BY <1>7, <2>1, <2>3 DEF Save, TypeOK
<1>8. CASE FailAfterStart(p)
  <2>1. proc' \in [Proc -> Proc_]
    BY <1>8, <1>0, FailMoves, ProcMoves DEF FailAfterStart
  <2>2. lost' \in [Item -> Nat] /\ faults' \in Nat
    BY <1>8, <1>0 DEF FailAfterStart, TypeOK
  <2> QED BY <1>8, <2>1, <2>2 DEF FailAfterStart, TypeOK
<1>9. CASE Unlock(p)
  <2>1. proc' \in [Proc -> Proc_]
    BY <1>9, <1>0, ProcMoves DEF Unlock
  <2>2. queue' \subseteq Message
    <3>1. Retried(proc[p].msg) \subseteq Message
      BY <1>0, RetriedType DEF Proc_
    <3> QED BY <1>9, <3>1 DEF Unlock, TypeOK
  <2> QED BY <1>9, <2>1, <2>2, <1>d DEF Unlock, TypeOK
<1>10. CASE LockFails(p)
  <2> DEFINE k == KeyOf[proc[p].item]
  <2>1. queue' \subseteq Message /\ proc' \in [Proc -> Proc_]
    BY <1>10, LeaveType DEF LockFails
  <2>2. unguarded' \subseteq Key /\ leaked' \subseteq Key /\ faults' \in Nat
    BY <1>10, <1>0 DEF LockFails, Disturbed, TypeOK
  <2>3. lock' \in [Key -> [id : Nat, old : BOOLEAN]]
    <3>1. CASE lock' = lock
      BY <3>1 DEF TypeOK
    <3>2. CASE lock' = [lock EXCEPT ![k] = NoLock]
      BY <3>2, <1>0 DEF TypeOK, NoLock
    <3>3. ASSUME NEW id \in LockId, lock' = [lock EXCEPT ![k] = [id |-> id, old |-> FALSE]]
          PROVE  lock' \in [Key -> [id : Nat, old : BOOLEAN]]
      <4>1. id \in Nat
        BY IdAssumption
      <4> QED BY <3>3, <4>1, <1>0 DEF TypeOK
    <3> QED BY <1>10, <3>1, <3>2, <3>3 DEF LockFails
  <2> QED BY <1>10, <2>1, <2>2, <2>3 DEF LockFails, TypeOK
<1>11. CASE UnlockFails(p)
  <2>1. queue' \subseteq Message /\ proc' \in [Proc -> Proc_]
    BY <1>11, LeaveType DEF UnlockFails
  <2>2. faults' \in Nat
    BY <1>11 DEF UnlockFails, TypeOK
  <2>3. CASE DeleteLock(p)
    BY <1>11, <2>1, <2>2, <2>3, <1>d DEF UnlockFails, TypeOK
  <2>4. CASE leaked' = leaked \cup OwnRows(p) /\ UNCHANGED <<lock, unguarded>>
    <3>1. leaked' \subseteq Key
      BY <2>4 DEF OwnRows, TypeOK
    <3> QED BY <1>11, <2>1, <2>2, <2>4, <3>1 DEF UnlockFails, TypeOK
  <2> QED BY <1>11, <2>3, <2>4 DEF UnlockFails
<1> QED BY <1>1, <1>2, <1>3, <1>4, <1>5, <1>6, <1>7, <1>8, <1>9, <1>10, <1>11 DEF Dispatching

(* So do the users, the broker, time, crashes and Nomad.                         *)
LEMMA TypeOthers ==
  ASSUME TypeOK,
         \/ \E p \in Proc : Crash(p)
         \/ \E m \in queue : Expire(m) \/ Redeliver(m)
         \/ \E i \in Item : Stopping(i) \/ Syncing(i)
         \/ \E j \in pending : Evaluate(j)
         \/ \E k \in Key : AgeLock(k)
         \/ UNCHANGED vars
  PROVE  TypeOK'
<1> USE DEF rowVars, nomadVars, ghostVars
<1>1. ASSUME NEW p \in Proc, Crash(p) PROVE TypeOK'
  <2>1. proc' \in [Proc -> Proc_] /\ proc[p].item \in Item
    BY <1>1, IdleType, ProcMoves DEF Crash, TypeOK, Proc_
  <2>2. lost' \in [Item -> Nat] /\ faults' \in Nat /\ leaked' \subseteq Key
    BY <1>1, <2>1 DEF Crash, TypeOK
  <2> QED BY <1>1, <2>1, <2>2 DEF Crash, TypeOK
<1>2. ASSUME NEW m \in queue, Expire(m) PROVE TypeOK'
  BY <1>2 DEF Expire, TypeOK, Message
<1>3. ASSUME NEW m \in queue, Redeliver(m) PROVE TypeOK'
  <2>1. m \in Message /\ m.item \in Item /\ [m EXCEPT !.copy = 1] \in Message
    BY DEF TypeOK, Message
  <2>2. queue' \subseteq Message
    <3>1. queue' = queue \cup {[m EXCEPT !.copy = 1]}
      BY <1>3 DEF Redeliver
    <3> QED BY <2>1, <3>1 DEF TypeOK
  <2>4. redelivered' \subseteq Item
    <3>1. redelivered' = redelivered \cup {m.item}
      BY <1>3 DEF Redeliver
    <3> QED BY <2>1, <3>1 DEF TypeOK
  <2>5. faults' \in Nat
    <3>1. faults \in Nat /\ faults' = faults + 1
      BY <1>3 DEF Redeliver, TypeOK
    <3> QED BY <3>1
  <2>3. UNCHANGED <<engine, rowVars, nomadVars, lock, proc, stopping,
                    unguarded, leaked, early, lost, misfailed, abandoned>>
    BY <1>3 DEF Redeliver
  <2> QED BY <2>2, <2>3, <2>4, <2>5 DEF TypeOK
<1>4. ASSUME NEW i \in Item, StopLoad(i) PROVE TypeOK'
  BY <1>4 DEF StopLoad, TypeOK
<1>5. ASSUME NEW i \in Item, StopDelete(i) PROVE TypeOK'
  BY <1>5 DEF StopDelete, TypeOK
<1>6. ASSUME NEW i \in Item, StopJob(i) PROVE TypeOK'
  BY <1>6 DEF StopJob, Over, TypeOK
<1>9. ASSUME NEW i \in Item, StopSave(i) PROVE TypeOK'
  BY <1>9 DEF StopSave, TypeOK, RowStatus
<1>10. ASSUME NEW i \in Item, SyncEnds(i) PROVE TypeOK'
  BY <1>10 DEF SyncEnds, Over, TypeOK, RowStatus
<1>11. ASSUME NEW i \in Item, SyncGivesUp(i) PROVE TypeOK'
  <2>1. JobOf(i) \in Item \X Nat
    BY DEF JobOf, TypeOK
  <2>2. pending' \subseteq pending /\ blocked' \subseteq blocked /\ abandoned' \subseteq Item \X Nat
    BY <1>11, <2>1 DEF SyncGivesUp, TypeOK
  <2> QED BY <1>11, <2>2 DEF SyncGivesUp, TypeOK, RowStatus
<1>12. ASSUME NEW j \in pending, Evaluate(j) PROVE TypeOK'
  BY <1>12 DEF Evaluate, TypeOK
<1>7. ASSUME NEW k \in Key, AgeLock(k) PROVE TypeOK'
  BY <1>7 DEF AgeLock, TypeOK
<1>8. CASE UNCHANGED vars
  BY <1>8 DEF vars, TypeOK
<1> QED BY <1>1, <1>2, <1>3, <1>4, <1>5, <1>6, <1>7, <1>8, <1>9, <1>10, <1>11, <1>12
        DEF Stopping, Syncing

-------------------------------------------------------------------------------
(* What a step may do to a row: never bring it back, never unsave it.            *)
RowsLast == \A i \in Item : /\ status[i] = "gone" => status'[i] = "gone"
                            /\ status[i] # "unsaved" => status'[i] # "unsaved"

LEMMA RowsStep == ASSUME TypeOK, [Next]_vars PROVE RowsLast
<1> USE DEF rowVars, RowsLast
<1>0. \A i \in Item : status[i] \in RowStatus \cup {"unsaved", "gone"}
  BY DEF TypeOK
<1>1. ASSUME NEW p \in Proc, NEW i \in Item, Execute(p, i) \/ Schedule(p, i) PROVE RowsLast
  BY <1>1 DEF Execute, Schedule, TypeOK
<1>2. ASSUME NEW p \in Proc, NEW m \in queue, Take(p, m) PROVE RowsLast
  BY <1>2 DEF Take
<1>3. ASSUME NEW p \in Proc, Enqueue(p) \/ SaveCeleryId(p) \/ Crash(p) PROVE RowsLast
  BY <1>3 DEF Enqueue, SaveCeleryId, Crash
<1>4. ASSUME NEW p \in Proc, Dispatching(p) PROVE RowsLast
  <2>1. CASE GateFails(p)
    BY <2>1 DEF GateFails, Writable, TypeOK
  <2>2. CASE Save(p)
    BY <2>2 DEF Save, Writable, TypeOK
  <2>3. CASE \/ Refuse(p) \/ Lock(p) \/ LockFails(p) \/ Check(p) \/ StartJob(p)
             \/ StartFails(p) \/ FailAfterStart(p) \/ Unlock(p) \/ UnlockFails(p)
    BY <2>3 DEF Refuse, Lock, LockFails, Check, StartJob, StartFails, FailAfterStart,
                Unlock, UnlockFails
  <2> QED BY <1>4, <2>1, <2>2, <2>3 DEF Dispatching
<1>5. ASSUME NEW m \in queue, Expire(m) \/ Redeliver(m) PROVE RowsLast
  BY <1>5 DEF Expire, Redeliver, TypeOK
<1>6. ASSUME NEW i \in Item, Stopping(i) PROVE RowsLast
  BY <1>6 DEF Stopping, StopLoad, StopDelete, StopJob, StopSave, Writable, TypeOK
<1>9. ASSUME NEW i \in Item, Syncing(i) PROVE RowsLast
  BY <1>9 DEF Syncing, SyncEnds, SyncGivesUp, Tracks, TypeOK
<1>7. ASSUME (\E k \in Key : AgeLock(k)) \/ (\E j \in pending : Evaluate(j)) PROVE RowsLast
  BY <1>7 DEF AgeLock, Evaluate
<1>8. CASE UNCHANGED vars
  BY <1>8 DEF vars
<1> QED BY <1>1, <1>2, <1>3, <1>4, <1>5, <1>6, <1>7, <1>8, <1>9 DEF Next

(* Where messages come from: the broker, a worker's hands, or a new request.      *)
FromBroker(m) == \E n \in queue : m.item = n.item
FromWorker(m) == \E p \in Proc : \E n \in proc[p].msg : m.item = n.item
FromRequest(m) == \E p \in Proc : Enqueue(p) /\ m.item = proc[p].item
MessagesMove ==
  /\ \A m \in queue' : FromBroker(m) \/ FromWorker(m) \/ FromRequest(m)
  /\ \A p \in Proc : \A m \in proc'[p].msg : m \in proc[p].msg \/ m \in queue

LEMMA MessagesStep == ASSUME TypeOK, [Next]_vars PROVE MessagesMove
<1> USE DEF FromBroker, FromWorker, FromRequest
<1>0. /\ proc \in [Proc -> Proc_] /\ Idle.msg = {} /\ queue \subseteq Message
      /\ \A p \in Proc : proc[p] \in Proc_ /\ proc[p].msg \in SUBSET Message
  BY DEF TypeOK, Proc_, Idle, Frame
<1>k. ASSUME queue' \subseteq queue,
             \A p \in Proc : proc'[p].msg \subseteq proc[p].msg
      PROVE  MessagesMove
  BY <1>k DEF MessagesMove
<1>m. ASSUME NEW p \in Proc, NEW f, Become(p, f)
      PROVE  proc'[p] = f /\ \A q \in Proc \ {p} : proc'[q] = proc[q]
  BY <1>m, <1>0 DEF Become
<1>r. ASSUME NEW p \in Proc, queue' \subseteq queue \cup Retried(proc[p].msg),
             \A q \in Proc : proc'[q].msg \subseteq proc[q].msg
      PROVE  MessagesMove
  BY <1>r, <1>0, RetriedType DEF MessagesMove
<1>1. ASSUME NEW p \in Proc, NEW i \in Item, Execute(p, i) \/ Schedule(p, i)
      PROVE MessagesMove
  <2>1. CASE Execute(p, i)
    <3>1. proc'[p].msg = {}
      BY <2>1, <1>m DEF Execute, Frame
    <3> QED BY <2>1, <3>1, <1>m, <1>k DEF Execute
  <2>2. CASE Schedule(p, i)
    <3>1. proc'[p].msg = {}
      BY <2>2, <1>m DEF Schedule, Frame
    <3> QED BY <2>2, <3>1, <1>m, <1>k DEF Schedule
  <2> QED BY <1>1, <2>1, <2>2
<1>2. ASSUME NEW p \in Proc, NEW m \in queue, Take(p, m) PROVE MessagesMove
  <2>1. m \in Message
    BY <1>0
  <2>2. \A n \in Retried({m}) : n.item = m.item
    BY <2>1, RetriedType
  <2>3. CASE status[m.item] = "gone"
    BY <1>2, <2>2, <2>3 DEF Take, MessagesMove
  <2>4. CASE status[m.item] # "gone"
    <3>1. proc'[p].msg = {m}
      BY <1>2, <2>4, <1>m DEF Take, Frame
    <3>2. \A q \in Proc \ {p} : proc'[q] = proc[q]
      BY <1>2, <2>4, <1>m DEF Take
    <3> QED BY <1>2, <2>4, <3>1, <3>2 DEF Take, MessagesMove
  <2> QED BY <2>3, <2>4
<1>3. ASSUME NEW p \in Proc, Enqueue(p) PROVE MessagesMove
  <2>1. \A q \in Proc : proc'[q].msg = proc[q].msg
    BY <1>3, <1>0 DEF Enqueue, GoTo, Proc_
  <2> QED BY <1>3, <2>1 DEF Enqueue, MessagesMove
<1>4. ASSUME NEW p \in Proc, SaveCeleryId(p) \/ Crash(p) PROVE MessagesMove
  BY <1>4, <1>0, <1>m, <1>k DEF SaveCeleryId, Crash
<1>5. ASSUME NEW p \in Proc, Dispatching(p) PROVE MessagesMove
  <2>1. CASE GateFails(p)
    BY <2>1, <1>0, <1>m, <1>r DEF GateFails, Leave
  <2>2. CASE Refuse(p) \/ LockFails(p) \/ UnlockFails(p)
    BY <2>2, <1>0, <1>m, <1>r DEF Refuse, LockFails, UnlockFails, Leave
  <2>3. CASE Lock(p)
    <3>1. \A q \in Proc : proc'[q].msg = proc[q].msg
      BY <2>3, <1>0 DEF Lock, Become, Proc_
    <3> QED BY <2>3, <3>1, <1>k DEF Lock
  <2>4. CASE Unlock(p)
    BY <2>4, <1>0, <1>m, <1>r DEF Unlock
  <2>5. CASE Check(p) \/ StartFails(p) \/ Save(p) \/ FailAfterStart(p)
    <3>1. \A q \in Proc : proc'[q].msg = proc[q].msg
      BY <2>5, <1>0 DEF Check, StartFails, Save, FailAfterStart, Fail, GoTo, Proc_
    <3> QED BY <2>5, <3>1, <1>k DEF Check, StartFails, Save, FailAfterStart
  <2>6. CASE StartJob(p)
    <3>1. \A q \in Proc : proc'[q].msg = proc[q].msg
      BY <2>6, <1>0 DEF StartJob, Become, Proc_
    <3> QED BY <2>6, <3>1, <1>k DEF StartJob
  <2> QED BY <1>5, <2>1, <2>2, <2>3, <2>4, <2>5, <2>6 DEF Dispatching
<1>6. ASSUME NEW m \in queue, Expire(m) PROVE MessagesMove
  BY <1>6, <1>k DEF Expire
<1>7. ASSUME NEW m \in queue, Redeliver(m) PROVE MessagesMove
  <2>1. [m EXCEPT !.copy = 1].item = m.item
    BY <1>0 DEF Message
  <2> QED BY <1>7, <2>1 DEF Redeliver, MessagesMove
<1>8. ASSUME NEW i \in Item, Stopping(i) \/ Syncing(i) PROVE MessagesMove
  BY <1>8, <1>k DEF Stopping, Syncing, StopLoad, StopDelete, StopJob, StopSave, SyncEnds, SyncGivesUp
<1>9. CASE \/ \E k \in Key : AgeLock(k)
           \/ \E j \in pending : Evaluate(j)
           \/ UNCHANGED vars
  BY <1>9, <1>k DEF AgeLock, Evaluate, vars
<1> QED BY <1>1, <1>2, <1>3, <1>4, <1>5, <1>6, <1>7, <1>8, <1>9 DEF Next

(* A process reaches "enqueue" only with the row it has just committed.           *)
LEMMA EnqueueStep ==
  ASSUME TypeOK, [Next]_vars, NEW p \in Proc, At(p, "enqueue")'
  PROVE  \/ At(p, "enqueue") /\ proc'[p].item = proc[p].item
         \/ \E i \in Item : Schedule(p, i) /\ proc'[p].item = i
<1> DEFINE Stays == proc'[p] = proc[p]
<1>0. proc \in [Proc -> Proc_] /\ \A q \in Proc : proc[q] \in Proc_
  BY DEF TypeOK
<1>m. ASSUME NEW q \in Proc, NEW f, Become(q, f)
      PROVE  proc'[q] = f /\ \A r \in Proc \ {q} : proc'[r] = proc[r]
  BY <1>m, <1>0 DEF Become
<1>e. proc'[p].step = "enqueue"
  BY DEF At
<1>1. ASSUME NEW q \in Proc, NEW i \in Item, Execute(q, i) PROVE Stays
  BY <1>1, <1>m, <1>e DEF Execute, Frame
<1>2. ASSUME NEW q \in Proc, NEW i \in Item, Schedule(q, i)
      PROVE  Stays \/ (q = p /\ proc'[p].item = i)
  BY <1>2, <1>m DEF Schedule, Frame
<1>3. ASSUME NEW q \in Proc, NEW m \in queue, Take(q, m) PROVE Stays
  BY <1>3, <1>m, <1>e DEF Take, Frame
<1>4. ASSUME NEW q \in Proc, Enqueue(q) PROVE Stays
  BY <1>4, <1>0, <1>e DEF Enqueue, GoTo, Proc_
<1>5. ASSUME NEW q \in Proc, SaveCeleryId(q) \/ Crash(q) PROVE Stays
  BY <1>5, <1>m, <1>e DEF SaveCeleryId, Crash, Idle, Frame
<1>6. ASSUME NEW q \in Proc, Dispatching(q) PROVE Stays
  <2>1. CASE GateFails(q) \/ Refuse(q) \/ Unlock(q) \/ LockFails(q) \/ UnlockFails(q)
    BY <2>1, <1>m, <1>e
       DEF GateFails, Refuse, Leave, Unlock, LockFails, UnlockFails, Idle, Frame
  <2>2. CASE Lock(q) \/ StartJob(q)
    <3>1. /\ proc'[q].step \in {"locked", "started"}
          /\ \A r \in Proc \ {q} : proc'[r] = proc[r]
      <4>1. CASE Lock(q)
        BY <4>1, <1>0 DEF Lock, Become, Proc_
      <4>2. CASE StartJob(q)
        BY <4>2, <1>0 DEF StartJob, Become, Proc_
      <4> QED BY <2>2, <4>1, <4>2
    <3> QED BY <3>1, <1>e
  <2>3. CASE Check(q) \/ StartFails(q) \/ Save(q) \/ FailAfterStart(q)
    BY <2>3, <1>0, <1>e DEF Check, StartFails, Save, FailAfterStart, Fail, GoTo, Proc_
  <2> QED BY <1>6, <2>1, <2>2, <2>3 DEF Dispatching
<1>7. ASSUME \/ \E m \in queue : Expire(m) \/ Redeliver(m)
             \/ \E i \in Item : Stopping(i) \/ Syncing(i)
             \/ \E j \in pending : Evaluate(j)
             \/ \E k \in Key : AgeLock(k)
             \/ UNCHANGED vars
      PROVE  Stays
  BY <1>7 DEF Expire, Redeliver, Stopping, Syncing, StopLoad, StopDelete, StopJob, StopSave, SyncEnds, SyncGivesUp,
              Evaluate, AgeLock, vars
<1>8. CASE Stays
  BY <1>8, <1>e DEF At
<1> QED BY <1>1, <1>2, <1>3, <1>4, <1>5, <1>6, <1>7, <1>8 DEF Next

LEMMA TypeStep == Typed /\ [Next]_vars => Typed'
<1> SUFFICES ASSUME Typed, [Next]_vars PROVE Typed'
  OBVIOUS
<1>1. TypeOK'
  BY TypeRequests, TypeDispatch, TypeOthers DEF Typed, Next
<1>2. RowsLast /\ MessagesMove
  BY RowsStep, MessagesStep DEF Typed
<1>3. /\ \A m \in queue : m.item \in Item
      /\ \A p \in Proc : proc[p].item \in Item /\ \A m \in proc[p].msg : m.item \in Item
  BY DEF Typed, TypeOK, Message, Proc_
<1>4. \A m \in queue' : status'[m.item] # "unsaved"
  BY <1>2, <1>3
     DEF Typed, Sent, MessagesMove, RowsLast, FromBroker, FromWorker, FromRequest, Enqueue
<1>5. \A p \in Proc : \A m \in proc'[p].msg : status'[m.item] # "unsaved"
  BY <1>2, <1>3 DEF Typed, Sent, MessagesMove, RowsLast
<1>6. ASSUME NEW p \in Proc, At(p, "enqueue")' PROVE status'[proc'[p].item] # "unsaved"
  <2>1. CASE At(p, "enqueue") /\ proc'[p].item = proc[p].item
    BY <2>1, <1>2, <1>3 DEF Typed, Sent, RowsLast
  <2>2. ASSUME NEW i \in Item, Schedule(p, i), proc'[p].item = i
        PROVE  status'[i] # "unsaved"
    BY <2>2 DEF Typed, TypeOK, Schedule
  <2> QED BY <1>6, <2>1, <2>2, EnqueueStep DEF Typed
<1> QED BY <1>1, <1>4, <1>5, <1>6 DEF Typed, Sent

(* The state is well typed: the frames of the processes, the rows, the broker's    *)
(* messages and the job counters.                                              *)
THEOREM DispatchTypeCorrect == Spec => []TypeOK
<1>1. Typed => TypeOK
  BY DEF Typed
<1> QED BY <1>1, TypeInit, TypeStep, PTL DEF Spec

(* A history that was cancelled or expired does not come back: of the saves, none   *)
(* writes a row that is gone.                                                  *)
THEOREM CancelledForGood == Spec => DeletedStaysDeleted
<1>1. TypeOK /\ [Next]_vars => [\A i \in Item : status[i] = "gone" => status'[i] = "gone"]_vars
  BY RowsStep DEF RowsLast
<1> QED BY <1>1, DispatchTypeCorrect, PTL DEF Spec, DeletedStaysDeleted

-------------------------------------------------------------------------------
(* The lock.                                                                  *)

In(p) == proc[p].step \in Critical
KeyAt(p) == KeyOf[proc[p].item]

(* Unless its lock row was taken from it, a process inside the lock has the row,    *)
(* is alone there, and has still no running rival once it has looked for one.      *)
HasRow == \A p \in Proc : In(p) => /\ proc[p].lockId # 0
                                   /\ KeyAt(p) \in unguarded \/ lock[KeyAt(p)].id = proc[p].lockId
Alone == \A p, q \in Proc :
           (In(p) /\ In(q) /\ p # q /\ KeyAt(p) = KeyAt(q)) => KeyAt(p) \in unguarded
NoRival(p) == \A j \in Item : (j # proc[p].item /\ KeyOf[j] = KeyAt(p)) => status[j] # "RUNNING"
Checked == \A p \in Proc :
             proc[p].step \in {"checked", "started"} => KeyAt(p) \in unguarded \/ NoRival(p)
Locked == HasRow /\ Alone /\ Checked /\ OneRunningPerKey

(* Steps outside the lock: processes stay where they are or end up outside (from      *)
(* inside only by leaving their lock row behind), lock rows keep their keys, and no   *)
(* row starts running.                                                         *)
Gone(q) == /\ ~In(q)'
           /\ \A k \in Key : (Held(k) /\ Holds(q, k)) => k \in leaked'
Outside ==
  /\ \A q \in Proc : proc'[q] = proc[q] \/ Gone(q)
  /\ \A k \in Key : lock'[k].id = lock[k].id /\ (Held(k)' => Held(k))
  /\ unguarded' = unguarded
  /\ leaked \subseteq leaked'
  /\ \A i \in Item : status'[i] = "RUNNING" => status[i] = "RUNNING"

(* Steps inside it: one process goes on, with the row and the history it has.      *)
Inside(p) ==
  /\ In(p) /\ In(p)'
  /\ proc'[p].item = proc[p].item /\ proc'[p].lockId = proc[p].lockId
  /\ \A q \in Proc \ {p} : proc'[q] = proc[q]
  /\ lock' = lock /\ unguarded' = unguarded /\ leaked' = leaked

LEMMA OutsideKeeps == ASSUME TypeOK, Locked, Outside PROVE Locked'
<1>0. \A p \in Proc : KeyAt(p) \in Key
  BY ItemAssumption DEF TypeOK, Proc_, KeyAt
<1>1. HasRow'
  BY <1>0 DEF Locked, HasRow, Outside, Gone, In, KeyAt
<1>2. Alone'
  BY DEF Locked, Alone, Outside, Gone, In, KeyAt
<1>3. Checked'
  BY DEF Locked, Checked, Outside, Gone, In, KeyAt, NoRival, Critical
<1>4. OneRunningPerKey'
  BY DEF Locked, OneRunningPerKey, Outside
<1> QED BY <1>1, <1>2, <1>3, <1>4 DEF Locked

LEMMA InsideKeeps ==
  ASSUME TypeOK, NEW p \in Proc, Locked, Inside(p),
         status' = status,
         proc'[p].step \in {"checked", "started"} => KeyAt(p) \in unguarded \/ NoRival(p)
  PROVE  Locked'
<1>1. HasRow'
  BY DEF Locked, HasRow, Inside, In, KeyAt
<1>2. Alone'
  BY DEF Locked, Alone, Inside, In, KeyAt
<1>3. Checked'
  BY DEF Locked, Checked, Inside, In, KeyAt, NoRival
<1>4. OneRunningPerKey'
  BY DEF Locked, OneRunningPerKey, Inside
<1> QED BY <1>1, <1>2, <1>3, <1>4 DEF Locked

(* Everything but a dispatch is outside the lock.                                *)
LEMMA OthersOutside ==
  ASSUME TypeOK,
         \/ \E p \in Proc :
              \/ \E i \in Item : Execute(p, i) \/ Schedule(p, i)
              \/ \E m \in queue : Take(p, m)
              \/ Enqueue(p) \/ SaveCeleryId(p) \/ Crash(p)
              \/ GateFails(p) \/ Refuse(p)
              \/ LockFails(p) /\ UNCHANGED <<lock, unguarded, leaked>>
              \/ UnlockFails(p) /\ UNCHANGED <<lock, unguarded>> /\ leaked' = leaked \cup OwnRows(p)
         \/ \E m \in queue : Expire(m) \/ Redeliver(m)
         \/ \E i \in Item : Stopping(i) \/ Syncing(i)
         \/ \E j \in pending : Evaluate(j)
         \/ \E k \in Key : AgeLock(k)
         \/ UNCHANGED vars
  PROVE  Outside
<1> USE DEF rowVars, nomadVars, ghostVars
<1>0. proc \in [Proc -> Proc_] /\ \A q \in Proc : proc[q] \in Proc_
  BY DEF TypeOK
<1>i. Idle.step \notin Critical
  BY DEF Idle, Frame, Critical
<1>m. ASSUME NEW p \in Proc, NEW f, Become(p, f), f.step \notin Critical, ~In(p)
      PROVE  \A q \in Proc : proc'[q] = proc[q] \/ Gone(q)
  BY <1>m, <1>0 DEF Become, In, Gone, Holds
<1>n. ASSUME NEW p \in Proc, Become(p, Idle),
             \A k \in Key : (Held(k) /\ Holds(p, k)) => k \in leaked'
      PROVE  \A q \in Proc : proc'[q] = proc[q] \/ Gone(q)
  BY <1>n, <1>0, <1>i DEF Become, In, Gone
<1>a. \A p \in Proc : At(p, "idle") \/ At(p, "enqueue") \/ At(p, "track") \/ At(p, "gate") => ~In(p)
  BY DEF At, In, Critical
<1>h. lock' = lock => \A k \in Key : lock'[k].id = lock[k].id /\ (Held(k)' => Held(k))
  BY DEF Held
<1>f. ASSUME NEW i, NEW s, NEW t, NEW ms
      PROVE  /\ Frame("gate", i, s, t, ms).step \notin Critical
             /\ Frame("enqueue", i, s, t, ms).step \notin Critical
  BY DEF Frame, Critical
<1>1. ASSUME NEW p \in Proc, NEW i \in Item, Execute(p, i) PROVE Outside
  BY <1>1, <1>m, <1>f, <1>a, <1>h DEF Execute, Outside
<1>2. ASSUME NEW p \in Proc, NEW i \in Item, Schedule(p, i) PROVE Outside
  <2>1. \A j \in Item : status'[j] = "RUNNING" => status[j] = "RUNNING"
    BY <1>2 DEF Schedule, TypeOK
  <2> QED BY <1>2, <2>1, <1>m, <1>f, <1>a, <1>h DEF Schedule, Outside
<1>3. ASSUME NEW p \in Proc, NEW m \in queue, Take(p, m) PROVE Outside
  BY <1>3, <1>m, <1>f, <1>a, <1>h DEF Take, Outside
<1>4. ASSUME NEW p \in Proc, Enqueue(p) PROVE Outside
  <2>1. \A q \in Proc : proc'[q] = proc[q] \/ Gone(q)
    BY <1>4, <1>0, <1>a DEF Enqueue, GoTo, In, Gone, Holds, Critical, Proc_
  <2> QED BY <1>4, <2>1, <1>h DEF Enqueue, Outside
<1>5. ASSUME NEW p \in Proc,
             \/ SaveCeleryId(p) \/ Refuse(p)
             \/ LockFails(p) /\ UNCHANGED <<lock, unguarded, leaked>>
      PROVE  Outside
  BY <1>5, <1>m, <1>i, <1>a, <1>h DEF SaveCeleryId, Refuse, LockFails, Leave, Outside
<1>11. ASSUME NEW p \in Proc, Crash(p) PROVE Outside
  <2>1. Become(p, Idle) /\ leaked' = leaked \cup {k \in Key : Holds(p, k)}
    BY <1>11 DEF Crash
  <2>2. \A q \in Proc : proc'[q] = proc[q] \/ Gone(q)
    BY <2>1, <1>n
  <2> QED BY <1>11, <2>1, <2>2, <1>h DEF Crash, Outside
<1>12. ASSUME NEW p \in Proc, UnlockFails(p), UNCHANGED <<lock, unguarded>>,
              leaked' = leaked \cup OwnRows(p)
       PROVE  Outside
  <2>1. Become(p, Idle)
    BY <1>12 DEF UnlockFails, Leave
  <2>2. \A k \in Key : (Held(k) /\ Holds(p, k)) => k \in leaked'
    BY <1>12 DEF OwnRows, Holds
  <2>3. \A q \in Proc : proc'[q] = proc[q] \/ Gone(q)
    BY <2>1, <2>2, <1>n
  <2> QED BY <1>12, <2>3, <1>h DEF UnlockFails, Outside
<1>6. ASSUME NEW p \in Proc, GateFails(p) PROVE Outside
  <2>1. \A j \in Item : status'[j] = "RUNNING" => status[j] = "RUNNING"
    BY <1>6 DEF GateFails, TypeOK
  <2> QED BY <1>6, <2>1, <1>m, <1>i, <1>a, <1>h DEF GateFails, Leave, Outside
<1>7. ASSUME NEW m \in queue, Expire(m) \/ Redeliver(m) PROVE Outside
  BY <1>7, <1>h DEF Expire, Redeliver, Outside, TypeOK
<1>8. ASSUME NEW i \in Item, Stopping(i) PROVE Outside
  BY <1>8, <1>h DEF Stopping, StopLoad, StopDelete, StopJob, StopSave, Outside, TypeOK
<1>13. ASSUME NEW i \in Item, Syncing(i) PROVE Outside
  BY <1>13, <1>h DEF Syncing, SyncEnds, SyncGivesUp, Outside, TypeOK
<1>14. ASSUME NEW j \in pending, Evaluate(j) PROVE Outside
  BY <1>14, <1>h DEF Evaluate, Outside
<1>9. ASSUME NEW k \in Key, AgeLock(k) PROVE Outside
  BY <1>9 DEF AgeLock, Outside, TypeOK, Held
<1>10. CASE UNCHANGED vars
  BY <1>10, <1>h DEF vars, Outside
<1> QED BY <1>1, <1>2, <1>3, <1>4, <1>5, <1>6, <1>7, <1>8, <1>9, <1>10, <1>11, <1>12,
            <1>13, <1>14

(* Inside the lock only Save touches the rows.                                   *)
LEMMA StepsInside ==
  ASSUME TypeOK, NEW p \in Proc,
         Check(p) \/ StartJob(p) \/ StartFails(p) \/ Save(p) \/ FailAfterStart(p)
  PROVE  Inside(p)
<1> USE DEF ghostVars
<1>0. proc \in [Proc -> Proc_] /\ proc[p] \in Proc_
  BY DEF TypeOK
<1>1. In(p) /\ lock' = lock /\ unguarded' = unguarded /\ leaked' = leaked
  BY DEF Check, StartJob, StartFails, Save, FailAfterStart, At, In, Critical
<1>g. ASSUME NEW s \in Critical, GoTo(p, s) PROVE Inside(p)
  BY <1>0, <1>1, <1>g DEF GoTo, Inside, In, Proc_
<1>f. ASSUME Fail(p) PROVE Inside(p)
  BY <1>0, <1>1, <1>f DEF Fail, Inside, In, Proc_, Critical
<1>2. CASE StartJob(p)
  BY <1>0, <1>1, <1>2 DEF StartJob, Become, Inside, In, Proc_, Critical
<1> QED BY <1>2, <1>g, <1>f DEF Check, StartFails, Save, FailAfterStart, Critical

(* The steps inside, one by one: the check establishes that there is no rival, the   *)
(* save relies on it.                                                          *)
LEMMA InsideSteps ==
  ASSUME TypeOK, Locked, NEW p \in Proc,
         Check(p) \/ StartJob(p) \/ StartFails(p) \/ Save(p) \/ FailAfterStart(p)
  PROVE  Locked'
<1> USE DEF rowVars, nomadVars, ghostVars
<1>0. /\ proc \in [Proc -> Proc_] /\ proc[p] \in Proc_ /\ Inside(p)
      /\ proc[p].item \in Item
  BY StepsInside DEF TypeOK, Proc_
<1>1. CASE Check(p)
  <2>1. proc'[p].step \in {"checked", "started"} => NoRival(p)
    BY <1>1, <1>0 DEF Check, Fail, Identical, Active, NoRival, KeyAt, Proc_
  <2> QED BY <1>0, <1>1, <2>1, InsideKeeps DEF Check
<1>2. CASE StartJob(p)
  <2>1. KeyAt(p) \in unguarded \/ NoRival(p)
    BY <1>2 DEF StartJob, At, Locked, Checked
  <2> QED BY <1>0, <1>2, <2>1, InsideKeeps DEF StartJob
<1>3. CASE StartFails(p) \/ FailAfterStart(p)
  <2>1. proc'[p].step = "unlock"
    BY <1>3, <1>0 DEF StartFails, FailAfterStart, Fail, Proc_
  <2> QED BY <1>0, <1>3, <2>1, InsideKeeps DEF StartFails, FailAfterStart
<1>4. CASE Save(p)
  <2>1. proc'[p].step = "unlock"
    BY <1>4, <1>0 DEF Save, GoTo, Fail, Proc_
  <2>2. CASE status' = status
    BY <1>0, <2>1, <2>2, InsideKeeps
  <2>3. CASE status' # status
    <3>1. \A j \in Item : status'[j] = IF j = proc[p].item THEN "RUNNING" ELSE status[j]
      BY <1>4, <1>0, <2>3 DEF Save, TypeOK
    <3>2. KeyAt(p) \in unguarded \/ NoRival(p)
      BY <1>4 DEF Save, At, Locked, Checked
    <3>3. OneRunningPerKey'
      BY <3>1, <3>2, <1>0 DEF OneRunningPerKey, Inside, NoRival, KeyAt, Locked
    <3>4. HasRow' /\ Alone'
      BY <1>0 DEF Locked, HasRow, Alone, Inside, In, KeyAt
    <3>5. ASSUME NEW q \in Proc, proc'[q].step \in {"checked", "started"},
                 KeyAt(q)' \notin unguarded', NEW j \in Item, j # proc'[q].item,
                 KeyOf[j] = KeyAt(q)'
          PROVE  status'[j] # "RUNNING"
      <4>1. q # p
        BY <3>5, <2>1
      <4>2. /\ proc'[q] = proc[q] /\ KeyAt(q)' = KeyAt(q) /\ KeyAt(q) \notin unguarded
            /\ In(q) /\ In(p)
        BY <4>1, <3>5, <1>0 DEF Inside, KeyAt, In, Critical
      <4>3. KeyAt(p) # KeyAt(q)
        BY <4>1, <4>2 DEF Locked, Alone
      <4>4. j # proc[p].item /\ NoRival(q)
        BY <3>5, <4>2, <4>3 DEF KeyAt, Locked, Checked
      <4> QED BY <3>1, <3>5, <4>2, <4>4 DEF NoRival
    <3>6. Checked'
      BY <3>5 DEF Checked, NoRival
    <3> QED BY <3>3, <3>4, <3>6 DEF Locked
  <2> QED BY <2>2, <2>3
<1> QED BY <1>1, <1>2, <1>3, <1>4

(* Whoever loses the row to another's delete has lost it to one that disturbs it.     *)
LEMMA TakenFrom ==
  ASSUME Locked, NEW k \in Key, unguarded' = unguarded \cup Disturbed(k),
         NEW q \in Proc, In(q), KeyAt(q) = k
  PROVE  k \in unguarded'
<1>1. CASE k \in unguarded
  BY <1>1
<1>2. CASE k \notin unguarded
  <2>1. lock[k].id = proc[q].lockId /\ lock[k].id # 0
    BY <1>2 DEF Locked, HasRow
  <2>2. Held(k) /\ Holds(q, k)
    BY <2>1 DEF Held, Holds, NoLock, In, KeyAt
  <2> QED BY <2>2 DEF Disturbed
<1> QED BY <1>1, <1>2

(* Whoever takes the lock is alone there, or takes it from a working holder.       *)
LEMMA LockStep == ASSUME TypeOK, Locked, NEW p \in Proc, Lock(p) PROVE Locked'
<1> DEFINE k == KeyAt(p)
<1>0. /\ proc \in [Proc -> Proc_] /\ proc[p] \in Proc_ /\ k \in Key /\ ~In(p)
      /\ \A q \in Proc : KeyAt(q) \in Key
  BY ItemAssumption DEF TypeOK, Proc_, KeyAt, Lock, At, In, Critical
<1>1. PICK id \in LockId : /\ FreshId(id, k)
                           /\ lock' = [lock EXCEPT ![k] = [id |-> id, old |-> FALSE]]
                           /\ Become(p, [proc[p] EXCEPT !.step = "locked", !.lockId = id])
  BY DEF Lock, KeyAt
<1>2. id # 0
  BY <1>0, <1>1, FreshIdType
<1>3. /\ proc'[p].step = "locked" /\ proc'[p].lockId = id /\ proc'[p].item = proc[p].item
      /\ \A q \in Proc \ {p} : proc'[q] = proc[q]
  BY <1>0, <1>1 DEF Become, Proc_
<1>4. /\ lock'[k].id = id /\ \A j \in Key \ {k} : lock'[j] = lock[j]
      /\ status' = status /\ unguarded \subseteq unguarded'
  BY <1>0, <1>1 DEF Lock, TypeOK, rowVars
<1>5. ASSUME NEW q \in Proc, In(q), KeyAt(q) = k PROVE k \in unguarded'
  <2>1. unguarded' = unguarded \cup Disturbed(k)
    BY DEF Lock, KeyAt
  <2> QED BY <2>1, <1>0, <1>5, TakenFrom
<1>6. HasRow'
  <2> SUFFICES ASSUME NEW q \in Proc, In(q)'
               PROVE  /\ proc'[q].lockId # 0
                      /\ KeyAt(q)' \in unguarded' \/ lock'[KeyAt(q)'].id = proc'[q].lockId
    BY DEF HasRow
  <2>1. CASE q = p
    BY <2>1, <1>2, <1>3, <1>4 DEF KeyAt
  <2>2. CASE q # p
    <3>1. proc'[q] = proc[q] /\ In(q) /\ KeyAt(q)' = KeyAt(q)
      BY <2>2, <1>3 DEF In, KeyAt
    <3>2. CASE KeyAt(q) = k
      BY <3>1, <3>2, <1>5 DEF Locked, HasRow
    <3>3. CASE KeyAt(q) # k
      BY <3>1, <3>3, <1>0, <1>4 DEF Locked, HasRow
    <3> QED BY <3>2, <3>3
  <2> QED BY <2>1, <2>2
<1>7. Alone'
  <2> SUFFICES ASSUME NEW q \in Proc, NEW r \in Proc, In(q)', In(r)', q # r,
                      KeyAt(q)' = KeyAt(r)'
               PROVE  KeyAt(q)' \in unguarded'
    BY DEF Alone
  <2>1. CASE q # p /\ r # p
    BY <2>1, <1>3, <1>4 DEF Locked, Alone, In, KeyAt
  <2>2. CASE q = p
    <3>1. In(r) /\ KeyAt(r) = k /\ KeyAt(q)' = k
      BY <2>2, <1>3 DEF In, KeyAt
    <3> QED BY <3>1, <1>5
  <2>3. CASE r = p
    <3>1. In(q) /\ KeyAt(q) = k /\ KeyAt(q)' = k
      BY <2>3, <1>3 DEF In, KeyAt
    <3> QED BY <3>1, <1>5
  <2> QED BY <2>1, <2>2, <2>3
<1>8. Checked'
  BY <1>3, <1>4 DEF Locked, Checked, NoRival, KeyAt
<1>9. OneRunningPerKey'
  BY <1>4 DEF Locked, OneRunningPerKey
<1> QED BY <1>6, <1>7, <1>8, <1>9 DEF Locked

(* A create that fails after its commits takes it from a working holder as well.     *)
LEMMA LockFailsStep ==
  ASSUME TypeOK, Locked, NEW p \in Proc, LockFails(p), ~UNCHANGED <<lock, unguarded, leaked>>
  PROVE  Locked'
<1> DEFINE k == KeyAt(p)
<1>0. /\ proc \in [Proc -> Proc_] /\ k \in Key
      /\ \A q \in Proc : KeyAt(q) \in Key
  BY ItemAssumption DEF TypeOK, Proc_, KeyAt
<1>1. /\ ~In(p)' /\ \A q \in Proc \ {p} : proc'[q] = proc[q]
      /\ status' = status
  BY <1>0 DEF LockFails, Leave, Become, In, Idle, Frame, Critical, rowVars
<1>2. /\ unguarded' = unguarded \cup Disturbed(k)
      /\ \A j \in Key \ {k} : lock'[j] = lock[j]
  BY <1>0 DEF LockFails, KeyAt, TypeOK
<1>3. ASSUME NEW q \in Proc, In(q), KeyAt(q) = k PROVE k \in unguarded'
  BY <1>0, <1>2, <1>3, TakenFrom
<1>4. HasRow'
  <2> SUFFICES ASSUME NEW q \in Proc, In(q)'
               PROVE  /\ proc'[q].lockId # 0
                      /\ KeyAt(q)' \in unguarded' \/ lock'[KeyAt(q)'].id = proc'[q].lockId
    BY DEF HasRow
  <2>1. proc'[q] = proc[q] /\ In(q) /\ KeyAt(q)' = KeyAt(q)
    BY <1>1 DEF In, KeyAt
  <2>2. CASE KeyAt(q) = k
    BY <2>1, <2>2, <1>3 DEF Locked, HasRow
  <2>3. CASE KeyAt(q) # k
    BY <2>1, <2>3, <1>0, <1>2 DEF Locked, HasRow
  <2> QED BY <2>2, <2>3
<1>5. Alone'
  BY <1>1, <1>2 DEF Locked, Alone, In, KeyAt
<1>6. Checked'
  BY <1>1, <1>2 DEF Locked, Checked, NoRival, KeyAt, In, Critical
<1>7. OneRunningPerKey'
  BY <1>1, <1>2 DEF Locked, OneRunningPerKey
<1> QED BY <1>4, <1>5, <1>6, <1>7 DEF Locked

(* Deleting one's own lock row leaves the others their rows, or takes it from them.  *)
LEMMA DeleteStep ==
  ASSUME TypeOK, Locked, NEW p \in Proc, DeleteLock(p), Become(p, Idle), status' = status
  PROVE  Locked'
<1> DEFINE mine == OwnRows(p)
<1>0. /\ proc \in [Proc -> Proc_]
      /\ \A q \in Proc : KeyAt(q) \in Key
  BY ItemAssumption DEF TypeOK, Proc_, KeyAt
<1>1. ~In(p)' /\ \A q \in Proc \ {p} : proc'[q] = proc[q]
  BY <1>0 DEF Become, In, Idle, Frame, Critical
<1>2. /\ lock' = [k \in Key |-> IF k \in mine THEN NoLock ELSE lock[k]]
      /\ unguarded' = unguarded \cup {k \in mine : \E q \in Proc \ {p} : Holds(q, k)}
  BY DEF DeleteLock
<1>3. HasRow'
  <2> SUFFICES ASSUME NEW q \in Proc, In(q)'
               PROVE  /\ proc'[q].lockId # 0
                      /\ KeyAt(q)' \in unguarded' \/ lock'[KeyAt(q)'].id = proc'[q].lockId
    BY DEF HasRow
  <2>1. q # p /\ proc'[q] = proc[q] /\ In(q) /\ KeyAt(q)' = KeyAt(q)
    BY <1>1 DEF In, KeyAt
  <2>2. CASE KeyAt(q) \notin mine
    BY <2>1, <2>2, <1>0, <1>2 DEF Locked, HasRow
  <2>3. CASE KeyAt(q) \in mine /\ KeyAt(q) \notin unguarded
    <3>1. Holds(q, KeyAt(q))
      BY <2>1, <2>3 DEF Locked, HasRow, Holds, In, KeyAt
    <3> QED BY <2>1, <2>3, <3>1, <1>2 DEF Locked, HasRow
  <2>4. CASE KeyAt(q) \in unguarded
    BY <2>1, <2>4, <1>2 DEF Locked, HasRow
  <2> QED BY <2>2, <2>3, <2>4
<1>4. Alone'
  BY <1>1, <1>2 DEF Locked, Alone, In, KeyAt
<1>5. Checked'
  BY <1>1, <1>2 DEF Locked, Checked, NoRival, KeyAt, In, Critical
<1>6. OneRunningPerKey'
  BY <1>1, <1>2 DEF Locked, OneRunningPerKey
<1> QED BY <1>3, <1>4, <1>5, <1>6 DEF Locked

LEMMA LockedInit == Init => Locked
BY DEF Init, Locked, HasRow, Alone, Checked, OneRunningPerKey, In, Idle, Frame, Critical

(* The ways out of the lock, and of its taking, that change no lock row are outside.  *)
LEMMA WaysOut ==
  ASSUME TypeOK, NEW p \in Proc, LockFails(p) \/ Unlock(p) \/ UnlockFails(p)
  PROVE  \/ Outside
         \/ LockFails(p) /\ ~UNCHANGED <<lock, unguarded, leaked>>
         \/ DeleteLock(p) /\ Become(p, Idle) /\ status' = status
<1>1. CASE LockFails(p)
  BY <1>1, OthersOutside
<1>2. CASE Unlock(p)
  BY <1>2 DEF Unlock, rowVars
<1>3. CASE UnlockFails(p)
  <2>1. CASE DeleteLock(p)
    BY <1>3, <2>1 DEF UnlockFails, Leave, rowVars
  <2>2. CASE leaked' = leaked \cup OwnRows(p) /\ UNCHANGED <<lock, unguarded>>
    BY <1>3, <2>2, OthersOutside
  <2> QED BY <1>3, <2>1, <2>2 DEF UnlockFails
<1> QED BY <1>1, <1>2, <1>3

LEMMA LockedStep == TypeOK /\ Locked /\ [Next]_vars => Locked'
<1> SUFFICES ASSUME TypeOK, Locked, [Next]_vars PROVE Locked'
  OBVIOUS
<1>1. CASE Outside
  BY <1>1, OutsideKeeps
<1>2. ASSUME NEW p \in Proc, LockFails(p) \/ Unlock(p) \/ UnlockFails(p) PROVE Locked'
  BY <1>1, <1>2, WaysOut, LockFailsStep, DeleteStep
<1>3. ASSUME NEW p \in Proc,
             \/ Lock(p) \/ Check(p) \/ StartJob(p) \/ StartFails(p) \/ Save(p)
             \/ FailAfterStart(p)
      PROVE  Locked'
  BY <1>3, InsideSteps, LockStep
<1> QED BY <1>1, <1>2, <1>3, OthersOutside DEF Next, Dispatching

(* Two identical histories never run at once, however many processes dispatch them   *)
(* and wherever they fail or die, unless a lock row was deleted while its holder    *)
(* was still inside.                                                          *)
THEOREM IdenticalExcluded == Spec => []OneRunningPerKey
<1>1. Locked => OneRunningPerKey
  BY DEF Locked
<1> QED BY <1>1, LockedInit, LockedStep, DispatchTypeCorrect, PTL DEF Spec

LEMMA ReleaseInit == Init => LockHeldOrLeaked
BY DEF Init, LockHeldOrLeaked, Held

LEMMA ReleaseStep == TypeOK /\ LockHeldOrLeaked /\ [Next]_vars => LockHeldOrLeaked'
<1> SUFFICES ASSUME TypeOK, LockHeldOrLeaked, [Next]_vars PROVE LockHeldOrLeaked'
  OBVIOUS
<1>0. proc \in [Proc -> Proc_] /\ \A q \in Proc : proc[q] \in Proc_ /\ KeyAt(q) \in Key
  BY ItemAssumption DEF TypeOK, Proc_, KeyAt
<1>h. \A q \in Proc, k \in Key :
        Holds(q, k) <=> In(q) /\ KeyAt(q) = k /\ proc[q].lockId = lock[k].id
  BY DEF Holds, In, KeyAt
<1>p. \A q \in Proc, k \in Key :
        Holds(q, k)' <=> In(q)' /\ KeyAt(q)' = k /\ proc'[q].lockId = lock'[k].id
  BY DEF Holds, In, KeyAt
<1>1. CASE Outside
  <2> SUFFICES ASSUME NEW k \in Key, Held(k)', k \notin leaked'
               PROVE  \E q \in Proc : Holds(q, k)'
    BY DEF LockHeldOrLeaked
  <2>1. k \notin leaked /\ Held(k) /\ lock'[k].id = lock[k].id
    BY <1>1 DEF Outside
  <2>2. PICK q \in Proc : Holds(q, k)
    BY <2>1 DEF LockHeldOrLeaked
  <2>3. proc'[q] = proc[q]
    BY <1>1, <2>1, <2>2 DEF Outside, Gone
  <2> QED BY <2>1, <2>2, <2>3 DEF Holds
<1>2. ASSUME NEW p \in Proc, Inside(p) PROVE LockHeldOrLeaked'
  <2>1. \A k \in Key : \A q \in Proc : Holds(q, k) => Holds(q, k)'
    BY <1>2, <1>h, <1>p DEF Inside, KeyAt, In
  <2> QED BY <1>2, <2>1 DEF LockHeldOrLeaked, Inside, Held
<1>3. ASSUME NEW p \in Proc, NEW k \in Key, ~In(p),
             \A q \in Proc \ {p} : proc'[q] = proc[q],
             \A j \in Key \ {k} : lock'[j] = lock[j],
             leaked \ {k} \subseteq leaked',
             Held(k)' => k \in leaked' \/ Holds(p, k)'
      PROVE  LockHeldOrLeaked'
  <2> SUFFICES ASSUME NEW j \in Key, Held(j)', j \notin leaked', j # k
               PROVE  \E q \in Proc : Holds(q, j)'
    BY <1>3 DEF LockHeldOrLeaked
  <2>1. Held(j) /\ j \notin leaked /\ lock'[j] = lock[j]
    BY <1>3 DEF Held
  <2>2. PICK q \in Proc : Holds(q, j)
    BY <2>1 DEF LockHeldOrLeaked
  <2>3. proc'[q] = proc[q]
    BY <1>3, <1>h, <2>2
  <2> QED BY <2>1, <2>2, <2>3 DEF Holds
<1>4. ASSUME NEW p \in Proc, Lock(p) PROVE LockHeldOrLeaked'
  <2>0. PICK k \in Key : k = KeyAt(p)
    BY <1>0
  <2>1. PICK id \in LockId : /\ lock' = [lock EXCEPT ![k] = [id |-> id, old |-> FALSE]]
                             /\ Become(p, [proc[p] EXCEPT !.step = "locked", !.lockId = id])
    BY <1>4, <2>0 DEF Lock, KeyAt
  <2>2. /\ proc'[p].step = "locked" /\ proc'[p].lockId = id /\ proc'[p].item = proc[p].item
        /\ \A q \in Proc \ {p} : proc'[q] = proc[q]
    BY <1>0, <2>1 DEF Become, Proc_
  <2>3. lock'[k].id = id /\ \A j \in Key \ {k} : lock'[j] = lock[j]
    BY <1>0, <2>1 DEF TypeOK, NoLock
  <2>4. Holds(p, k)'
    BY <2>0, <2>2, <2>3 DEF Holds, KeyAt, Critical
  <2>5. ~In(p) /\ leaked' = leaked \ {k}
    BY <1>4, <2>0 DEF Lock, At, In, KeyAt, Critical
  <2> QED BY <2>2, <2>3, <2>4, <2>5, <1>3
<1>5. ASSUME NEW p \in Proc, LockFails(p), ~UNCHANGED <<lock, unguarded, leaked>>
      PROVE  LockHeldOrLeaked'
  <2>0. PICK k \in Key : k = KeyAt(p)
    BY <1>0
  <2>1. ~In(p) /\ \A q \in Proc \ {p} : proc'[q] = proc[q]
    BY <1>5, <1>0 DEF LockFails, Leave, Become, At, In, Critical
  <2>2. /\ \A j \in Key \ {k} : lock'[j] = lock[j]
        /\ leaked \ {k} \subseteq leaked'
        /\ Held(k)' => k \in leaked'
    BY <1>5, <2>0 DEF LockFails, KeyAt, Held, TypeOK
  <2> QED BY <2>1, <2>2, <1>3
<1>6. ASSUME NEW p \in Proc, DeleteLock(p), Become(p, Idle) PROVE LockHeldOrLeaked'
  <2> DEFINE mine == OwnRows(p)
  <2>1. \A q \in Proc \ {p} : proc'[q] = proc[q]
    BY <1>0, <1>6 DEF Become
  <2>2. lock' = [k \in Key |-> IF k \in mine THEN NoLock ELSE lock[k]] /\ leaked' = leaked \ mine
    BY <1>6 DEF DeleteLock
  <2>3. ASSUME NEW k \in Key, Held(k)' PROVE k \notin mine /\ lock'[k] = lock[k] /\ Held(k)
    BY <2>2, <2>3 DEF Held
  <2>4. ASSUME NEW k \in Key, Held(k)', NEW q \in Proc, Holds(q, k) PROVE q # p /\ Holds(q, k)'
    BY <2>1, <2>3, <2>4 DEF Holds, OwnRows
  <2> QED BY <2>2, <2>3, <2>4 DEF LockHeldOrLeaked
<1>7. ASSUME NEW p \in Proc, LockFails(p) \/ Unlock(p) \/ UnlockFails(p)
      PROVE  LockHeldOrLeaked'
  BY <1>1, <1>5, <1>6, <1>7, WaysOut
<1>8. ASSUME NEW p \in Proc,
             Check(p) \/ StartJob(p) \/ StartFails(p) \/ Save(p) \/ FailAfterStart(p)
      PROVE  LockHeldOrLeaked'
  BY <1>2, <1>8, StepsInside
<1> QED BY <1>1, <1>4, <1>7, <1>8, OthersOutside DEF Next, Dispatching

(* A lock row is its working holder's, or one that a death, a create that failed after    *)
(* its commit or a delete that failed has left: no other way out of a dispatch, however   *)
(* it raises, leaves one.                                                      *)
THEOREM LocksReleased == Spec => []LockHeldOrLeaked
BY ReleaseInit, ReleaseStep, DispatchTypeCorrect, PTL DEF Spec

-------------------------------------------------------------------------------
(* The tracking of a row.                                                      *)

(* What a process may come to work on: what it had, a history without a row, or the   *)
(* history of a message it takes.                                              *)
GoesOn(p) == /\ proc[p].step # "idle" /\ proc'[p].step # "idle"
             /\ proc'[p].item = proc[p].item
             /\ proc'[p].msg = proc[p].msg
             /\ proc'[p].step = "enqueue" => At(p, "enqueue")
             /\ proc'[p].step = "track" => At(p, "enqueue") \/ At(p, "track")
Begins(p) == \E i \in Item : /\ Execute(p, i) \/ Schedule(p, i)
                             /\ proc'[p].item = i /\ proc'[p].msg = {}
                             /\ proc'[p].step \in {"gate", "enqueue"}
Takes(p) == \E m \in queue : /\ Take(p, m)
                             /\ proc'[p].item = m.item /\ proc'[p].msg = {m}
                             /\ proc'[p].step = "gate"
WorkMoves == \A p \in Proc : proc'[p] = Idle \/ proc'[p] = proc[p]
                             \/ GoesOn(p) \/ Begins(p) \/ Takes(p)

LEMMA WorkStep == ASSUME TypeOK, [Next]_vars PROVE WorkMoves
<1>0. proc \in [Proc -> Proc_] /\ \A p \in Proc : proc[p] \in Proc_
  BY DEF TypeOK
<1>m. ASSUME NEW p \in Proc, NEW f, Become(p, f)
      PROVE  proc'[p] = f /\ \A q \in Proc \ {p} : proc'[q] = proc[q]
  BY <1>m, <1>0 DEF Become
<1>1. ASSUME NEW p \in Proc, NEW i \in Item, Execute(p, i) PROVE WorkMoves
  <2>0. /\ proc'[p].item = i /\ proc'[p].msg = {}
        /\ proc'[p].step \in {"gate", "enqueue"}
    BY <1>1, <1>m DEF Execute, Frame
  <2>1. Begins(p)
    BY <1>1, <2>0 DEF Begins
  <2> QED BY <1>1, <2>1, <1>m DEF Execute, WorkMoves
<1>2. ASSUME NEW p \in Proc, NEW i \in Item, Schedule(p, i) PROVE WorkMoves
  <2>0. /\ proc'[p].item = i /\ proc'[p].msg = {}
        /\ proc'[p].step \in {"gate", "enqueue"}
    BY <1>2, <1>m DEF Schedule, Frame
  <2>1. Begins(p)
    BY <1>2, <2>0 DEF Begins
  <2> QED BY <1>2, <2>1, <1>m DEF Schedule, WorkMoves
<1>3. ASSUME NEW p \in Proc, NEW m \in queue, Take(p, m) PROVE WorkMoves
  <2>1. CASE status[m.item] = "gone"
    BY <1>3, <2>1 DEF Take, WorkMoves
  <2>2. CASE status[m.item] # "gone"
    <3>0. /\ proc'[p].item = m.item /\ proc'[p].msg = {m}
          /\ proc'[p].step = "gate"
      BY <1>3, <2>2, <1>m DEF Take, Frame
    <3>1. Takes(p)
      BY <1>3, <3>0 DEF Takes
    <3> QED BY <1>3, <2>2, <3>1, <1>m DEF Take, WorkMoves
  <2> QED BY <2>1, <2>2
<1>g. ASSUME NEW p \in Proc, NEW s \in Step \ {"idle"}, GoTo(p, s), ~At(p, "idle"),
             s = "enqueue" => At(p, "enqueue"),
             s = "track" => At(p, "enqueue") \/ At(p, "track")
      PROVE  WorkMoves
  <2>1. GoesOn(p) /\ \A q \in Proc \ {p} : proc'[q] = proc[q]
    BY <1>g, <1>0 DEF GoTo, GoesOn, Proc_, At
  <2> QED BY <2>1 DEF WorkMoves
<1>f. ASSUME NEW p \in Proc, Fail(p), ~At(p, "idle") PROVE WorkMoves
  <2>1. GoesOn(p) /\ \A q \in Proc \ {p} : proc'[q] = proc[q]
    BY <1>f, <1>0 DEF Fail, GoesOn, Proc_, At
  <2> QED BY <2>1 DEF WorkMoves
<1>i. ASSUME NEW p \in Proc, Become(p, Idle) PROVE WorkMoves
  BY <1>i, <1>m DEF WorkMoves
<1>4. ASSUME NEW p \in Proc, Enqueue(p) PROVE WorkMoves
  BY <1>4, <1>g DEF Enqueue, At, Step
<1>5. ASSUME NEW p \in Proc, SaveCeleryId(p) \/ Crash(p) PROVE WorkMoves
  BY <1>5, <1>i DEF SaveCeleryId, Crash
<1>6. ASSUME NEW p \in Proc, Dispatching(p) PROVE WorkMoves
  <2>1. CASE GateFails(p) \/ Refuse(p) \/ Unlock(p) \/ LockFails(p) \/ UnlockFails(p)
    BY <2>1, <1>i DEF GateFails, Refuse, Leave, Unlock, LockFails, UnlockFails
  <2>2. CASE Lock(p)
    <3>1. GoesOn(p) /\ \A q \in Proc \ {p} : proc'[q] = proc[q]
      BY <2>2, <1>0 DEF Lock, Become, GoesOn, Proc_, At
    <3> QED BY <3>1 DEF WorkMoves
  <2>3. CASE StartJob(p)
    <3>1. GoesOn(p) /\ \A q \in Proc \ {p} : proc'[q] = proc[q]
      BY <2>3, <1>0 DEF StartJob, Become, GoesOn, Proc_, At
    <3> QED BY <3>1 DEF WorkMoves
  <2>4. CASE Check(p) \/ StartFails(p) \/ FailAfterStart(p) \/ Save(p)
    BY <2>4, <1>f, <1>g DEF Check, StartFails, FailAfterStart, Save, At, Step
  <2> QED BY <1>6, <2>1, <2>2, <2>3, <2>4 DEF Dispatching
<1>7. CASE \/ \E m \in queue : Expire(m) \/ Redeliver(m)
           \/ \E i \in Item : Stopping(i) \/ Syncing(i)
           \/ \E j \in pending : Evaluate(j)
           \/ \E k \in Key : AgeLock(k)
           \/ UNCHANGED vars
  BY <1>7 DEF Expire, Redeliver, Stopping, Syncing, StopLoad, StopDelete, StopJob, StopSave, SyncEnds, SyncGivesUp,
              Evaluate, AgeLock, vars, WorkMoves
<1> QED BY <1>1, <1>2, <1>3, <1>4, <1>5, <1>6, <1>7 DEF Next

(* Only a save makes a row RUNNING, and it names its job; only the route unnames it.  *)
Saves(i) == \E p \in Proc : /\ At(p, "started") /\ proc[p].item = i
                            /\ track'[i].job = proc[p].track.job
Unnames(i) == \E p \in Proc : At(p, "track") /\ proc[p].item = i /\ track'[i].job = 0
RowMoves ==
  /\ \A i \in Item : status'[i] = "RUNNING" => status[i] = "RUNNING" \/ Saves(i)
  /\ \A i \in Item : track'[i] = track[i] \/ Saves(i) \/ Unnames(i)
  /\ early \subseteq early'
  /\ \A p \in Proc : At(p, "started")' => \/ At(p, "started") /\ proc'[p] = proc[p]
                                          \/ proc'[p].track.job # 0

LEMMA RowStep == ASSUME TypeOK, [Next]_vars PROVE RowMoves
<1> USE DEF rowVars, nomadVars, ghostVars
<1>0. /\ proc \in [Proc -> Proc_]
      /\ \A p \in Proc : proc[p] \in Proc_ /\ proc[p].item \in Item
      /\ status \in [Item -> RowStatus \cup {"unsaved", "gone"}]
      /\ track \in [Item -> [job : Nat, celery : BOOLEAN]]
  BY DEF TypeOK, Proc_
<1>q. ASSUME track' = track, early \subseteq early',
             \A i \in Item : status'[i] = "RUNNING" => status[i] = "RUNNING",
             \A p \in Proc : proc'[p] = proc[p] \/ ~At(p, "started")'
      PROVE  RowMoves
  BY <1>q DEF RowMoves, At
<1>b. ASSUME NEW p \in Proc, NEW f, Become(p, f), f.step # "started"
      PROVE  \A q \in Proc : proc'[q] = proc[q] \/ ~At(q, "started")'
  BY <1>b, <1>0 DEF Become, At
<1>g. ASSUME NEW p \in Proc, NEW s \in Step, GoTo(p, s), s # "started"
      PROVE  \A q \in Proc : proc'[q] = proc[q] \/ ~At(q, "started")'
  BY <1>g, <1>0 DEF GoTo, At, Proc_
<1>f. ASSUME NEW p \in Proc, Fail(p)
      PROVE  \A q \in Proc : proc'[q] = proc[q] \/ ~At(q, "started")'
  BY <1>f, <1>0 DEF Fail, At, Proc_
<1>1. ASSUME NEW p \in Proc, NEW i \in Item, Execute(p, i) \/ Schedule(p, i) PROVE RowMoves
  <2>1. \A j \in Item : status'[j] = "RUNNING" => status[j] = "RUNNING"
    BY <1>1, <1>0 DEF Execute, Schedule
  <2> QED BY <1>1, <2>1, <1>b, <1>q DEF Execute, Schedule, Frame
<1>2. ASSUME NEW p \in Proc, NEW m \in queue, Take(p, m) PROVE RowMoves
  <2>1. \A q \in Proc : proc'[q] = proc[q] \/ ~At(q, "started")'
    BY <1>2, <1>b DEF Take, Frame
  <2>2. early \subseteq early'
    BY <1>2 DEF Take
  <2> QED BY <1>2, <2>1, <2>2, <1>q DEF Take
<1>3. ASSUME NEW p \in Proc, Enqueue(p) PROVE RowMoves
  BY <1>3, <1>g, <1>q DEF Enqueue, Step
<1>4. ASSUME NEW p \in Proc, SaveCeleryId(p) PROVE RowMoves
  <2>1. \A i \in Item : track'[i] = track[i] \/ Unnames(i)
    BY <1>4, <1>0 DEF SaveCeleryId, Unnames
  <2>2. \A q \in Proc : proc'[q] = proc[q] \/ ~At(q, "started")'
    BY <1>4, <1>b DEF SaveCeleryId, Idle, Frame
  <2> QED BY <1>4, <2>1, <2>2 DEF SaveCeleryId, RowMoves, At
<1>5. ASSUME NEW p \in Proc, Crash(p) PROVE RowMoves
  BY <1>5, <1>b, <1>q DEF Crash, Idle, Frame
<1>6. ASSUME NEW p \in Proc, Dispatching(p) PROVE RowMoves
  <2>1. CASE GateFails(p)
    <3>1. \A j \in Item : status'[j] = "RUNNING" => status[j] = "RUNNING"
      BY <2>1, <1>0 DEF GateFails
    <3> QED BY <2>1, <3>1, <1>b, <1>q DEF GateFails, Leave, Idle, Frame
  <2>2. CASE Refuse(p) \/ Unlock(p) \/ LockFails(p) \/ UnlockFails(p)
    BY <2>2, <1>b, <1>q DEF Refuse, Leave, Unlock, LockFails, UnlockFails, Idle, Frame
  <2>3. CASE Lock(p)
    <3>1. \A q \in Proc : proc'[q] = proc[q] \/ ~At(q, "started")'
      BY <2>3, <1>0 DEF Lock, Become, Proc_, At
    <3> QED BY <2>3, <3>1, <1>q DEF Lock
  <2>4. CASE Check(p) \/ StartFails(p) \/ FailAfterStart(p)
    BY <2>4, <1>f, <1>g, <1>q DEF Check, StartFails, FailAfterStart, Step
  <2>5. CASE StartJob(p)
    <3>1. started[proc[p].item] + 1 # 0
      BY <1>0 DEF TypeOK
    <3>2. \A q \in Proc : At(q, "started")' => proc'[q] = proc[q] \/ proc'[q].track.job # 0
      BY <2>5, <3>1, <1>0 DEF StartJob, Become, Proc_, At
    <3> QED BY <2>5, <3>2 DEF StartJob, RowMoves, At
  <2>6. CASE Save(p)
    <3>1. \A q \in Proc : proc'[q] = proc[q] \/ ~At(q, "started")'
      BY <2>6, <1>f, <1>g DEF Save, Step
    <3>2. \A i \in Item : \/ status'[i] = status[i] /\ track'[i] = track[i]
                          \/ Saves(i)
      <4>1. CASE Writable(proc[p].item)
        <5>1. /\ status' = [status EXCEPT ![proc[p].item] = "RUNNING"]
              /\ track' = [track EXCEPT ![proc[p].item] = proc[p].track]
              /\ At(p, "started")
          BY <2>6, <4>1 DEF Save, FlaggedTrack
        <5>2. track'[proc[p].item].job = proc[p].track.job
          BY <5>1, <1>0
        <5> QED BY <5>1, <5>2, <1>0 DEF Saves
      <4>2. CASE ~Writable(proc[p].item)
        BY <2>6, <4>2 DEF Save
      <4> QED BY <4>1, <4>2
    <3>3. early' = early
      BY <2>6 DEF Save
    <3> QED BY <3>1, <3>2, <3>3 DEF RowMoves, At
  <2> QED BY <1>6, <2>1, <2>2, <2>3, <2>4, <2>5, <2>6 DEF Dispatching
<1>7. ASSUME NEW m \in queue, Expire(m) \/ Redeliver(m) PROVE RowMoves
  BY <1>7, <1>0, <1>q DEF Expire, Redeliver
<1>8. ASSUME NEW i \in Item, Stopping(i) PROVE RowMoves
  BY <1>8, <1>0, <1>q DEF Stopping, StopLoad, StopDelete, StopJob, StopSave
<1>10. ASSUME NEW i \in Item, Syncing(i) PROVE RowMoves
  BY <1>10, <1>0, <1>q DEF Syncing, SyncEnds, SyncGivesUp
<1>9. CASE \/ \E k \in Key : AgeLock(k)
           \/ \E j \in pending : Evaluate(j)
           \/ UNCHANGED vars
  BY <1>9, <1>q DEF AgeLock, Evaluate, vars
<1> QED BY <1>1, <1>2, <1>3, <1>4, <1>5, <1>6, <1>7, <1>8, <1>9, <1>10 DEF Next

(* Until the broker has its message, and after that until a worker takes it, a         *)
(* scheduled history is only the route's: nobody else dispatches it.             *)
Mine(q) == /\ status[proc[q].item] # "RUNNING"
           /\ \A p \in Proc \ {q} : At(p, "idle") \/ proc[p].item # proc[q].item
Unsent(q) == \A m \in queue : m.item # proc[q].item
Tracked ==
  /\ RunningRowNamesJob
  /\ \A p \in Proc : At(p, "started") => proc[p].track.job # 0
  /\ \A p \in Proc : /\ proc[p].step \in {"idle", "enqueue", "track"} => proc[p].msg = {}
                     /\ \A m \in proc[p].msg : m.item = proc[p].item
  /\ \A q \in Proc : At(q, "enqueue") => Mine(q) /\ Unsent(q)
  /\ \A q \in Proc : At(q, "track") => /\ status[proc[q].item] # "unsaved"
                                       /\ proc[q].item \in early \/ Mine(q)

(* What is only the route's stays so, unless a worker takes it.                   *)
LEMMA MineKept ==
  ASSUME Typed, Tracked, WorkMoves, RowMoves, NEW q \in Proc, Mine(q),
         ~At(q, "idle"), ~At(q, "started"), proc'[q].item = proc[q].item,
         status[proc[q].item] # "unsaved",
         \A p \in Proc \ {q} : \A m \in queue : Take(p, m) => m.item # proc[q].item
  PROVE  Mine(q)'
<1>0. proc[q].item \in Item
  BY DEF Typed, TypeOK, Proc_
<1>1. status'[proc[q].item] # "RUNNING"
  BY <1>0 DEF RowMoves, Mine, Saves, At
<1>2. ASSUME NEW p \in Proc \ {q}
      PROVE  At(p, "idle")' \/ proc'[p].item # proc[q].item
  <2>1. CASE proc'[p] = Idle \/ proc'[p] = proc[p] \/ GoesOn(p)
    BY <1>2, <2>1 DEF Idle, Frame, GoesOn, At, Mine
  <2>2. CASE Begins(p)
    BY <1>2, <2>2 DEF Begins, Execute, Schedule
  <2>3. CASE Takes(p)
    BY <1>2, <2>3 DEF Takes
  <2> QED BY <2>1, <2>2, <2>3 DEF WorkMoves
<1> QED BY <1>1, <1>2 DEF Mine

LEMMA TrackedInit == Init => Tracked
BY DEF Init, Tracked, RunningRowNamesJob, At, Idle, Frame

LEMMA TrackedStep == Typed /\ Tracked /\ [Next]_vars => Tracked'
<1> SUFFICES ASSUME Typed, Tracked, [Next]_vars PROVE Tracked'
  OBVIOUS
<1>0. /\ WorkMoves /\ RowMoves /\ RowsLast /\ MessagesMove
      /\ \A p \in Proc : proc[p].item \in Item
  BY WorkStep, RowStep, RowsStep, MessagesStep DEF Typed, TypeOK, Proc_
<1>1. RunningRowNamesJob'
  <2> SUFFICES ASSUME NEW i \in Item, status'[i] = "RUNNING", i \notin early'
               PROVE  track'[i].job # 0
    BY DEF RunningRowNamesJob
  <2>1. CASE Saves(i)
    BY <2>1 DEF Saves, Tracked
  <2>2. CASE ~Saves(i)
    <3>1. status[i] = "RUNNING" /\ i \notin early
      BY <2>2, <1>0 DEF RowMoves
    <3>2. ~Unnames(i)
      BY <3>1 DEF Unnames, Tracked, Mine
    <3>3. track'[i] = track[i]
      BY <2>2, <3>2, <1>0 DEF RowMoves
    <3> QED BY <3>1, <3>3 DEF Tracked, RunningRowNamesJob
  <2> QED BY <2>1, <2>2
<1>2. \A p \in Proc : At(p, "started")' => proc'[p].track.job # 0
  BY <1>0 DEF RowMoves, Tracked
<1>3. ASSUME NEW p \in Proc
      PROVE  /\ proc'[p].step \in {"idle", "enqueue", "track"} => proc'[p].msg = {}
             /\ \A m \in proc'[p].msg : m.item = proc'[p].item
  <2>1. CASE proc'[p] = Idle
    BY <2>1 DEF Idle, Frame
  <2>2. CASE proc'[p] = proc[p] \/ GoesOn(p)
    BY <2>2 DEF Tracked, GoesOn, At
  <2>3. CASE Begins(p)
    BY <2>3 DEF Begins
  <2>4. CASE Takes(p)
    BY <2>4 DEF Takes
  <2> QED BY <1>0, <2>1, <2>2, <2>3, <2>4 DEF WorkMoves
<1>4. ASSUME NEW q \in Proc, At(q, "enqueue")' PROVE Mine(q)' /\ Unsent(q)'
  <2>1. CASE At(q, "enqueue") /\ proc'[q].item = proc[q].item
    <3>1. Mine(q) /\ Unsent(q) /\ status[proc[q].item] # "unsaved" /\ proc[q].msg = {}
      BY <2>1 DEF Typed, Sent, Tracked, At
    <3>2. Mine(q)'
      BY <2>1, <3>1, <1>0, MineKept DEF Unsent, At
    <3>3. ASSUME NEW m \in queue', m.item = proc[q].item PROVE FALSE
      <4>1. ~FromBroker(m)
        BY <3>1, <3>3 DEF FromBroker, Unsent
      <4>2. ~FromWorker(m)
        BY <3>1, <3>3 DEF FromWorker, Mine, Tracked, At
      <4>3. ASSUME NEW p \in Proc, Enqueue(p), m.item = proc[p].item PROVE FALSE
        <5>1. p = q
          BY <3>1, <3>3, <4>3 DEF Enqueue, Mine, At
        <5>2. proc'[q].step = "track"
          BY <4>3, <5>1 DEF Enqueue, GoTo, Typed, TypeOK, Proc_
        <5> QED BY <1>4, <5>2 DEF At
      <4> QED BY <4>1, <4>2, <4>3, <1>0 DEF MessagesMove, FromRequest
    <3> QED BY <2>1, <3>2, <3>3 DEF Unsent
  <2>2. ASSUME NEW i \in Item, Schedule(q, i), proc'[q].item = i
        PROVE  Mine(q)' /\ Unsent(q)'
    <3>1. /\ status[i] = "unsaved" /\ ~Working(i) /\ queue' = queue
          /\ status'[i] = "PENDING"
          /\ \A p \in Proc \ {q} : proc'[p] = proc[p]
      BY <2>2 DEF Schedule, Become, Typed, TypeOK
    <3>2. Mine(q)'
      BY <2>2, <3>1 DEF Mine, Working, At
    <3>3. Unsent(q)'
      BY <2>2, <3>1 DEF Unsent, Typed, Sent
    <3> QED BY <3>2, <3>3
  <2> QED BY <1>4, <2>1, <2>2, EnqueueStep DEF Typed
<1>5. ASSUME NEW q \in Proc, At(q, "track")'
      PROVE  status'[proc'[q].item] # "unsaved" /\ (proc'[q].item \in early' \/ Mine(q)')
  <2>1. /\ At(q, "enqueue") \/ At(q, "track")
        /\ proc'[q].item = proc[q].item
    <3>0. proc'[q].step = "track"
      BY <1>5 DEF At
    <3>1. proc'[q] # Idle
      BY <3>0 DEF Idle, Frame
    <3>2. ~Begins(q) /\ ~Takes(q)
      BY <3>0 DEF Begins, Takes
    <3>3. proc'[q] = proc[q] \/ GoesOn(q)
      BY <3>1, <3>2, <1>0 DEF WorkMoves
    <3> QED BY <3>0, <3>3 DEF GoesOn, At
  <2>2. status[proc[q].item] # "unsaved"
    BY <2>1 DEF Typed, Sent, Tracked
  <2>3. status'[proc'[q].item] # "unsaved"
    BY <2>1, <2>2, <1>0 DEF RowsLast
  <2>4. ASSUME proc[q].item \notin early' PROVE Mine(q)'
    <3>1. Mine(q)
      BY <2>1, <2>4, <1>0 DEF Tracked, RowMoves
    <3>2. ASSUME NEW p \in Proc \ {q}, NEW m \in queue, Take(p, m)
          PROVE  m.item # proc[q].item
      <4>1. CASE At(q, "enqueue")
        BY <4>1 DEF Tracked, Unsent
      <4>2. CASE At(q, "track")
        BY <3>2, <4>2, <2>4 DEF Take
      <4> QED BY <2>1, <4>1, <4>2
    <3> QED BY <2>1, <2>2, <3>1, <3>2, <1>0, MineKept DEF At
  <2> QED BY <2>1, <2>3, <2>4
<1> QED BY <1>1, <1>2, <1>3, <1>4, <1>5 DEF Tracked

(* Every RUNNING row names its Nomad job, except where a worker took the message before *)
(* the route had written celery_task_id.                                        *)
THEOREM RunningIsTracked == Spec => []RunningRowNamesJob
<1>1. Tracked => RunningRowNamesJob
  BY DEF Tracked
<1> QED BY <1>1, TypeInit, TypeStep, TrackedInit, TrackedStep, PTL DEF Spec

-------------------------------------------------------------------------------
(* The jobs of a history.                                                      *)

(* A dispatch comes from one copy of the message, or, where there is no message (the *)
(* request dispatches at once, or has not sent it yet), counts as copy 0.         *)
Copies == {0, 1}
Carry(p, i, c) == /\ proc[p].item = i
                  /\ \/ \E m \in proc[p].msg : m.copy = c
                     \/ c = 0 /\ proc[p].msg = {} /\ proc[p].step \notin {"idle", "track"}

(* A copy is in one place, in the broker or with one process, and there is a second   *)
(* copy only of what the broker delivered twice.                                *)
InBroker == \A m, n \in queue : (m.item = n.item /\ m.copy = n.copy) => m = n
InHand == \A p, q \in Proc, i \in Item, c \in Copies : (Carry(p, i, c) /\ Carry(q, i, c)) => p = q
NotBoth == \A m \in queue, p \in Proc : ~Carry(p, m.item, m.copy)
OneAtOnce == \A p \in Proc : \A m, n \in proc[p].msg : m = n
SecondCopy == \A i \in Item \ redelivered : /\ \A m \in queue : m.item = i => m.copy = 0
                                            /\ \A p \in Proc : ~Carry(p, i, 1)
Tokens == InBroker /\ InHand /\ NotBoth /\ OneAtOnce /\ SecondCopy

(* A retry is the same copy again.                                             *)
LEMMA RetriedCopy ==
  ASSUME NEW ms \in SUBSET Message, \A m, n \in ms : m = n
  PROVE  /\ \A m \in Retried(ms) : \E n \in ms : m.item = n.item /\ m.copy = n.copy
         /\ \A m, n \in Retried(ms) : m = n
<1>1. ASSUME NEW m \in Retried(ms)
      PROVE  \E n \in ms : m = [n EXCEPT !.retries = n.retries + 1]
  BY <1>1 DEF Retried
<1>2. ASSUME NEW n \in Message
      PROVE  /\ [n EXCEPT !.retries = n.retries + 1].item = n.item
             /\ [n EXCEPT !.retries = n.retries + 1].copy = n.copy
  BY <1>2 DEF Message
<1>3. ASSUME NEW m \in Retried(ms)
      PROVE  \E n \in ms : m.item = n.item /\ m.copy = n.copy
  <2>1. PICK n \in ms : m = [n EXCEPT !.retries = n.retries + 1]
    BY <1>1
  <2>2. m.item = n.item /\ m.copy = n.copy
    BY <2>1, <1>2
  <2> QED BY <2>2
<1>4. ASSUME NEW m \in Retried(ms), NEW n \in Retried(ms) PROVE m = n
  <2>1. PICK a \in ms : m = [a EXCEPT !.retries = a.retries + 1]
    BY <1>1
  <2>2. PICK b \in ms : n = [b EXCEPT !.retries = b.retries + 1]
    BY <1>1
  <2>3. a = b
    OBVIOUS
  <2> QED BY <2>1, <2>2, <2>3
<1> QED BY <1>3, <1>4

(* Only a process at work carries a copy, and inside a dispatch it carries just one.  *)
LEMMA CarryOne ==
  ASSUME Typed, Tracked, Tokens, NEW p \in Proc
  PROVE  /\ \A i \in Item, c \in Copies : Carry(p, i, c) => ~At(p, "idle") /\ ~At(p, "track")
         /\ (~At(p, "idle") /\ ~At(p, "track")) =>
              \E c \in Copies : /\ Carry(p, proc[p].item, c)
                                /\ \A d \in Copies : Carry(p, proc[p].item, d) => d = c
<1>1. \A i \in Item, c \in Copies : Carry(p, i, c) => ~At(p, "idle") /\ ~At(p, "track")
  BY DEF Tracked, Carry, At
<1>2. ASSUME ~At(p, "idle"), ~At(p, "track")
      PROVE  \E c \in Copies : /\ Carry(p, proc[p].item, c)
                               /\ \A d \in Copies : Carry(p, proc[p].item, d) => d = c
  <2>1. CASE proc[p].msg = {}
    <3>1. Carry(p, proc[p].item, 0) /\ \A d \in Copies : Carry(p, proc[p].item, d) => d = 0
      BY <1>2, <2>1 DEF Carry, At
    <3> QED BY <3>1 DEF Copies
  <2>2. ASSUME NEW m \in proc[p].msg
        PROVE  \E c \in Copies : /\ Carry(p, proc[p].item, c)
                                 /\ \A d \in Copies : Carry(p, proc[p].item, d) => d = c
    <3>1. m.copy \in Copies
      BY DEF Typed, TypeOK, Proc_, Message, Copies
    <3>2. Carry(p, proc[p].item, m.copy)
      BY DEF Carry
    <3>3. \A d \in Copies : Carry(p, proc[p].item, d) => d = m.copy
      BY DEF Carry, Tokens, OneAtOnce
    <3> QED BY <3>1, <3>2, <3>3
  <2> QED BY <2>1, <2>2
<1> QED BY <1>1, <1>2

(* Steps that neither send nor take a message nor begin a dispatch.               *)
LEMMA TokensKept ==
  ASSUME Tokens, queue' \subseteq queue, redelivered \subseteq redelivered',
         \A p \in Proc : \/ proc'[p] = Idle
                         \/ /\ proc'[p].item = proc[p].item /\ proc'[p].msg = proc[p].msg
                            /\ proc[p].step \in {"idle", "track"} => proc'[p] = proc[p]
  PROVE  Tokens'
<1>0. Idle.msg = {} /\ Idle.step = "idle"
  BY DEF Idle, Frame
<1>1. ASSUME NEW p \in Proc, NEW i, NEW c, Carry(p, i, c)' PROVE Carry(p, i, c)
  <2>1. CASE proc'[p] = Idle
    BY <2>1, <1>0, <1>1 DEF Carry
  <2>2. CASE proc'[p] # Idle
    BY <2>2, <1>1 DEF Carry
  <2> QED BY <2>1, <2>2
<1>2. OneAtOnce'
  BY <1>0 DEF Tokens, OneAtOnce
<1>3. InBroker' /\ InHand'
  BY <1>1 DEF Tokens, InBroker, InHand
<1>4. NotBoth'
  <2> SUFFICES ASSUME NEW m \in queue', NEW p \in Proc, Carry(p, m.item, m.copy)'
               PROVE  FALSE
    BY DEF NotBoth
  <2>1. Carry(p, m.item, m.copy)
    BY <1>1
  <2> QED BY <2>1 DEF Tokens, NotBoth
<1>5. SecondCopy'
  BY <1>1 DEF Tokens, SecondCopy, Copies
<1> QED BY <1>2, <1>3, <1>4, <1>5 DEF Tokens

(* A process that ends its work drops its copy or gives it back.                  *)
LEMMA TokensBack ==
  ASSUME Typed, Tracked, Tokens, NEW p \in Proc, Become(p, Idle),
         queue' \subseteq queue \cup Retried(proc[p].msg), redelivered' = redelivered
  PROVE  Tokens'
<1>0. /\ proc \in [Proc -> Proc_] /\ proc[p].msg \in SUBSET Message
      /\ proc'[p] = Idle /\ \A q \in Proc \ {p} : proc'[q] = proc[q]
  BY DEF Become, Typed, TypeOK, Proc_
<1>1. /\ \A m \in Retried(proc[p].msg) : Carry(p, m.item, m.copy)
      /\ \A m, n \in Retried(proc[p].msg) : m = n
  <2>1. \A n \in proc[p].msg : Carry(p, n.item, n.copy)
    BY DEF Carry, Tracked
  <2> QED BY <2>1, <1>0, RetriedCopy DEF Tokens, OneAtOnce
<1>2. \A q \in Proc : \A i, c : Carry(q, i, c)' => Carry(q, i, c) /\ q # p
  BY <1>0 DEF Carry, Idle, Frame
<1>3. \A m \in Retried(proc[p].msg) : m \in Message
  BY <1>0, RetriedType
<1>4. InBroker'
  BY <1>1 DEF Tokens, InBroker, NotBoth
<1>5. InHand'
  BY <1>2 DEF Tokens, InHand
<1>6. NotBoth'
  <2> SUFFICES ASSUME NEW m \in queue', NEW q \in Proc, Carry(q, m.item, m.copy)'
               PROVE  FALSE
    BY DEF NotBoth
  <2>1. Carry(q, m.item, m.copy) /\ q # p
    BY <1>2
  <2>2. CASE m \in Retried(proc[p].msg)
    <3>1. m.item \in Item /\ m.copy \in Copies /\ Carry(p, m.item, m.copy)
      BY <2>2, <1>1, <1>3 DEF Message, Copies
    <3> QED BY <2>1, <3>1 DEF Tokens, InHand
  <2> QED BY <2>1, <2>2 DEF Tokens, NotBoth
<1>7. OneAtOnce'
  BY <1>0 DEF Tokens, OneAtOnce, Idle, Frame
<1>8. SecondCopy'
  <2>1. ASSUME NEW i \in Item \ redelivered, NEW m \in queue', m.item = i PROVE m.copy = 0
    <3>1. CASE m \in queue
      BY <2>1, <3>1 DEF Tokens, SecondCopy
    <3>2. CASE m \in Retried(proc[p].msg)
      <4>1. Carry(p, i, m.copy) /\ m.copy \in {0, 1}
        BY <2>1, <3>2, <1>1, <1>3 DEF Message
      <4> QED BY <4>1 DEF Tokens, SecondCopy
    <3> QED BY <3>1, <3>2
  <2> QED BY <2>1, <1>2 DEF Tokens, SecondCopy
<1> QED BY <1>4, <1>5, <1>6, <1>7, <1>8 DEF Tokens

(* The other ways a copy moves: a dispatch begins, a worker takes a message, the route  *)
(* sends one, the broker doubles one.                                          *)
LEMMA TokensBegin ==
  ASSUME Typed, Tracked, Tokens, NEW p \in Proc, NEW i \in Item, NEW f, Become(p, f),
         f.item = i, f.msg = {}, status[i] = "unsaved", ~Working(i),
         queue' = queue, redelivered' = redelivered
  PROVE  Tokens'
<1>0. proc'[p] = f /\ \A q \in Proc \ {p} : proc'[q] = proc[q]
  BY DEF Become, Typed, TypeOK
<1>1. \A q \in Proc, c \in Copies : ~Carry(q, i, c)
  <2>1. \A q \in Proc, c \in Copies : Carry(q, i, c) => ~At(q, "idle") /\ proc[q].item = i
    BY CarryOne DEF Carry
  <2> QED BY <2>1 DEF Working, At
<1>2. \A q \in Proc : \A j, c : Carry(q, j, c)' => Carry(q, j, c) \/ (q = p /\ j = i /\ c = 0)
  BY <1>0 DEF Carry
<1>3. InBroker'
  BY DEF Tokens, InBroker
<1>4. InHand'
  BY <1>1, <1>2 DEF Tokens, InHand
<1>5. NotBoth'
  <2>1. \A m \in queue : m.item # i
    BY DEF Typed, Sent
  <2> QED BY <2>1, <1>2 DEF Tokens, NotBoth
<1>6. OneAtOnce'
  BY <1>0 DEF Tokens, OneAtOnce
<1>7. SecondCopy'
  BY <1>2 DEF Tokens, SecondCopy
<1> QED BY <1>3, <1>4, <1>5, <1>6, <1>7 DEF Tokens

LEMMA TokensTake ==
  ASSUME Typed, Tracked, Tokens, NEW p \in Proc, NEW m \in queue, Take(p, m)
  PROVE  Tokens'
<1>0. /\ m \in Message /\ m.item \in Item /\ m.copy \in Copies
      /\ redelivered' = redelivered /\ {m} \in SUBSET Message
  BY DEF Typed, TypeOK, Message, Copies, Take
<1>1. \A n \in queue : n.item = m.item /\ n.copy = m.copy => n = m
  BY DEF Tokens, InBroker
<1>2. CASE status[m.item] = "gone"
  <2>1. /\ \A n \in Retried({m}) : n.item = m.item /\ n.copy = m.copy
        /\ \A a, b \in Retried({m}) : a = b
    BY <1>0, RetriedCopy
  <2>2. proc' = proc /\ queue' = (queue \ {m}) \cup Retried({m})
    BY <1>2 DEF Take
  <2>3. \A q \in Proc : \A i, c : Carry(q, i, c)' <=> Carry(q, i, c)
    BY <2>2 DEF Carry
  <2>4. InBroker'
    BY <1>1, <2>1, <2>2 DEF Tokens, InBroker
  <2>5. NotBoth'
    BY <2>1, <2>2, <2>3 DEF Tokens, NotBoth
  <2>6. SecondCopy'
    BY <2>1, <2>2, <2>3, <1>0 DEF Tokens, SecondCopy
  <2>7. OneAtOnce' /\ InHand'
    BY <2>2, <2>3 DEF Tokens, OneAtOnce, InHand
  <2> QED BY <2>4, <2>5, <2>6, <2>7 DEF Tokens
<1>3. CASE status[m.item] # "gone"
  <2>1. /\ proc'[p].item = m.item /\ proc'[p].msg = {m}
        /\ \A q \in Proc \ {p} : proc'[q] = proc[q]
        /\ queue' = queue \ {m}
    BY <1>3 DEF Take, Become, Frame, Typed, TypeOK
  <2>2. \A q \in Proc : \A i, c :
          Carry(q, i, c)' => Carry(q, i, c) \/ (q = p /\ i = m.item /\ c = m.copy)
    BY <2>1 DEF Carry
  <2>3. \A q \in Proc : ~Carry(q, m.item, m.copy)
    BY DEF Tokens, NotBoth
  <2>4. InBroker'
    BY <2>1 DEF Tokens, InBroker
  <2>5. InHand'
    BY <2>2, <2>3 DEF Tokens, InHand
  <2>6. NotBoth'
    BY <2>1, <2>2, <1>1 DEF Tokens, NotBoth
  <2>7. OneAtOnce'
    BY <2>1 DEF Tokens, OneAtOnce
  <2>8. SecondCopy'
    BY <2>1, <2>2, <1>0 DEF Tokens, SecondCopy
  <2> QED BY <2>4, <2>5, <2>6, <2>7, <2>8 DEF Tokens
<1> QED BY <1>2, <1>3

LEMMA TokensEnqueue ==
  ASSUME Typed, Tracked, Tokens, NEW p \in Proc, Enqueue(p)
  PROVE  Tokens'
<1> DEFINE m == [item |-> proc[p].item, retries |-> 0, copy |-> 0]
<1>0. /\ m.item = proc[p].item /\ m.copy = 0 /\ proc[p].item \in Item
      /\ queue' = queue \cup {m} /\ redelivered' = redelivered
  BY DEF Enqueue, Typed, TypeOK, Proc_, ghostVars
<1>1. /\ proc'[p].step = "track" /\ proc'[p].msg = proc[p].msg
      /\ proc'[p].item = proc[p].item /\ proc[p].msg = {}
      /\ \A q \in Proc \ {p} : proc'[q] = proc[q]
  BY DEF Enqueue, GoTo, At, Tracked, Typed, TypeOK, Proc_
<1> HIDE DEF m
<1>2. Carry(p, m.item, 0)
  BY <1>0, <1>1 DEF Carry, Enqueue, At
<1>3. \A q \in Proc : \A i, c : Carry(q, i, c)' => Carry(q, i, c) /\ q # p
  BY <1>1 DEF Carry
<1>4. InBroker'
  BY <1>0, <1>2 DEF Tokens, InBroker, NotBoth
<1>5. InHand' /\ OneAtOnce'
  BY <1>1, <1>3 DEF Tokens, InHand, OneAtOnce
<1>6. NotBoth'
  <2>1. \A q \in Proc \ {p} : ~Carry(q, m.item, m.copy)
    BY <1>0, <1>2 DEF Tokens, InHand, Copies
  <2> QED BY <2>1, <1>0, <1>3 DEF Tokens, NotBoth
<1>7. SecondCopy'
  BY <1>0, <1>3 DEF Tokens, SecondCopy
<1> QED BY <1>4, <1>5, <1>6, <1>7 DEF Tokens

LEMMA TokensRedeliver ==
  ASSUME Typed, Tokens, NEW m \in queue, Redeliver(m)
  PROVE  Tokens'
<1> DEFINE n == [m EXCEPT !.copy = 1]
<1>0. /\ m.item \in Item \ redelivered /\ n.item = m.item /\ n.copy = 1
      /\ queue' = queue \cup {n} /\ redelivered' = redelivered \cup {m.item}
      /\ proc' = proc
  BY DEF Redeliver, Typed, TypeOK, Message
<1> HIDE DEF n
<1>1. \A q \in Proc : \A i, c : Carry(q, i, c)' <=> Carry(q, i, c)
  BY <1>0 DEF Carry
<1>2. /\ \A a \in queue : a.item = m.item => a.copy = 0
      /\ \A q \in Proc : ~Carry(q, m.item, 1)
  BY <1>0 DEF Tokens, SecondCopy
<1>3. InBroker'
  BY <1>0, <1>2 DEF Tokens, InBroker
<1>4. InHand' /\ OneAtOnce'
  BY <1>0, <1>1 DEF Tokens, InHand, OneAtOnce
<1>5. NotBoth'
  BY <1>0, <1>1, <1>2 DEF Tokens, NotBoth
<1>6. SecondCopy'
  BY <1>0, <1>1 DEF Tokens, SecondCopy
<1> QED BY <1>3, <1>4, <1>5, <1>6 DEF Tokens

LEMMA TokensInit == Init => Tokens
BY DEF Init, Tokens, InBroker, InHand, NotBoth, OneAtOnce, SecondCopy, Carry, Idle, Frame

(* Inside a dispatch a process keeps its history and its message.                 *)
LEMMA DispatchGoesOn ==
  ASSUME TypeOK, NEW p \in Proc,
         \/ Lock(p) \/ Check(p) \/ StartJob(p) \/ StartFails(p) \/ Save(p) \/ FailAfterStart(p)
  PROVE  /\ proc[p].step \in {"gate", "locked", "checked", "started", "unlock"}
         /\ proc'[p].step \in {"locked", "checked", "started", "unlock"}
         /\ proc'[p].item = proc[p].item /\ proc'[p].msg = proc[p].msg
         /\ \A q \in Proc \ {p} : proc'[q] = proc[q]
         /\ queue' = queue /\ redelivered' = redelivered
<1>0. proc \in [Proc -> Proc_] /\ proc[p] \in Proc_
  BY DEF TypeOK
<1>1. /\ proc[p].step \in {"gate", "locked", "checked", "started", "unlock"}
      /\ queue' = queue /\ redelivered' = redelivered
  BY DEF Lock, Check, StartJob, StartFails, Save, FailAfterStart, At, ghostVars
<1>2. CASE Lock(p)
  <2>1. PICK id \in LockId : Become(p, [proc[p] EXCEPT !.step = "locked", !.lockId = id])
    BY <1>2 DEF Lock
  <2>2. /\ proc'[p].step = "locked"
        /\ proc'[p].item = proc[p].item /\ proc'[p].msg = proc[p].msg
        /\ \A q \in Proc \ {p} : proc'[q] = proc[q]
    BY <1>0, <2>1 DEF Become, Proc_
  <2> QED BY <1>1, <2>2
<1>3. CASE StartJob(p)
  BY <1>0, <1>1, <1>3 DEF StartJob, Become, Proc_
<1>4. CASE Check(p) \/ StartFails(p) \/ Save(p) \/ FailAfterStart(p)
  BY <1>0, <1>1, <1>4 DEF Check, StartFails, Save, FailAfterStart, Fail, GoTo, Proc_
<1> QED BY <1>2, <1>3, <1>4

LEMMA TokensStep == Typed /\ Tracked /\ Tokens /\ [Next]_vars => Tokens'
<1> SUFFICES ASSUME Typed, Tracked, Tokens, [Next]_vars PROVE Tokens'
  OBVIOUS
<1> USE DEF ghostVars
<1>1. ASSUME NEW p \in Proc, NEW i \in Item, Execute(p, i) PROVE Tokens'
  <2>1. /\ Frame("gate", i, "PENDING", NoTrack, {}).item = i
        /\ Frame("gate", i, "PENDING", NoTrack, {}).msg = {}
    BY DEF Frame
  <2> QED BY <1>1, <2>1, TokensBegin DEF Execute
<1>2. ASSUME NEW p \in Proc, NEW i \in Item, Schedule(p, i) PROVE Tokens'
  <2>1. /\ Frame("enqueue", i, "PENDING", NoTrack, {}).item = i
        /\ Frame("enqueue", i, "PENDING", NoTrack, {}).msg = {}
    BY DEF Frame
  <2> QED BY <1>2, <2>1, TokensBegin DEF Schedule
<1>3. ASSUME NEW p \in Proc, NEW m \in queue, Take(p, m) PROVE Tokens'
  BY <1>3, TokensTake
<1>4. ASSUME NEW p \in Proc, Enqueue(p) PROVE Tokens'
  BY <1>4, TokensEnqueue
<1>5. ASSUME NEW p \in Proc,
             \/ SaveCeleryId(p) \/ Crash(p) \/ Refuse(p) \/ GateFails(p)
             \/ Unlock(p) \/ LockFails(p) \/ UnlockFails(p)
      PROVE  Tokens'
  BY <1>5, TokensBack
     DEF SaveCeleryId, Crash, Refuse, GateFails, Leave, Unlock, LockFails, UnlockFails
<1>6. ASSUME NEW p \in Proc,
             \/ Lock(p) \/ Check(p) \/ StartJob(p) \/ StartFails(p) \/ Save(p) \/ FailAfterStart(p)
      PROVE  Tokens'
  <2>1. /\ proc[p].step \notin {"idle", "track"}
        /\ proc'[p].item = proc[p].item /\ proc'[p].msg = proc[p].msg
        /\ \A q \in Proc \ {p} : proc'[q] = proc[q]
        /\ queue' = queue /\ redelivered' = redelivered
    BY <1>6, DispatchGoesOn DEF Typed
  <2> QED BY <2>1, TokensKept
<1>7. ASSUME NEW m \in queue, Redeliver(m) PROVE Tokens'
  BY <1>7, TokensRedeliver
<1>8. CASE \/ \E m \in queue : Expire(m)
           \/ \E i \in Item : Stopping(i) \/ Syncing(i)
           \/ \E j \in pending : Evaluate(j)
           \/ \E k \in Key : AgeLock(k)
           \/ UNCHANGED vars
  BY <1>8, TokensKept DEF Expire, Stopping, Syncing, StopLoad, StopDelete, StopJob, StopSave, SyncEnds, SyncGivesUp,
                          Evaluate, AgeLock, vars
<1> QED BY <1>1, <1>2, <1>3, <1>4, <1>5, <1>6, <1>7, <1>8 DEF Next, Dispatching

(* An armed dispatch has loaded its history PENDING, and may still register a job.   *)
Armed(p) == \/ At(p, "gate") /\ IsPending(p)
            \/ proc[p].step \in {"locked", "checked", "started"}
ArmedAs(p, i, c) == Armed(p) /\ Carry(p, i, c)
StartedAs(p, i, c) == At(p, "started") /\ Carry(p, i, c)
ArmedCopies(i, c) == IF \E p \in Proc : ArmedAs(p, i, c) THEN 1 ELSE 0
StartedCopies(i, c) == IF \E p \in Proc : StartedAs(p, i, c) THEN 1 ELSE 0
Extra(i) == IF i \in redelivered THEN 1 ELSE 0

(* Each job is lost, or in the hands of the dispatch that has yet to save it, or was   *)
(* saved.  Until a save the row may be loaded PENDING again; and each copy that was     *)
(* saved is one that is armed no more, and never will be.                        *)
Budget(i) ==
  /\ status[i] \in {"unsaved", "PENDING"} =>
       started[i] <= lost[i] + StartedCopies(i, 0) + StartedCopies(i, 1)
  /\ started[i] + ArmedCopies(i, 0) + ArmedCopies(i, 1)
       <= lost[i] + StartedCopies(i, 0) + StartedCopies(i, 1) + 1 + Extra(i)
Budgets == \A i \in Item : Budget(i)

(* What the change of one process does to the counts.                             *)
LEMMA Counts ==
  ASSUME NEW p \in Proc, \A q \in Proc \ {p} : proc'[q] = proc[q], NEW i, NEW c
  PROVE  /\ (ArmedAs(p, i, c)' => ArmedAs(p, i, c)) => ArmedCopies(i, c)' <= ArmedCopies(i, c)
         /\ (StartedAs(p, i, c)' <=> StartedAs(p, i, c)) =>
              StartedCopies(i, c)' = StartedCopies(i, c)
         /\ (StartedAs(p, i, c)' => StartedCopies(i, c)' = 1)
         /\ (ArmedAs(p, i, c) => ArmedCopies(i, c) = 1)
         /\ (StartedAs(p, i, c) => StartedCopies(i, c) = 1)
<1>1. \A q \in Proc \ {p} : /\ ArmedAs(q, i, c)' <=> ArmedAs(q, i, c)
                            /\ StartedAs(q, i, c)' <=> StartedAs(q, i, c)
  BY DEF ArmedAs, StartedAs, Armed, At, IsPending, Carry
<1>2. (ArmedAs(p, i, c)' => ArmedAs(p, i, c)) => ArmedCopies(i, c)' <= ArmedCopies(i, c)
  BY <1>1 DEF ArmedCopies
<1>3. (StartedAs(p, i, c)' <=> StartedAs(p, i, c)) => StartedCopies(i, c)' = StartedCopies(i, c)
  BY <1>1 DEF StartedCopies
<1> QED BY <1>2, <1>3 DEF StartedCopies, ArmedCopies

LEMMA CountTypes ==
  ASSUME NEW i, NEW c
  PROVE  ArmedCopies(i, c) \in 0 .. 1 /\ StartedCopies(i, c) \in 0 .. 1 /\ Extra(i) \in 0 .. 1
         /\ StartedCopies(i, c) <= ArmedCopies(i, c)
BY DEF ArmedCopies, StartedCopies, Extra, ArmedAs, StartedAs, Armed, At

LEMMA NextCountTypes ==
  ASSUME NEW i, NEW c
  PROVE  (ArmedCopies(i, c) \in 0 .. 1 /\ StartedCopies(i, c) \in 0 .. 1 /\ Extra(i) \in 0 .. 1
         /\ StartedCopies(i, c) <= ArmedCopies(i, c))'
BY CountTypes, PTL

(* Steps that arm no dispatch and register, save or lose no job.                   *)
LEMMA BudgetKept ==
  ASSUME Typed, NEW p \in Proc, NEW i \in Item, Budget(i),
         \A q \in Proc \ {p} : proc'[q] = proc[q],
         \A c \in Copies : /\ ArmedAs(p, i, c)' => ArmedAs(p, i, c)
                           /\ StartedAs(p, i, c)' <=> StartedAs(p, i, c),
         started'[i] = started[i], lost'[i] = lost[i], redelivered \subseteq redelivered',
         status'[i] \in {"unsaved", "PENDING"} => status[i] \in {"unsaved", "PENDING"}
  PROVE  Budget(i)'
<1>1. ASSUME NEW c \in Copies
      PROVE  /\ ArmedCopies(i, c)' <= ArmedCopies(i, c)
             /\ StartedCopies(i, c)' = StartedCopies(i, c)
  BY Counts
<1>2. Extra(i) <= Extra(i)'
  BY DEF Extra
<1>3. /\ started[i] \in Nat /\ lost[i] \in Nat
      /\ \A c \in Copies : ArmedCopies(i, c) \in 0 .. 1 /\ StartedCopies(i, c) \in 0 .. 1
      /\ \A c \in Copies : ArmedCopies(i, c)' \in 0 .. 1 /\ StartedCopies(i, c)' \in 0 .. 1
      /\ Extra(i) \in 0 .. 1 /\ Extra(i)' \in 0 .. 1
  BY CountTypes, NextCountTypes DEF Typed, TypeOK
<1> QED BY <1>1, <1>2, <1>3 DEF Budget, Copies

(* A dispatch is armed while nothing has been saved yet.                          *)
LEMMA BudgetArms ==
  ASSUME Typed, Tokens', NEW p \in Proc, NEW i \in Item, Budget(i),
         \A q \in Proc \ {p} : proc'[q] = proc[q],
         \A c \in Copies : StartedAs(p, i, c)' <=> StartedAs(p, i, c),
         started'[i] = started[i], lost'[i] = lost[i],
         status[i] \in {"unsaved", "PENDING"}
  PROVE  Budget(i)'
<1>1. ASSUME NEW c \in Copies PROVE StartedCopies(i, c)' = StartedCopies(i, c)
  BY Counts
<1>2. Extra(i)' = 0 => ArmedCopies(i, 1)' = 0
  BY DEF Extra, ArmedCopies, ArmedAs, Tokens, SecondCopy
<1>3. /\ started[i] \in Nat /\ lost[i] \in Nat
      /\ \A c \in Copies : StartedCopies(i, c) \in 0 .. 1
      /\ \A c \in Copies : ArmedCopies(i, c)' \in 0 .. 1
      /\ Extra(i)' \in 0 .. 1
  BY CountTypes, NextCountTypes DEF Typed, TypeOK
<1> QED BY <1>1, <1>2, <1>3 DEF Budget, Copies

(* A job is registered: the dispatch that did it has it to save.                  *)
LEMMA BudgetStarts ==
  ASSUME Typed, Tracked, Tokens, NEW p \in Proc, NEW i \in Item, Budget(i), StartJob(p)
  PROVE  Budget(i)'
<1>0. /\ proc \in [Proc -> Proc_] /\ proc[p] \in Proc_ /\ proc[p].item \in Item
      /\ lost' = lost /\ status' = status /\ redelivered' = redelivered
      /\ started' = [started EXCEPT ![proc[p].item] = started[proc[p].item] + 1]
      /\ started[i] \in Nat /\ lost[i] \in Nat /\ started \in [Item -> Nat]
  BY DEF Typed, TypeOK, Proc_, StartJob, rowVars, ghostVars
<1>1. /\ \A q \in Proc \ {p} : proc'[q] = proc[q]
      /\ proc'[p].step = "started" /\ proc'[p].item = proc[p].item /\ proc'[p].msg = proc[p].msg
      /\ proc[p].step = "checked"
  BY <1>0 DEF StartJob, Become, At, Proc_
<1>2. \A c \in Copies : /\ ArmedAs(p, i, c)' <=> ArmedAs(p, i, c)
                        /\ StartedAs(p, i, c)' <=> Carry(p, i, c)
                        /\ ~StartedAs(p, i, c)
  BY <1>1 DEF ArmedAs, StartedAs, Armed, At, Carry
<1>3. CASE proc[p].item # i
  <2>1. \A c \in Copies : ~Carry(p, i, c)
    BY <1>3 DEF Carry
  <2>2. started'[i] = started[i] /\ lost'[i] = lost[i] /\ status'[i] = status[i]
    BY <1>0, <1>3
  <2> QED BY <1>0, <1>1, <1>2, <2>1, <2>2, BudgetKept
<1>4. CASE proc[p].item = i
  <2>1. PICK c \in Copies : Carry(p, i, c) /\ \A d \in Copies : Carry(p, i, d) => d = c
    BY <1>1, <1>4, CarryOne DEF At
  <2>2. StartedCopies(i, c) = 0
    <3>1. \A q \in Proc : Carry(q, i, c) => q = p
      BY <2>1 DEF Tokens, InHand
    <3> QED BY <1>2, <3>1 DEF StartedCopies, StartedAs
  <2>3. StartedCopies(i, c)' = 1
    BY <1>1, <1>2, <2>1, Counts
  <2>4. ASSUME NEW d \in Copies, d # c PROVE StartedCopies(i, d)' = StartedCopies(i, d)
    BY <1>1, <1>2, <2>1, <2>4, Counts
  <2>5. ASSUME NEW d \in Copies PROVE ArmedCopies(i, d)' <= ArmedCopies(i, d)
    BY <1>1, <1>2, Counts
  <2>6. /\ \A d \in Copies : ArmedCopies(i, d) \in 0 .. 1 /\ StartedCopies(i, d) \in 0 .. 1
        /\ \A d \in Copies : ArmedCopies(i, d)' \in 0 .. 1 /\ StartedCopies(i, d)' \in 0 .. 1
        /\ Extra(i) \in 0 .. 1 /\ Extra(i)' = Extra(i)
    BY <1>0, CountTypes, NextCountTypes DEF Extra
  <2>7. started'[i] = started[i] + 1
    BY <1>0, <1>4
  <2>8. /\ StartedCopies(i, 0)' + StartedCopies(i, 1)' = StartedCopies(i, 0) + StartedCopies(i, 1) + 1
        /\ ArmedCopies(i, 0)' + ArmedCopies(i, 1)' <= ArmedCopies(i, 0) + ArmedCopies(i, 1)
    BY <2>2, <2>3, <2>4, <2>5, <2>6 DEF Copies
  <2> QED BY <1>0, <2>6, <2>7, <2>8 DEF Budget, Copies
<1> QED BY <1>3, <1>4

(* A job is saved or lost: the dispatch that had it is armed no more.               *)
LEMMA BudgetEnds ==
  ASSUME Typed, Tracked, Tokens, Tokens', NEW p \in Proc, NEW i \in Item, Budget(i),
         At(p, "started"), ~Armed(p)', \A q \in Proc \ {p} : proc'[q] = proc[q],
         started'[i] = started[i], redelivered' = redelivered,
         \/ lost' = lost /\ status' = [status EXCEPT ![proc[p].item] = "RUNNING"]
         \/ lost' = [lost EXCEPT ![proc[p].item] = lost[proc[p].item] + 1] /\ status' = status
  PROVE  Budget(i)'
<1>0. /\ proc[p].item \in Item /\ started[i] \in Nat /\ lost \in [Item -> Nat]
      /\ lost[i] \in Nat /\ status \in [Item -> RowStatus \cup {"unsaved", "gone"}]
  BY DEF Typed, TypeOK, Proc_
<1>1. \A c : ~ArmedAs(p, i, c)' /\ ~StartedAs(p, i, c)'
  BY DEF ArmedAs, StartedAs, Armed, At
<1>2. CASE proc[p].item # i
  <2>1. \A c : ~StartedAs(p, i, c)
    BY <1>2 DEF StartedAs, Carry
  <2>2. lost'[i] = lost[i] /\ status'[i] = status[i]
    BY <1>0, <1>2
  <2> QED BY <1>1, <2>1, <2>2, BudgetKept
<1>3. CASE proc[p].item = i
  <2>1. PICK c \in Copies : Carry(p, i, c) /\ \A d \in Copies : Carry(p, i, d) => d = c
    BY <1>3, CarryOne DEF At
  <2>2. ArmedAs(p, i, c) /\ StartedAs(p, i, c)
    BY <2>1 DEF ArmedAs, StartedAs, Armed, At
  <2>3. ArmedCopies(i, c) = 1 /\ StartedCopies(i, c) = 1
    BY <2>2 DEF ArmedCopies, StartedCopies
  <2>4. ASSUME NEW q \in Proc, Carry(q, i, c)' PROVE ~ArmedAs(q, i, c)' /\ ~StartedAs(q, i, c)'
    <3>1. q # p => Carry(q, i, c)
      BY <2>4 DEF Carry
    <3>2. q = p
      BY <2>1, <3>1 DEF Tokens, InHand
    <3> QED BY <3>2, <1>1
  <2>5. ArmedCopies(i, c)' = 0 /\ StartedCopies(i, c)' = 0
    BY <2>4 DEF ArmedCopies, StartedCopies, ArmedAs, StartedAs
  <2>6. \A d \in Copies : d # c => /\ StartedCopies(i, d)' = StartedCopies(i, d)
                                   /\ ArmedCopies(i, d)' <= ArmedCopies(i, d)
    BY <1>1, <2>1, Counts DEF StartedAs
  <2>7. /\ \A d \in Copies : ArmedCopies(i, d) \in 0 .. 1 /\ StartedCopies(i, d) \in 0 .. 1
        /\ \A d \in Copies : ArmedCopies(i, d)' \in 0 .. 1 /\ StartedCopies(i, d)' \in 0 .. 1
        /\ Extra(i) \in 0 .. 1 /\ Extra(i)' = Extra(i)
    BY CountTypes, NextCountTypes DEF Extra
  <2>8. /\ StartedCopies(i, 0)' + StartedCopies(i, 1)' + 1 = StartedCopies(i, 0) + StartedCopies(i, 1)
        /\ ArmedCopies(i, 0)' + ArmedCopies(i, 1)' + 1 <= ArmedCopies(i, 0) + ArmedCopies(i, 1)
    BY <2>3, <2>5, <2>6, <2>7 DEF Copies
  <2>9. \/ lost'[i] = lost[i] /\ status'[i] = "RUNNING"
        \/ lost'[i] = lost[i] + 1 /\ status'[i] = status[i]
    BY <1>0, <1>3
  <2> QED BY <1>0, <2>7, <2>8, <2>9 DEF Budget, Copies
<1> QED BY <1>2, <1>3

LEMMA BudgetInit == Init => Budgets
<1> SUFFICES ASSUME Init, NEW i \in Item PROVE Budget(i)
  BY DEF Budgets
<1>1. /\ started[i] = 0 /\ lost[i] = 0 /\ redelivered = {}
      /\ \A p \in Proc, c \in Copies : ~ArmedAs(p, i, c) /\ ~StartedAs(p, i, c)
  BY DEF Init, ArmedAs, StartedAs, Armed, At, Idle, Frame
<1> QED BY <1>1 DEF Budget, ArmedCopies, StartedCopies, Extra, Copies

LEMMA BudgetStep == Typed /\ Tracked /\ Tokens /\ Budgets /\ [Next]_vars => Budgets'
<1> SUFFICES ASSUME Typed, Tracked, Tokens, Budgets, [Next]_vars, NEW i \in Item
             PROVE  Budget(i)'
  BY DEF Budgets
<1> USE DEF rowVars, nomadVars, ghostVars
<1>0. /\ Tokens' /\ Budget(i)
      /\ proc \in [Proc -> Proc_] /\ \A q \in Proc : proc[q] \in Proc_ /\ proc[q].item \in Item
      /\ status \in [Item -> RowStatus \cup {"unsaved", "gone"}]
  BY TokensStep DEF Budgets, Typed, TypeOK, Proc_
<1>b. ASSUME NEW p \in Proc, NEW f, Become(p, f)
      PROVE  proc'[p] = f /\ \A q \in Proc \ {p} : proc'[q] = proc[q]
  BY <1>b, <1>0 DEF Become
<1>u. ASSUME NEW p \in Proc, ~Armed(p)'
      PROVE  \A c \in Copies : ~ArmedAs(p, i, c)' /\ ~StartedAs(p, i, c)'
  BY <1>u DEF ArmedAs, StartedAs, Armed, At
<1>n. ASSUME NEW p \in Proc, ~At(p, "started")
      PROVE  \A c \in Copies : ~StartedAs(p, i, c)
  BY <1>n DEF StartedAs
<1>e. ASSUME NEW p \in Proc, ~Armed(p)', ~At(p, "started"),
             \A q \in Proc \ {p} : proc'[q] = proc[q],
             started' = started, lost' = lost, redelivered \subseteq redelivered',
             status'[i] \in {"unsaved", "PENDING"} => status[i] \in {"unsaved", "PENDING"}
      PROVE  Budget(i)'
  BY <1>e, <1>0, <1>u, <1>n, BudgetKept
<1>q. ASSUME proc' = proc, started' = started, lost' = lost,
             redelivered \subseteq redelivered',
             status'[i] \in {"unsaved", "PENDING"} => status[i] \in {"unsaved", "PENDING"}
      PROVE  Budget(i)'
  <2>1. \A c \in Copies : /\ ArmedCopies(i, c)' = ArmedCopies(i, c)
                          /\ StartedCopies(i, c)' = StartedCopies(i, c)
    BY <1>q DEF ArmedCopies, StartedCopies, ArmedAs, StartedAs, Armed, At, IsPending, Carry
  <2>2. Extra(i) <= Extra(i)' /\ Extra(i) \in 0 .. 1 /\ Extra(i)' \in 0 .. 1
    BY <1>q DEF Extra
  <2>3. /\ started[i] \in Nat /\ lost[i] \in Nat
        /\ \A c \in Copies : ArmedCopies(i, c) \in 0 .. 1 /\ StartedCopies(i, c) \in 0 .. 1
    BY CountTypes DEF Typed, TypeOK
  <2> QED BY <1>0, <1>q, <2>1, <2>2, <2>3 DEF Budget, Copies
<1>i. Idle.step = "idle"
  BY DEF Idle, Frame
<1>1. ASSUME NEW p \in Proc, NEW j \in Item, Execute(p, j) PROVE Budget(i)'
  <2>1. /\ proc'[p].step = "gate" /\ proc'[p].item = j /\ proc'[p].msg = {}
        /\ \A q \in Proc \ {p} : proc'[q] = proc[q]
    BY <1>1, <1>b DEF Execute, Frame
  <2>2. \A c \in Copies : ~StartedAs(p, i, c) /\ ~StartedAs(p, i, c)'
    BY <1>1, <2>1 DEF Execute, StartedAs, At
  <2>3. CASE j = i
    BY <1>1, <2>1, <2>2, <2>3, <1>0, BudgetArms DEF Execute
  <2>4. CASE j # i
    <3>1. \A c \in Copies : ~ArmedAs(p, i, c)'
      BY <2>1, <2>4 DEF ArmedAs, Carry
    <3> QED BY <1>1, <2>1, <2>2, <3>1, <1>0, BudgetKept DEF Execute
  <2> QED BY <2>3, <2>4
<1>2. ASSUME NEW p \in Proc, NEW j \in Item, Schedule(p, j) PROVE Budget(i)'
  <2>1. /\ proc'[p].step = "enqueue"
        /\ \A q \in Proc \ {p} : proc'[q] = proc[q]
    BY <1>2, <1>b DEF Schedule, Frame
  <2>2. ~Armed(p)' /\ ~At(p, "started")
    BY <1>2, <2>1 DEF Schedule, Armed, At
  <2>3. status'[i] \in {"unsaved", "PENDING"} => status[i] \in {"unsaved", "PENDING"}
    BY <1>2, <1>0 DEF Schedule
  <2> QED BY <1>2, <2>1, <2>2, <2>3, <1>e DEF Schedule
<1>3. ASSUME NEW p \in Proc, NEW m \in queue, Take(p, m) PROVE Budget(i)'
  <2>0. started' = started /\ lost' = lost /\ redelivered' = redelivered /\ status' = status
    BY <1>3 DEF Take
  <2>1. CASE status[m.item] = "gone"
    BY <1>3, <2>0, <2>1, <1>q DEF Take
  <2>2. CASE status[m.item] # "gone"
    <3>1. /\ proc'[p].step = "gate" /\ proc'[p].item = m.item
          /\ proc'[p].status = status[m.item]
          /\ \A q \in Proc \ {p} : proc'[q] = proc[q]
      BY <1>3, <2>2, <1>b DEF Take, Frame
    <3>2. \A c \in Copies : ~StartedAs(p, i, c) /\ ~StartedAs(p, i, c)'
      BY <1>3, <3>1 DEF Take, StartedAs, At
    <3>3. CASE m.item = i /\ status[i] = "PENDING"
      BY <2>0, <3>1, <3>2, <3>3, <1>0, BudgetArms
    <3>4. CASE ~(m.item = i /\ status[i] = "PENDING")
      <4>1. \A c \in Copies : ~ArmedAs(p, i, c)'
        BY <3>1, <3>4 DEF ArmedAs, Armed, At, IsPending, Carry
      <4> QED BY <2>0, <3>1, <3>2, <4>1, <1>0, BudgetKept
    <3> QED BY <3>3, <3>4
  <2> QED BY <2>1, <2>2
<1>4. ASSUME NEW p \in Proc, Enqueue(p) PROVE Budget(i)'
  <2>1. ~Armed(p)' /\ ~At(p, "started") /\ \A q \in Proc \ {p} : proc'[q] = proc[q]
    BY <1>4, <1>0 DEF Enqueue, GoTo, Armed, At, Proc_
  <2> QED BY <1>4, <2>1, <1>e DEF Enqueue
<1>5. ASSUME NEW p \in Proc, Become(p, Idle), ~At(p, "started"),
             started' = started, lost' = lost, redelivered' = redelivered,
             status'[i] \in {"unsaved", "PENDING"} => status[i] \in {"unsaved", "PENDING"}
      PROVE  Budget(i)'
  <2>1. ~Armed(p)' /\ \A q \in Proc \ {p} : proc'[q] = proc[q]
    BY <1>5, <1>b, <1>i DEF Armed, At
  <2> QED BY <1>5, <2>1, <1>e
<1>6. ASSUME NEW p \in Proc,
             \/ SaveCeleryId(p) \/ Refuse(p) \/ GateFails(p) \/ Unlock(p)
             \/ LockFails(p) \/ UnlockFails(p)
      PROVE  Budget(i)'
  <2>1. ~At(p, "started") /\ Become(p, Idle) /\ started' = started /\ lost' = lost
        /\ redelivered' = redelivered
    BY <1>6 DEF SaveCeleryId, Refuse, GateFails, Unlock, LockFails, UnlockFails, Leave, At
  <2>2. status'[i] \in {"unsaved", "PENDING"} => status[i] \in {"unsaved", "PENDING"}
    BY <1>6, <1>0 DEF SaveCeleryId, Refuse, GateFails, Unlock, LockFails, UnlockFails
  <2> QED BY <2>1, <2>2, <1>5
<1>7. ASSUME NEW p \in Proc, Crash(p) \/ FailAfterStart(p) PROVE Budget(i)'
  <2>0. /\ started' = started /\ redelivered' = redelivered /\ status' = status
        /\ ~Armed(p)' /\ \A q \in Proc \ {p} : proc'[q] = proc[q]
    BY <1>7, <1>0, <1>b, <1>i DEF Crash, FailAfterStart, Fail, Armed, At, Proc_
  <2>1. CASE At(p, "started")
    <3>1. lost' = [lost EXCEPT ![proc[p].item] = lost[proc[p].item] + 1]
      BY <1>7, <2>1 DEF Crash, FailAfterStart
    <3> QED BY <2>0, <2>1, <3>1, <1>0, BudgetEnds
  <2>2. CASE ~At(p, "started")
    <3>1. lost' = lost
      BY <1>7, <2>2 DEF Crash, FailAfterStart
    <3> QED BY <2>0, <2>2, <3>1, <1>e
  <2> QED BY <2>1, <2>2
<1>8. ASSUME NEW p \in Proc, Save(p) PROVE Budget(i)'
  <2>0. /\ At(p, "started") /\ started' = started /\ redelivered' = redelivered
        /\ ~Armed(p)' /\ \A q \in Proc \ {p} : proc'[q] = proc[q]
    BY <1>8, <1>0 DEF Save, Fail, GoTo, Armed, At, Proc_
  <2>1. \/ lost' = lost /\ status' = [status EXCEPT ![proc[p].item] = "RUNNING"]
        \/ lost' = [lost EXCEPT ![proc[p].item] = lost[proc[p].item] + 1] /\ status' = status
    BY <1>8 DEF Save
  <2> QED BY <2>0, <2>1, <1>0, BudgetEnds
<1>9. ASSUME NEW p \in Proc, StartJob(p) PROVE Budget(i)'
  BY <1>9, <1>0, BudgetStarts
<1>10. ASSUME NEW p \in Proc, Lock(p) \/ Check(p) \/ StartFails(p) PROVE Budget(i)'
  <2>0. /\ started' = started /\ lost' = lost /\ redelivered' = redelivered /\ status' = status
        /\ ~At(p, "started")
    BY <1>10 DEF Lock, Check, StartFails, At
  <2>1. /\ proc'[p].item = proc[p].item /\ proc'[p].msg = proc[p].msg
        /\ \A q \in Proc \ {p} : proc'[q] = proc[q]
        /\ proc[p].step \in {"gate", "locked", "checked", "started", "unlock"}
        /\ proc'[p].step \in {"locked", "checked", "started", "unlock"}
    BY <1>10, DispatchGoesOn DEF Typed
  <2>2. Armed(p) /\ ~At(p, "started")'
    <3>1. CASE Lock(p)
      <4>1. PICK id \in LockId : Become(p, [proc[p] EXCEPT !.step = "locked", !.lockId = id])
        BY <3>1 DEF Lock
      <4>2. proc'[p].step = "locked"
        BY <4>1, <1>0 DEF Become, Proc_
      <4> QED BY <3>1, <4>2 DEF Lock, Armed, At
    <3>2. CASE Check(p) \/ StartFails(p)
      BY <3>2, <1>0 DEF Check, StartFails, GoTo, Fail, Armed, At, Proc_
    <3> QED BY <1>10, <3>1, <3>2
  <2>3. \A c \in Copies : /\ ArmedAs(p, i, c)' => ArmedAs(p, i, c)
                          /\ StartedAs(p, i, c)' <=> StartedAs(p, i, c)
    BY <2>0, <2>1, <2>2 DEF ArmedAs, StartedAs, Carry
  <2> QED BY <2>0, <2>1, <2>3, <1>0, BudgetKept
<1>11. ASSUME NEW m \in queue, Expire(m) \/ Redeliver(m) PROVE Budget(i)'
  <2>1. status'[i] \in {"unsaved", "PENDING"} => status[i] \in {"unsaved", "PENDING"}
    BY <1>11, <1>0 DEF Expire, Redeliver
  <2> QED BY <1>11, <2>1, <1>q DEF Expire, Redeliver
<1>12. ASSUME NEW j \in Item, Stopping(j) PROVE Budget(i)'
  <2>1. status'[i] \in {"unsaved", "PENDING"} => status[i] \in {"unsaved", "PENDING"}
    BY <1>12, <1>0 DEF Stopping, StopLoad, StopDelete, StopJob, StopSave
  <2> QED BY <1>12, <2>1, <1>q DEF Stopping, StopLoad, StopDelete, StopJob, StopSave
<1>14. ASSUME NEW j \in Item, Syncing(j) PROVE Budget(i)'
  <2>1. status'[i] \in {"unsaved", "PENDING"} => status[i] \in {"unsaved", "PENDING"}
    BY <1>14, <1>0 DEF Syncing, SyncEnds, SyncGivesUp
  <2> QED BY <1>14, <2>1, <1>q DEF Syncing, SyncEnds, SyncGivesUp
<1>13. CASE \/ \E k \in Key : AgeLock(k)
            \/ \E j \in pending : Evaluate(j)
            \/ UNCHANGED vars
  BY <1>13, <1>q DEF AgeLock, Evaluate, vars
<1> QED BY <1>1, <1>2, <1>3, <1>4, <1>6, <1>7, <1>8, <1>9, <1>10, <1>11, <1>12, <1>13, <1>14
        DEF Next, Dispatching

LEMMA FewJobs == ASSUME Typed, Budgets PROVE OneJobPerRow
<1> SUFFICES ASSUME NEW i \in Item PROVE started[i] <= 1 + lost[i] + Extra(i)
  BY DEF OneJobPerRow, Extra
<1>1. /\ started[i] \in Nat /\ lost[i] \in Nat /\ Extra(i) \in 0 .. 1
      /\ \A c \in Copies : /\ ArmedCopies(i, c) \in 0 .. 1 /\ StartedCopies(i, c) \in 0 .. 1
                           /\ StartedCopies(i, c) <= ArmedCopies(i, c)
  BY CountTypes DEF Typed, TypeOK
<1> QED BY <1>1 DEF Budgets, Budget, Copies

(* A history is dispatched at most once, but for the dispatches that lost their job    *)
(* before they saved it and for a second delivery, whatever is retried.          *)
THEOREM JobsAreFew == Spec => []OneJobPerRow
BY FewJobs, TypeInit, TypeStep, TrackedInit, TrackedStep, TokensInit, TokensStep,
   BudgetInit, BudgetStep, PTL DEF Spec

(* The job that a row names, or that a dispatch has yet to save, is one of its history's. *)
JobKnown == /\ \A p \in Proc : At(p, "started") => proc[p].track.job <= started[proc[p].item]
            /\ \A i \in Item : track[i].job <= started[i]

(* Once a stop has deregistered the job of a history, it has none, and gets none.       *)
Deregistered ==
  \A i \in Item : stopping[i] = "stop" =>
    /\ started[i] >= 1
    /\ Excepted(i) \/ \A n \in 1 .. started[i] : <<i, n>> \notin live

(* Of a history that lost no job and was delivered once, an armed dispatch has the      *)
(* only job, or there is none yet.                                             *)
LEMMA FirstJob ==
  ASSUME Typed, Tracked, Tokens, Budgets, NEW p \in Proc, Armed(p),
         lost[proc[p].item] = 0, proc[p].item \notin redelivered
  PROVE  started[proc[p].item] <= IF At(p, "started") THEN 1 ELSE 0
<1> DEFINE i == proc[p].item
<1>1. i \in Item /\ started[i] \in Nat /\ Extra(i) = 0 /\ Budget(i)
  BY DEF Typed, TypeOK, Proc_, Extra, Budgets
<1>2. PICK c \in Copies : Carry(p, i, c) /\ \A d \in Copies : Carry(p, i, d) => d = c
  BY CarryOne DEF Armed, At
<1>3. c = 0 /\ \A q \in Proc : ~Carry(q, i, 1)
  BY <1>1, <1>2 DEF Tokens, SecondCopy, Copies
<1>4. ArmedCopies(i, 1) = 0 /\ StartedCopies(i, 1) = 0
  BY <1>3 DEF ArmedCopies, StartedCopies, ArmedAs, StartedAs
<1>5. ArmedCopies(i, 0) = 1
  BY <1>2, <1>3 DEF ArmedCopies, ArmedAs
<1>6. StartedCopies(i, 0) = IF At(p, "started") THEN 1 ELSE 0
  <2>1. \A q \in Proc : Carry(q, i, 0) => q = p
    BY <1>1, <1>2, <1>3 DEF Tokens, InHand
  <2> QED BY <2>1, <1>2, <1>3 DEF StartedCopies, StartedAs
<1> HIDE DEF i
<1>7. started[i] + 1 + 0 <= 0 + StartedCopies(i, 0) + 0 + 1 + 0
  BY <1>1, <1>4, <1>5 DEF Budget, i
<1>8. started[i] <= IF At(p, "started") THEN 1 ELSE 0
  BY <1>1, <1>6, <1>7
<1> QED BY <1>8 DEF i

(* The steps that touch a job or the row of one: every other step leaves both alone.   *)
JobMoves ==
  /\ \A p \in Proc : At(p, "started")' => proc'[p] = proc[p] \/ StartJob(p)
  /\ \A p \in Proc : At(p, "started") => \/ proc'[p] = proc[p]
                                         \/ Save(p) \/ FailAfterStart(p) \/ Crash(p)
  /\ \A i \in Item : \/ started'[i] = started[i]
                     \/ \E p \in Proc : StartJob(p) /\ proc[p].item = i
                                        /\ started'[i] = started[i] + 1
  /\ \A i \in Item : \/ status[i] = "RUNNING" => status'[i] = "RUNNING"
                     \/ status'[i] = "gone" \/ SyncEnds(i) \/ SyncGivesUp(i) \/ StopSave(i)
                     \/ \E p \in Proc : GateFails(p) /\ proc[p].item = i
  /\ \A i \in Item : lost[i] <= lost'[i]
  /\ misfailed \subseteq misfailed' /\ redelivered \subseteq redelivered'
  /\ abandoned \subseteq abandoned'
  /\ \A i \in Item : stopping'[i] = "stop" => stopping[i] = "stop" \/ StopJob(i)
  /\ \A j \in live' : j \in live \/ \E p \in Proc : StartJob(p) /\ proc[p].item = j[1]
                                       /\ j[2] = started[j[1]] + 1

LEMMA JobStep == ASSUME Typed, [Next]_vars PROVE JobMoves
<1> USE DEF rowVars, nomadVars, ghostVars
<1> DEFINE Still == /\ started' = started /\ live' \subseteq live /\ lost' = lost
                    /\ misfailed' = misfailed /\ redelivered \subseteq redelivered'
                    /\ abandoned \subseteq abandoned'
                    /\ \A i \in Item : stopping'[i] = "stop" => stopping[i] = "stop" \/ StopJob(i)
           Started == \A p \in Proc : (At(p, "started") \/ At(p, "started")') => proc'[p] = proc[p]
           Rows == \A i \in Item : \/ status[i] = "RUNNING" => status'[i] = "RUNNING"
                                   \/ status'[i] = "gone"
                                   \/ SyncEnds(i) \/ SyncGivesUp(i) \/ StopSave(i)
<1>0. /\ proc \in [Proc -> Proc_] /\ \A q \in Proc : proc[q] \in Proc_ /\ proc[q].item \in Item
      /\ status \in [Item -> RowStatus \cup {"unsaved", "gone"}]
      /\ started \in [Item -> Nat] /\ lost \in [Item -> Nat] /\ live \subseteq Item \X Nat
      /\ stopping \in [Item -> {"no", "delete", "revoke", "stop"}]
  BY DEF Typed, TypeOK, Proc_
<1>s. ASSUME Still, Started, Rows PROVE JobMoves
  <2>1. \A i \in Item : lost[i] <= lost'[i]
    BY <1>s, <1>0
  <2> QED BY <1>s, <2>1 DEF JobMoves
<1>b. ASSUME NEW p \in Proc, NEW f, Become(p, f), f.step # "started", ~At(p, "started")
      PROVE  Started
  BY <1>b, <1>0 DEF Become, At
<1>i. Idle.step = "idle"
  BY DEF Idle, Frame
<1>1. ASSUME NEW p \in Proc, NEW j \in Item, Execute(p, j) \/ Schedule(p, j)
      PROVE  Still /\ Started /\ Rows
  <2>1. Started
    BY <1>1, <1>b DEF Execute, Schedule, Frame, At
  <2>2. Rows
    BY <1>1, <1>0 DEF Execute, Schedule
  <2> QED BY <1>1, <2>1, <2>2 DEF Execute, Schedule
<1>2. ASSUME NEW p \in Proc, NEW m \in queue, Take(p, m) PROVE Still /\ Started /\ Rows
  <2>1. CASE status[m.item] = "gone"
    BY <1>2, <2>1 DEF Take
  <2>2. CASE status[m.item] # "gone"
    <3>1. Started
      BY <1>2, <2>2, <1>b DEF Take, Frame, At
    <3> QED BY <1>2, <3>1 DEF Take
  <2> QED BY <2>1, <2>2
<1>3. ASSUME NEW p \in Proc,
             \/ Enqueue(p) \/ SaveCeleryId(p) \/ Refuse(p) \/ Unlock(p)
             \/ LockFails(p) \/ UnlockFails(p)
      PROVE  Still /\ Started /\ Rows
  <2>1. CASE Enqueue(p)
    <3>1. Started
      BY <2>1, <1>0 DEF Enqueue, GoTo, At, Proc_
    <3> QED BY <2>1, <3>1 DEF Enqueue
  <2>2. CASE SaveCeleryId(p) \/ Refuse(p) \/ Unlock(p)
    <3>1. Started
      BY <2>2, <1>b, <1>i DEF SaveCeleryId, Refuse, Leave, Unlock, At
    <3> QED BY <2>2, <3>1 DEF SaveCeleryId, Refuse, Leave, Unlock
  <2>3. CASE LockFails(p) \/ UnlockFails(p)
    <3>1. Started
      BY <2>3, <1>b, <1>i DEF LockFails, UnlockFails, Leave, At
    <3> QED BY <2>3, <3>1 DEF LockFails, UnlockFails, Leave
  <2> QED BY <1>3, <2>1, <2>2, <2>3
<1>4. ASSUME NEW p \in Proc, Lock(p) \/ Check(p) \/ StartFails(p)
      PROVE  Still /\ Started /\ Rows
  <2>1. CASE Lock(p)
    <3>1. PICK id \in LockId : Become(p, [proc[p] EXCEPT !.step = "locked", !.lockId = id])
      BY <2>1 DEF Lock
    <3>2. [proc[p] EXCEPT !.step = "locked", !.lockId = id].step = "locked"
      BY <1>0 DEF Proc_
    <3>3. Started
      BY <2>1, <3>1, <3>2, <1>b DEF Lock, At
    <3> QED BY <2>1, <3>3 DEF Lock
  <2>2. CASE Check(p) \/ StartFails(p)
    <3>1. Started
      BY <2>2, <1>0 DEF Check, StartFails, GoTo, Fail, At, Proc_
    <3> QED BY <2>2, <3>1 DEF Check, StartFails
  <2> QED BY <1>4, <2>1, <2>2
<1>5. ASSUME NEW m \in queue, Expire(m) \/ Redeliver(m) PROVE Still /\ Started /\ Rows
  <2>1. Rows
    BY <1>5, <1>0 DEF Expire, Redeliver
  <2> QED BY <1>5, <2>1 DEF Expire, Redeliver
<1>r. ASSUME NEW j \in Item, \A i \in Item \ {j} : status'[i] = status[i],
             SyncEnds(j) \/ SyncGivesUp(j) \/ StopSave(j)
      PROVE  Rows
  BY <1>r
<1>6. ASSUME NEW j \in Item, Stopping(j) PROVE Still /\ Started /\ Rows
  <2>1. CASE StopLoad(j)
    BY <2>1, <1>0 DEF StopLoad
  <2>2. CASE StopDelete(j)
    <3>1. Rows
      BY <2>2, <1>0 DEF StopDelete
    <3> QED BY <2>2, <3>1, <1>0 DEF StopDelete
  <2>3. CASE StopJob(j)
    <3>1. Still
      BY <2>3, <1>0 DEF StopJob, Over
    <3>2. Started /\ Rows
      BY <2>3 DEF StopJob
    <3> QED BY <3>1, <3>2
  <2>4. CASE StopSave(j)
    <3>1. Rows
      BY <2>4, <1>0, <1>r DEF StopSave
    <3> HIDE DEF Rows
    <3> QED BY <2>4, <3>1, <1>0 DEF StopSave
  <2> QED BY <1>6, <2>1, <2>2, <2>3, <2>4 DEF Stopping
<1>8. ASSUME NEW j \in Item, Syncing(j) PROVE Still /\ Started /\ Rows
  <2>1. Rows
    BY <1>8, <1>0, <1>r DEF Syncing, SyncEnds, SyncGivesUp
  <2>2. Still
    BY <1>8 DEF Syncing, SyncEnds, SyncGivesUp, Over
  <2>3. Started
    BY <1>8 DEF Syncing, SyncEnds, SyncGivesUp
  <2> QED BY <2>1, <2>2, <2>3
<1>7. ASSUME (\E k \in Key : AgeLock(k)) \/ (\E j \in pending : Evaluate(j)) \/ UNCHANGED vars
      PROVE  Still /\ Started /\ Rows
  BY <1>7 DEF AgeLock, Evaluate, vars
<1>9. ASSUME NEW p \in Proc, GateFails(p) PROVE JobMoves
  <2>1. Started
    BY <1>9, <1>b, <1>i DEF GateFails, Leave, At
  <2>2. /\ started' = started /\ live' = live /\ lost' = lost
        /\ misfailed \subseteq misfailed' /\ redelivered' = redelivered
        /\ abandoned' = abandoned /\ stopping' = stopping
    BY <1>9 DEF GateFails
  <2>3. \A i \in Item : (status[i] = "RUNNING" => status'[i] = "RUNNING") \/ proc[p].item = i
    BY <1>9, <1>0 DEF GateFails
  <2> QED BY <2>1, <2>2, <2>3, <1>9, <1>0 DEF JobMoves, At
<1>10. ASSUME NEW p \in Proc, Save(p) \/ FailAfterStart(p) \/ Crash(p) PROVE JobMoves
  <2>1. /\ \A q \in Proc \ {p} : proc'[q] = proc[q]
        /\ ~At(p, "started")'
    BY <1>10, <1>0, <1>i DEF Save, FailAfterStart, Crash, Fail, GoTo, Become, At, Proc_
  <2>2. /\ started' = started /\ live' = live
        /\ misfailed' = misfailed /\ redelivered' = redelivered
        /\ abandoned' = abandoned /\ stopping' = stopping
    BY <1>10 DEF Save, FailAfterStart, Crash
  <2>3. \A i \in Item : lost[i] <= lost'[i]
    BY <1>10, <1>0 DEF Save, FailAfterStart, Crash
  <2>4. \A i \in Item : status[i] = "RUNNING" => status'[i] = "RUNNING"
    BY <1>10, <1>0 DEF Save, FailAfterStart, Crash
  <2> QED BY <2>1, <2>2, <2>3, <2>4, <1>10 DEF At, JobMoves
<1>11. ASSUME NEW p \in Proc, StartJob(p) PROVE JobMoves
  <2>1. /\ \A q \in Proc \ {p} : proc'[q] = proc[q]
        /\ ~At(p, "started")
    BY <1>11, <1>0 DEF StartJob, Become, At
  <2>2. /\ status' = status /\ lost' = lost
        /\ misfailed' = misfailed /\ redelivered' = redelivered
        /\ abandoned' = abandoned /\ stopping' = stopping
    BY <1>11 DEF StartJob
  <2>3. \A i \in Item : \/ started'[i] = started[i]
                        \/ proc[p].item = i /\ started'[i] = started[i] + 1
    BY <1>11, <1>0 DEF StartJob
  <2>4. \A j \in live' : j \in live \/ (proc[p].item = j[1] /\ j[2] = started[j[1]] + 1)
    BY <1>11 DEF StartJob
  <2>5. \A i \in Item : lost[i] <= lost'[i]
    BY <2>2, <1>0
  <2> QED BY <2>1, <2>2, <2>3, <2>4, <2>5, <1>11 DEF At, JobMoves
<1> HIDE DEF Still, Started, Rows
<1> QED BY <1>1, <1>2, <1>3, <1>4, <1>5, <1>6, <1>7, <1>8, <1>s, <1>9, <1>10, <1>11
        DEF Next, Dispatching

LEMMA StartedJob ==
  ASSUME Typed, NEW p \in Proc, StartJob(p)
  PROVE  /\ At(p, "started")' /\ proc'[p].item = proc[p].item
         /\ proc'[p].track.job = started[proc[p].item] + 1
         /\ started'[proc[p].item] = started[proc[p].item] + 1
<1>1. /\ proc \in [Proc -> Proc_] /\ proc[p] \in Proc_ /\ proc[p].item \in Item
      /\ started \in [Item -> Nat]
  BY DEF Typed, TypeOK, Proc_
<1> QED BY <1>1 DEF StartJob, Become, At, Proc_

LEMMA KnownInit == Init => JobKnown /\ Deregistered /\ JobIsTracked
BY DEF Init, JobKnown, Deregistered, JobIsTracked, At, Idle, Frame, NoTrack

LEMMA KnownStep == Typed /\ JobKnown /\ [Next]_vars => JobKnown'
<1> SUFFICES ASSUME Typed, JobKnown, [Next]_vars PROVE JobKnown'
  OBVIOUS
<1>0. /\ JobMoves /\ RowMoves
      /\ \A p \in Proc : proc[p].item \in Item /\ proc[p].track.job \in Nat
      /\ \A i \in Item : started[i] \in Nat /\ track[i].job \in Nat
  BY JobStep, RowStep DEF Typed, TypeOK, Proc_
<1>m. \A i \in Item : started[i] <= started'[i] /\ started'[i] \in Nat
  BY <1>0 DEF JobMoves
<1>1. ASSUME NEW p \in Proc, At(p, "started")'
      PROVE  proc'[p].track.job <= started'[proc'[p].item]
  <2>1. CASE StartJob(p)
    BY <1>0, <1>m, <2>1, StartedJob
  <2>2. CASE proc'[p] = proc[p]
    <3>1. proc[p].track.job <= started[proc[p].item]
      BY <1>1, <2>2 DEF JobKnown, At
    <3> QED BY <1>0, <1>m, <2>2, <3>1
  <2> QED BY <1>0, <1>1, <2>1, <2>2 DEF JobMoves
<1>2. ASSUME NEW i \in Item PROVE track'[i].job <= started'[i]
  <2>1. CASE track'[i] = track[i]
    <3>1. track[i].job <= started[i]
      BY DEF JobKnown
    <3> QED BY <1>0, <1>m, <2>1, <3>1
  <2>2. CASE Saves(i)
    <3>1. PICK p \in Proc : /\ At(p, "started") /\ proc[p].item = i
                            /\ track'[i].job = proc[p].track.job
      BY <2>2 DEF Saves
    <3>2. proc[p].track.job <= started[i]
      BY <3>1 DEF JobKnown
    <3> QED BY <1>0, <1>m, <3>1, <3>2
  <2>3. CASE Unnames(i)
    BY <1>m, <2>3 DEF Unnames
  <2> QED BY <1>0, <2>1, <2>2, <2>3 DEF RowMoves
<1> QED BY <1>1, <1>2 DEF JobKnown

(* What excepts a history once excepts it for good.                              *)
LEMMA ExceptedLasts == ASSUME Typed, [Next]_vars, NEW i \in Item, Excepted(i) PROVE Excepted(i)'
<1>1. JobMoves /\ RowMoves /\ RowsLast
  BY JobStep, RowStep, RowsStep DEF Typed
<1>2. lost[i] \in Nat /\ lost'[i] \in Nat
  BY TypeStep DEF Typed, TypeOK
<1>3. lost[i] <= lost'[i]
  BY <1>1 DEF JobMoves
<1>4. lost[i] > 0 => lost'[i] > 0
  BY <1>2, <1>3
<1> QED BY <1>1, <1>4 DEF Excepted, JobMoves, RowMoves, RowsLast

(* A history without exception has at most one job: the one its row names.          *)
LEMMA OnlyJob ==
  ASSUME Typed, Budgets, JobKnown, NEW i \in Item, ~Excepted(i)
  PROVE  /\ started[i] \in {0, 1}
         /\ track[i].job # 0 => started[i] = 1 /\ track[i].job = 1
<1>1. OneJobPerRow
  BY FewJobs
<1>2. started[i] \in Nat /\ lost[i] \in Nat /\ track[i].job \in Nat
  BY DEF Typed, TypeOK
<1>3. lost[i] = 0 /\ i \notin redelivered
  BY <1>2 DEF Excepted
<1>4. started[i] <= 1
  BY <1>1, <1>2, <1>3 DEF OneJobPerRow
<1>5. track[i].job <= started[i]
  BY DEF JobKnown
<1> QED BY <1>2, <1>4, <1>5

LEMMA DeregisteredStep ==
  Typed /\ Tracked /\ Tokens /\ Budgets /\ JobKnown /\ Deregistered /\ [Next]_vars
    => Deregistered'
<1> SUFFICES ASSUME Typed, Tracked, Tokens, Budgets, JobKnown, Deregistered, [Next]_vars,
                    NEW i \in Item, stopping'[i] = "stop"
             PROVE  /\ started'[i] >= 1
                    /\ Excepted(i)' \/ \A n \in 1 .. started'[i] : <<i, n>> \notin live'
  BY DEF Deregistered
<1>0. /\ JobMoves /\ started[i] \in Nat /\ track[i].job \in Nat
      /\ \A p \in Proc : proc[p].item \in Item
  BY JobStep DEF Typed, TypeOK, Proc_
<1>m. started[i] <= started'[i] /\ started'[i] \in Nat
  BY <1>0 DEF JobMoves
<1>1. CASE StopJob(i)
  <2>1. /\ track[i].job # 0 /\ live' = live \ {<<i, track[i].job>>} /\ started' = started
    BY <1>1 DEF StopJob, Tracks, Over, JobOf
  <2>2. started[i] >= 1
    <3>1. track[i].job <= started[i]
      BY DEF JobKnown
    <3> QED BY <3>1, <2>1, <1>0
  <2>3. ASSUME ~Excepted(i)', NEW n \in 1 .. started'[i] PROVE <<i, n>> \notin live'
    <3>1. ~Excepted(i)
      BY <2>3, ExceptedLasts
    <3>2. started[i] = 1 /\ track[i].job = 1
      BY <2>1, <3>1, OnlyJob
    <3>3. n = 1
      BY <2>1, <2>3, <3>2
    <3> QED BY <2>1, <3>2, <3>3
  <2> QED BY <2>1, <2>2, <2>3
<1>2. CASE stopping[i] = "stop"
  <2>1. started[i] >= 1 /\ started'[i] >= 1
    BY <1>0, <1>2, <1>m DEF Deregistered
  <2>2. ASSUME ~Excepted(i)', NEW n \in 1 .. started'[i], <<i, n>> \in live' PROVE FALSE
    <3>1. ~Excepted(i)
      BY <2>2, ExceptedLasts
    <3>2. lost[i] = 0 /\ i \notin redelivered
      BY <3>1 DEF Excepted, Typed, TypeOK
    <3>3. ASSUME NEW p \in Proc, StartJob(p), proc[p].item = i PROVE FALSE
      <4>1. Armed(p) /\ ~At(p, "started")
        BY <3>3 DEF StartJob, Armed, At
      <4>2. started[i] <= 0
        BY <3>2, <3>3, <4>1, FirstJob
      <4> QED BY <4>2, <2>1, <1>0
    <3>4. started'[i] = started[i]
      BY <1>0, <3>3 DEF JobMoves
    <3>5. <<i, n>> \in live
      BY <1>0, <2>2, <3>3 DEF JobMoves
    <3> QED BY <1>2, <2>2, <3>1, <3>4, <3>5 DEF Deregistered
  <2> QED BY <2>1, <2>2
<1> QED BY <1>0, <1>1, <1>2 DEF JobMoves

LEMMA JobsStep ==
  Typed /\ Tracked /\ Tokens /\ Budgets /\ JobKnown /\ Deregistered /\ JobIsTracked
    /\ [Next]_vars => JobIsTracked'
<1> SUFFICES ASSUME Typed, Tracked, Tokens, Budgets, JobKnown, Deregistered, JobIsTracked,
                    [Next]_vars, NEW i \in Item, NEW n \in 1 .. started'[i],
                    <<i, n>> \in live', <<i, n>> \notin abandoned', ~Excepted(i)'
             PROVE  \/ status'[i] = "RUNNING" /\ track'[i].job = n
                    \/ \E p \in Proc : At(p, "started")' /\ proc'[p].item = i
                                       /\ proc'[p].track.job = n
  BY DEF JobIsTracked
<1>0. /\ JobMoves /\ RowMoves /\ RowsLast
      /\ \A p \in Proc : proc[p].item \in Item /\ proc[p].track.job \in Nat
      /\ started[i] \in Nat /\ lost[i] \in Nat /\ lost'[i] \in Nat
      /\ lost \in [Item -> Nat] /\ track \in [Item -> [job : Nat, celery : BOOLEAN]]
      /\ status \in [Item -> RowStatus \cup {"unsaved", "gone"}]
  BY JobStep, RowStep, RowsStep, TypeStep DEF Typed, TypeOK, Proc_
<1>1. /\ lost[i] = 0 /\ status[i] # "gone" /\ <<i, n>> \notin abandoned
      /\ i \notin early /\ i \notin redelivered /\ i \notin misfailed
      /\ lost'[i] = 0 /\ status'[i] # "gone" /\ i \notin misfailed'
  BY <1>0 DEF Excepted, JobMoves, RowMoves, RowsLast
<1>2. ASSUME NEW p \in Proc, StartJob(p), proc[p].item = i, n = started[i] + 1
      PROVE  At(p, "started")' /\ proc'[p].item = i /\ proc'[p].track.job = n
  BY <1>2, StartedJob
<1>3. CASE <<i, n>> \in live /\ n \in 1 .. started[i]
  <2>1. ASSUME NEW q \in Proc, At(q, "started"), proc[q].item = i, proc[q].track.job = n
        PROVE  \/ status'[i] = "RUNNING" /\ track'[i].job = n
               \/ At(q, "started")' /\ proc'[q].item = i /\ proc'[q].track.job = n
    <3>1. CASE proc'[q] = proc[q]
      BY <2>1, <3>1 DEF At
    <3>2. CASE Save(q)
      BY <2>1, <3>2, <1>0, <1>1 DEF Save, Writable, FlaggedTrack
    <3>3. CASE FailAfterStart(q) \/ Crash(q)
      <4>1. lost' = [lost EXCEPT ![i] = lost[i] + 1]
        BY <2>1, <3>3 DEF FailAfterStart, Crash
      <4> QED BY <4>1, <1>0, <1>1
    <3> QED BY <2>1, <3>1, <3>2, <3>3, <1>0 DEF JobMoves
  <2>2. CASE status[i] = "RUNNING" /\ track[i].job = n
    <3>1. ~SyncEnds(i) /\ ~SyncGivesUp(i) /\ ~StopSave(i)
      <4>0. JobOf(i) = <<i, n>>
        BY <2>2 DEF JobOf
      <4>1. ~SyncEnds(i)
        BY <4>0 DEF SyncEnds, Over
      <4>2. ~SyncGivesUp(i)
        BY <4>0 DEF SyncGivesUp, NonePending
      <4>3. ~StopSave(i)
        BY <1>1, <1>3 DEF StopSave, Deregistered, Excepted
      <4> QED BY <4>1, <4>2, <4>3
    <3>2. ASSUME NEW p \in Proc, GateFails(p), proc[p].item = i PROVE FALSE
      <4>1. Armed(p) /\ ~At(p, "started")
        BY <1>1, <3>2 DEF GateFails, Armed, At
      <4> QED BY <4>1, <3>2, <1>0, <1>1, <1>3, FirstJob
    <3>3. status'[i] = "RUNNING"
      BY <2>2, <3>1, <3>2, <1>0, <1>1 DEF JobMoves
    <3>4. ASSUME Saves(i) PROVE track'[i].job = n
      <4>1. PICK p \in Proc : /\ At(p, "started") /\ proc[p].item = i
                              /\ track'[i].job = proc[p].track.job
        BY <3>4 DEF Saves
      <4>2. started[i] <= 1
        BY <4>1, <1>1, FirstJob DEF Armed, At
      <4>3. proc[p].track.job # 0 /\ proc[p].track.job <= started[i]
        BY <4>1 DEF Tracked, JobKnown
      <4>4. proc[p].track.job \in Nat /\ started[i] \in Nat /\ n \in 1 .. started[i]
        BY <1>0, <1>3
      <4>5. proc[p].track.job = n
        BY <4>2, <4>3, <4>4
      <4> QED BY <4>1, <4>5
    <3>5. ~Unnames(i)
      BY <2>2, <1>1 DEF Unnames, Tracked, Mine
    <3> QED BY <2>2, <3>3, <3>4, <3>5, <1>0 DEF RowMoves
  <2> QED BY <1>1, <1>3, <2>1, <2>2 DEF JobIsTracked, Excepted
<1>4. CASE ~(<<i, n>> \in live /\ n \in 1 .. started[i])
  <2>1. CASE n \in 1 .. started[i]
    <3>1. PICK p \in Proc : StartJob(p) /\ proc[p].item = i /\ n = started[i] + 1
      BY <1>0, <1>4, <2>1 DEF JobMoves
    <3> QED BY <3>1, <1>2
  <2>2. CASE n \notin 1 .. started[i]
    <3>0. started'[i] # started[i]
      BY <2>2
    <3>1. PICK p \in Proc : StartJob(p) /\ proc[p].item = i /\ started'[i] = started[i] + 1
      BY <1>0, <3>0 DEF JobMoves
    <3>2. n = started[i] + 1
      <4>1. n \in 1 .. started[i] + 1 /\ started[i] \in Nat
        BY <3>1, <1>0
      <4> QED BY <4>1, <2>2
    <3> QED BY <3>1, <3>2, <1>2
  <2> QED BY <2>1, <2>2
<1> QED BY <1>3, <1>4

(* No job stays registered unknown to SEP: its history's row is RUNNING and names it,   *)
(* or the dispatch that registered it has yet to save it, or a sync gave it up, unless   *)
(* the history lost a job or its row, was delivered twice, ended by the payload gate     *)
(* when it was not PENDING, or taken before celery_task_id was saved.              *)
THEOREM RunningJobsAreTracked == Spec => []JobIsTracked
BY KnownInit, KnownStep, DeregisteredStep, JobsStep, TypeInit, TypeStep, TrackedInit, TrackedStep,
   TokensInit, TokensStep, BudgetInit, BudgetStep, PTL DEF Spec
==============================================================================
