------------------------------- MODULE Dispatch --------------------------------
(***************************************************************************)
(* From a request to a running Nomad job.  A task history is dispatched at    *)
(* once by the process that made it (the execute route, a periodic task, a    *)
(* chain), or, when it has an eta, saved PENDING and dispatched by the worker  *)
(* that takes its execute_task_queue message.  A dispatch takes the lock row    *)
(* of its request, looks for an active history of the same request, registers   *)
(* the job, saves the history RUNNING and deletes the lock row.  The lock is    *)
(* deleted by the next dispatch once it is 30 seconds old, its holder alive or  *)
(* not.  Stopping a PENDING history deletes its row, and so does the expiry of  *)
(* its message; stopping a RUNNING one deregisters its job and saves STOPPED,   *)
(* and a sync saves what it finds about the job.                               *)
(***************************************************************************)
EXTENDS Naturals, FiniteSets

CONSTANTS
  Item,        \* task histories
  Scheduled,   \* those whose execution_request has an eta
  Key,         \* names of dispatch locks: what makes two requests identical
  KeyOf,       \* the key of each item
  Proc,        \* workers and request handlers
  LockId,      \* primary keys of lock rows
  Engines,     \* database engines to consider
  MaxRetries,  \* CELERY.max_retries
  MaxFaults    \* model bound: crashes, failures after the job exists, redeliveries

ASSUME ItemAssumption ==
  Item # {} /\ Scheduled \subseteq Item /\ KeyOf \in [Item -> Key]
ASSUME EnginesAssumption == Engines \subseteq {"sqlite", "postgresql"}
ASSUME IdAssumption == LockId \subseteq Nat
ASSUME BoundAssumption == MaxRetries \in Nat /\ MaxFaults \in Nat

VARIABLES
  engine,     \* the database engine
  status,     \* TaskHistory.status; "unsaved": no row yet, "gone": row deleted
  track,      \* the row's tracking: the job's number (0: none), celery_task_id
  started,    \* Nomad jobs registered for each item so far
  live,       \* <<item, number>> of the jobs registered in Nomad and not over
  pending,    \* those with a pending evaluation
  blocked,    \* those whose evaluation found no room, until a sync gives them up
  queue,      \* execute_task_queue messages
  lock,       \* DispatchLock rows by name
  proc,       \* what each process is doing, with the history it holds in memory
  stopping,   \* stop requests: of a PENDING row (did it name a Celery task?) or a job
  unguarded,  \* ghost: keys whose lock row was deleted under a working holder
  leaked,     \* ghost: keys whose lock row a death or a failed statement left behind
  early,      \* ghost: items taken before the route had saved celery_task_id
  lost,       \* ghost: dispatches that registered a job and never saved it
  misfailed,  \* ghost: items the payload gate ended though they were not PENDING
  redelivered,\* ghost: items whose message the broker delivered twice
  abandoned,  \* ghost: jobs given up: no allocation and no pending evaluation found
  faults      \* number of faults so far

rowVars == <<status, track>>
nomadVars == <<started, live, pending, blocked>>
ghostVars == <<unguarded, leaked, early, lost, misfailed, redelivered, abandoned, faults>>
vars == <<engine, rowVars, nomadVars, queue, lock, proc, stopping, ghostVars>>

Active == {"PENDING", "RUNNING"}
RowStatus == Active \cup {"DONE"}
NoTrack == [job |-> 0, celery |-> FALSE]
NoLock == [id |-> 0, old |-> FALSE]

(* "enqueue", "track": the eta branch of the route; "gate": the history is      *)
(* loaded; "locked" to "unlock": inside the lock.                              *)
Step == {"idle", "enqueue", "track", "gate", "locked", "checked", "started", "unlock"}
Critical == {"locked", "checked", "started", "unlock"}

Frame(step, i, s, t, ms) ==
  [step |-> step, item |-> i, status |-> s, track |-> t, msg |-> ms,
   lockId |-> 0, failed |-> FALSE]
Idle == Frame("idle", CHOOSE i \in Item : TRUE, "DONE", NoTrack, {})
At(p, step) == proc[p].step = step
Working(i) == \E p \in Proc : proc[p].step # "idle" /\ proc[p].item = i
Become(p, f) == proc' = [proc EXCEPT ![p] = f]
GoTo(p, step) == proc' = [proc EXCEPT ![p].step = step]

(* Raising inside the lock goes through the finally clause.                    *)
FailOutright(p) == Become(p, Idle)
Fail(p) == proc' = [proc EXCEPT ![p].step = "unlock", ![p].failed = TRUE]

(* An UPDATE that matches no row raises: a deleted history cannot be saved.     *)
Upserted(i) == TRUE
Writable(i) == status[i] # "gone"

(* The only test of the status is on the history as it was loaded.             *)
AnyStatus(p) == TRUE
IsPending(p) == proc[p].status = "PENDING"

(* dispatch_task flags execution_request as modified, or its changes are lost.   *)
UnflaggedTrack(p) == track[proc[p].item]
FlaggedTrack(p) == proc[p].track

Held(k) == lock[k] # NoLock
Holds(p, k) == /\ proc[p].step \in Critical
               /\ KeyOf[proc[p].item] = k
               /\ proc[p].lockId = lock[k].id

Message == [item : Item, retries : 0 .. MaxRetries, copy : {0, 1}]

Init ==
  /\ engine \in Engines
  /\ status = [i \in Item |-> "unsaved"]
  /\ track = [i \in Item |-> NoTrack]
  /\ started = [i \in Item |-> 0]
  /\ live = {} /\ pending = {} /\ blocked = {}
  /\ queue = {}
  /\ lock = [k \in Key |-> NoLock]
  /\ proc = [p \in Proc |-> Idle]
  /\ stopping = [i \in Item |-> "no"]
  /\ unguarded = {} /\ leaked = {} /\ early = {} /\ misfailed = {} /\ redelivered = {}
  /\ lost = [i \in Item |-> 0] /\ abandoned = {} /\ faults = 0

------------------------------------------------------------------------------
(* Requests.                                                                  *)

(* execute_task_name without eta, execute_task_by_name, _dispatch_chained_task:  *)
(* a history that is in no table yet goes straight to dispatch_queue_item.      *)
Execute(p, i) ==
  /\ At(p, "idle") /\ i \notin Scheduled
  /\ status[i] = "unsaved" /\ ~Working(i)
  /\ Become(p, Frame("gate", i, "PENDING", NoTrack, {}))
  /\ UNCHANGED <<engine, rowVars, nomadVars, queue, lock, stopping, ghostVars>>

(* execute_task_name with eta: the PENDING row is committed,                    *)
Schedule(p, i) ==
  /\ At(p, "idle") /\ i \in Scheduled
  /\ status[i] = "unsaved" /\ ~Working(i)
  /\ status' = [status EXCEPT ![i] = "PENDING"]
  /\ Become(p, Frame("enqueue", i, "PENDING", NoTrack, {}))
  /\ UNCHANGED <<engine, track, nomadVars, queue, lock, stopping, ghostVars>>

(* apply_async puts the message in the broker,                                *)
Enqueue(p) ==
  /\ At(p, "enqueue")
  /\ queue' = queue \cup {[item |-> proc[p].item, retries |-> 0, copy |-> 0]}
  /\ GoTo(p, "track")
  /\ UNCHANGED <<engine, rowVars, nomadVars, lock, stopping, ghostVars>>

(* and the whole execution_request the route holds is written again, now with   *)
(* celery_task_id.  An UPDATE that matches no row raises.                       *)
SaveCeleryId(p) ==
  LET i == proc[p].item IN
  /\ At(p, "track")
  /\ track' = IF Writable(i) THEN [track EXCEPT ![i] = [job |-> 0, celery |-> TRUE]]
              ELSE track
  /\ Become(p, Idle)
  /\ UNCHANGED <<engine, status, nomadVars, queue, lock, stopping, ghostVars>>

(* stop_task_history loads a PENDING row,                                     *)
StopLoad(i) ==
  /\ status[i] = "PENDING" /\ stopping[i] = "no"
  /\ stopping' = [stopping EXCEPT ![i] = IF track[i].celery THEN "revoke" ELSE "delete"]
  /\ UNCHANGED <<engine, rowVars, nomadVars, queue, lock, proc, ghostVars>>

(* then revokes the task it names, so that the workers that hear of it drop its   *)
(* message, and deletes the row, whatever the row is now.                      *)
StopDelete(i) ==
  /\ stopping[i] \in {"delete", "revoke"}
  /\ \/ UNCHANGED queue
     \/ stopping[i] = "revoke" /\ queue' = {m \in queue : m.item # i}
  /\ status' = [status EXCEPT ![i] = "gone"]
  /\ stopping' = [stopping EXCEPT ![i] = "no"]
  /\ UNCHANGED <<engine, track, nomadVars, lock, proc, ghostVars>>

------------------------------------------------------------------------------
(* The broker.                                                                *)

(* Retried(m): what autoretry_for puts back when execute_task_queue raises.     *)
RetriedForEver(ms) == {[m EXCEPT !.retries = m.retries + 1] : m \in ms}
Retried(ms) ==
  {[m EXCEPT !.retries = m.retries + 1] : m \in {n \in ms : n.retries < MaxRetries}}

(* execute_task_queue: the message is acknowledged and the row loaded           *)
(* (get_or_404 raises when it is gone).                                        *)
Take(p, m) ==
  LET i == m.item IN
  /\ At(p, "idle") /\ m \in queue
  /\ IF status[i] = "gone"
     THEN /\ queue' = (queue \ {m}) \cup Retried({m})
          /\ UNCHANGED proc
     ELSE /\ queue' = queue \ {m}
          /\ Become(p, Frame("gate", i, status[i], track[i], {m}))
  /\ early' = IF \E q \in Proc : At(q, "track") /\ proc[q].item = i
              THEN early \cup {i} ELSE early
  /\ UNCHANGED <<engine, rowVars, nomadVars, lock, stopping,
                 unguarded, leaked, lost, misfailed, redelivered, abandoned, faults>>

(* A worker that finds the message older than eta + global_expire_seconds drops    *)
(* it, and task_revoked_handler deletes the row by its id.                      *)
Expire(m) ==
  /\ m \in queue
  /\ queue' = queue \ {m}
  /\ status' = [status EXCEPT ![m.item] = "gone"]
  /\ UNCHANGED <<engine, track, nomadVars, lock, proc, stopping, ghostVars>>

(* The broker delivers a message a second time: an eta beyond its visibility    *)
(* timeout.                                                                   *)
Redeliver(m) ==
  /\ m \in queue /\ m.item \notin redelivered /\ faults < MaxFaults
  /\ queue' = queue \cup {[m EXCEPT !.copy = 1]}
  /\ redelivered' = redelivered \cup {m.item}
  /\ faults' = faults + 1
  /\ UNCHANGED <<engine, rowVars, nomadVars, lock, proc, stopping,
                 unguarded, leaked, early, lost, misfailed, abandoned>>

------------------------------------------------------------------------------
(* dispatch_queue_item.                                                       *)

(* Leave(p): the dispatch raised outside the lock.                             *)
Leave(p) == /\ queue' = queue \cup Retried(proc[p].msg)
            /\ Become(p, Idle)

(* _pre_dispatch_payload_check: a payload that does not resolve ends the history *)
(* FAILED, whatever its status, before that status is looked at.  (A periodic     *)
(* task whose target is not ready ends so as well, with no row before.)         *)
GateFails(p) ==
  LET i == proc[p].item IN
  /\ At(p, "gate")
  /\ IF Writable(i)
     THEN /\ status' = [status EXCEPT ![i] = "DONE"]
          /\ Become(p, Idle)
          /\ UNCHANGED queue
     ELSE Leave(p) /\ UNCHANGED status
  /\ misfailed' = IF IsPending(p) THEN misfailed ELSE misfailed \cup {i}
  /\ UNCHANGED <<engine, track, nomadVars, lock, stopping,
                 unguarded, leaked, early, lost, redelivered, abandoned, faults>>

(* The history in memory is not PENDING, or the lock row is there and young.     *)
Refuse(p) ==
  LET k == KeyOf[proc[p].item] IN
  /\ At(p, "gate")
  /\ ~IsPending(p) \/ (Held(k) /\ ~lock[k].old)
  /\ Leave(p)
  /\ UNCHANGED <<engine, rowVars, nomadVars, lock, stopping, ghostVars>>

(* SQLite gives a row the successor of the largest key in the table; PostgreSQL  *)
(* never gives a key twice: the least one that no row and no process knows.     *)
FreshId(id, k) ==
  LET rows == {lock[j].id : j \in Key \ {k}}
      known == rows \cup {0, lock[k].id} \cup {proc[q].lockId : q \in Proc}
  IN IF engine = "sqlite"
     THEN (id = 1 \/ id - 1 \in rows) /\ \A n \in rows : n < id
     ELSE id \notin known /\ \A n \in LockId : n < id => n \in known

(* Whoever works under the lock row of k loses it when that row is deleted.      *)
Disturbed(k) == IF Held(k) /\ \E q \in Proc : Holds(q, k) THEN {k} ELSE {}

(* Delete the lock row if it is 30 seconds old, and insert one's own.           *)
Lock(p) ==
  LET k == KeyOf[proc[p].item] IN
  /\ At(p, "gate") /\ IsPending(p)
  /\ Held(k) => lock[k].old
  /\ \E id \in LockId :
       /\ FreshId(id, k)
       /\ lock' = [lock EXCEPT ![k] = [id |-> id, old |-> FALSE]]
       /\ Become(p, [proc[p] EXCEPT !.step = "locked", !.lockId = id])
  /\ unguarded' = unguarded \cup Disturbed(k)
  /\ leaked' = leaked \ {k}
  /\ UNCHANGED <<engine, rowVars, nomadVars, queue, stopping,
                 early, lost, misfailed, redelivered, abandoned, faults>>

(* The delete or the insert raises, or, with the row committed, the refresh of    *)
(* save: all of it outside the try whose finally clause deletes the row.        *)
LockFails(p) ==
  LET k == KeyOf[proc[p].item] IN
  /\ At(p, "gate") /\ IsPending(p)
  /\ Held(k) => lock[k].old
  /\ faults < MaxFaults
  /\ faults' = faults + 1
  /\ \/ UNCHANGED <<lock, unguarded, leaked>>
     \/ /\ lock' = [lock EXCEPT ![k] = NoLock]
        /\ unguarded' = unguarded \cup Disturbed(k)
        /\ leaked' = leaked \ {k}
     \/ /\ \E id \in LockId :
             FreshId(id, k) /\ lock' = [lock EXCEPT ![k] = [id |-> id, old |-> FALSE]]
        /\ unguarded' = unguarded \cup Disturbed(k)
        /\ leaked' = leaked \cup {k}
  /\ Leave(p)
  /\ UNCHANGED <<engine, rowVars, nomadVars, stopping,
                 early, lost, misfailed, redelivered, abandoned>>

(* _raise_if_identical_task_conflict: an active row of the same request, other   *)
(* than one's own.                                                            *)
IdenticalPending(i) == {j \in Item \ {i} : KeyOf[j] = KeyOf[i] /\ status[j] = "PENDING"}
Identical(i) == {j \in Item \ {i} : KeyOf[j] = KeyOf[i] /\ status[j] \in Active}
Check(p) ==
  /\ At(p, "locked")
  /\ IF Identical(proc[p].item) # {} THEN Fail(p) ELSE GoTo(p, "checked")
  /\ UNCHANGED <<engine, rowVars, nomadVars, queue, lock, stopping, ghostVars>>

(* NomadExecutor.dispatch_task: register_job and dispatch_job,                  *)
StartJob(p) ==
  LET i == proc[p].item IN
  /\ At(p, "checked")
  /\ started' = [started EXCEPT ![i] = @ + 1]
  /\ live' = live \cup {<<i, started[i] + 1>>}
  /\ pending' = pending \cup {<<i, started[i] + 1>>}
  /\ Become(p, [proc[p] EXCEPT !.step = "started", !.track.job = started[i] + 1])
  /\ UNCHANGED <<engine, rowVars, blocked, queue, lock, stopping, ghostVars>>

(* which Nomad may refuse,                                                    *)
StartFails(p) ==
  /\ At(p, "checked")
  /\ Fail(p)
  /\ UNCHANGED <<engine, rowVars, nomadVars, queue, lock, stopping, ghostVars>>

(* then the save: it inserts a history that has no row, and raises when the row  *)
(* it loaded is gone.                                                          *)
Save(p) ==
  LET i == proc[p].item IN
  /\ At(p, "started")
  /\ IF Writable(i)
     THEN /\ status' = [status EXCEPT ![i] = "RUNNING"]
          /\ track' = [track EXCEPT ![i] = FlaggedTrack(p)]
          /\ GoTo(p, "unlock")
          /\ UNCHANGED lost
     ELSE /\ Fail(p)
          /\ lost' = [lost EXCEPT ![i] = @ + 1]
          /\ UNCHANGED rowVars
  /\ UNCHANGED <<engine, nomadVars, queue, lock, stopping,
                 unguarded, leaked, early, misfailed, redelivered, abandoned, faults>>

(* get_job or the save raises, or, with the history saved, the refresh.         *)
FailAfterStart(p) ==
  LET i == proc[p].item IN
  /\ At(p, "started") \/ (At(p, "unlock") /\ ~proc[p].failed)
  /\ faults < MaxFaults
  /\ faults' = faults + 1
  /\ lost' = IF At(p, "started") THEN [lost EXCEPT ![i] = @ + 1] ELSE lost
  /\ Fail(p)
  /\ UNCHANGED <<engine, rowVars, nomadVars, queue, lock, stopping,
                 unguarded, leaked, early, misfailed, redelivered, abandoned>>

(* finally: the lock row with one's own id is deleted, whoever has it now.       *)
OwnRows(p) == {k \in Key : Held(k) /\ lock[k].id = proc[p].lockId}
DeleteLock(p) ==
  /\ lock' = [k \in Key |-> IF k \in OwnRows(p) THEN NoLock ELSE lock[k]]
  /\ unguarded' = unguarded \cup {k \in OwnRows(p) : \E q \in Proc \ {p} : Holds(q, k)}
  /\ leaked' = leaked \ OwnRows(p)

Unlock(p) ==
  /\ At(p, "unlock")
  /\ DeleteLock(p)
  /\ queue' = IF proc[p].failed THEN queue \cup Retried(proc[p].msg) ELSE queue
  /\ Become(p, Idle)
  /\ UNCHANGED <<engine, rowVars, nomadVars, stopping,
                 early, lost, misfailed, redelivered, abandoned, faults>>

(* The delete raises, its commit lost or only its answer: so does the dispatch,     *)
(* also one whose history is saved.                                            *)
UnlockFails(p) ==
  /\ At(p, "unlock")
  /\ faults < MaxFaults
  /\ faults' = faults + 1
  /\ \/ DeleteLock(p)
     \/ leaked' = leaked \cup OwnRows(p) /\ UNCHANGED <<lock, unguarded>>
  /\ Leave(p)
  /\ UNCHANGED <<engine, rowVars, nomadVars, stopping,
                 early, lost, misfailed, redelivered, abandoned>>

------------------------------------------------------------------------------
(* Time and crashes.                                                          *)

AgeLock(k) ==
  /\ Held(k) /\ ~lock[k].old
  /\ lock' = [lock EXCEPT ![k].old = TRUE]
  /\ UNCHANGED <<engine, rowVars, nomadVars, queue, proc, stopping, ghostVars>>

Crash(p) ==
  LET i == proc[p].item IN
  /\ ~At(p, "idle") /\ faults < MaxFaults
  /\ faults' = faults + 1
  /\ leaked' = leaked \cup {k \in Key : Holds(p, k)}
  /\ lost' = IF At(p, "started") THEN [lost EXCEPT ![i] = @ + 1] ELSE lost
  /\ Become(p, Idle)
  /\ UNCHANGED <<engine, rowVars, nomadVars, queue, lock, stopping,
                 unguarded, early, misfailed, redelivered, abandoned>>

------------------------------------------------------------------------------
(* Nomad.  An evaluation places the allocation of its job, or finds no room: then   *)
(* a blocked evaluation waits for room, and what that places is an allocation of   *)
(* its own.  (A job stays pending here while an allocation of it may still fail and  *)
(* be followed up: a sync that finds the allocation running changes nothing.)     *)
Evaluate(j) ==
  /\ j \in pending
  /\ pending' = pending \ {j}
  /\ \/ UNCHANGED blocked
     \/ blocked' = blocked \cup {j}
  /\ UNCHANGED <<engine, rowVars, started, live, queue, lock, proc, stopping, ghostVars>>

------------------------------------------------------------------------------
(* The syncs and the stop of a RUNNING row, which need the job it names.  A sync is  *)
(* one step here: which of them overlap, and what a save does to what another        *)
(* committed since the load, is in TaskSync.                                   *)

JobOf(i) == <<i, track[i].job>>
Tracks(i) == status[i] = "RUNNING" /\ track[i].job # 0
Over(j) == /\ live' = live \ {j} /\ pending' = pending \ {j} /\ blocked' = blocked \ {j}

(* The job is dead or lost, and the row takes a terminal status.  (Nobody else looks  *)
(* at a job, so its end is part of the step that sees it.)                       *)
SyncEnds(i) ==
  /\ Tracks(i)
  /\ Over(JobOf(i))
  /\ status' = [status EXCEPT ![i] = "DONE"]
  /\ UNCHANGED <<engine, track, started, queue, lock, proc, stopping, ghostVars>>

(* _resolve_running_allocation: the tracked evaluation has no allocation, and a later  *)
(* request finds no pending one of the job, though one may have been pending before:   *)
(* the row is FAILED, and the job stays registered.                             *)
IgnoresPending(j, left) == TRUE
NonePending(j, left) == j \notin left
SyncGivesUp(i) ==
  LET j == JobOf(i) IN
  /\ Tracks(i) /\ j \in pending \cup blocked
  /\ \E left \in {pending, pending \ {j}} :
       /\ NonePending(j, left)
       /\ pending' = left /\ blocked' = blocked \ {j}
       /\ abandoned' = abandoned \cup ({j} \ left)
  /\ status' = [status EXCEPT ![i] = "DONE"]
  /\ UNCHANGED <<engine, track, started, live, queue, lock, proc, stopping,
                 unguarded, leaked, early, lost, misfailed, redelivered, faults>>

(* stop_task deregisters the job                                              *)
StopJob(i) ==
  /\ Tracks(i) /\ stopping[i] = "no"
  /\ Over(JobOf(i))
  /\ stopping' = [stopping EXCEPT ![i] = "stop"]
  /\ UNCHANGED <<engine, rowVars, started, queue, lock, proc, ghostVars>>

(* and saves STOPPED, unless the sync before that, or the save, raises.            *)
StopSave(i) ==
  /\ stopping[i] = "stop"
  /\ stopping' = [stopping EXCEPT ![i] = "no"]
  /\ \/ UNCHANGED status
     \/ Writable(i) /\ status' = [status EXCEPT ![i] = "DONE"]
  /\ UNCHANGED <<engine, track, nomadVars, queue, lock, proc, ghostVars>>

------------------------------------------------------------------------------
Dispatching(p) == \/ GateFails(p) \/ Refuse(p) \/ Lock(p) \/ LockFails(p) \/ Check(p)
                  \/ StartJob(p) \/ StartFails(p) \/ Save(p) \/ FailAfterStart(p)
                  \/ Unlock(p) \/ UnlockFails(p)
Stopping(i) == StopLoad(i) \/ StopDelete(i) \/ StopJob(i) \/ StopSave(i)
Syncing(i) == SyncEnds(i) \/ SyncGivesUp(i)

Next ==
  \/ \E p \in Proc :
       \/ \E i \in Item : Execute(p, i) \/ Schedule(p, i)
       \/ \E m \in queue : Take(p, m)
       \/ Enqueue(p) \/ SaveCeleryId(p) \/ Dispatching(p) \/ Crash(p)
  \/ \E m \in queue : Expire(m) \/ Redeliver(m)
  \/ \E i \in Item : Stopping(i) \/ Syncing(i)
  \/ \E j \in pending : Evaluate(j)
  \/ \E k \in Key : AgeLock(k)

Spec == Init /\ [][Next]_vars

------------------------------------------------------------------------------
(* Properties.                                                                *)

Proc_ == [step : Step, item : Item, status : RowStatus, track : [job : Nat, celery : BOOLEAN],
          msg : SUBSET Message, lockId : Nat, failed : BOOLEAN]
TypeOK ==
  /\ engine \in Engines
  /\ status \in [Item -> RowStatus \cup {"unsaved", "gone"}]
  /\ track \in [Item -> [job : Nat, celery : BOOLEAN]]
  /\ started \in [Item -> Nat]
  /\ live \subseteq Item \X Nat /\ pending \subseteq Item \X Nat /\ blocked \subseteq Item \X Nat
  /\ queue \subseteq Message
  /\ lock \in [Key -> [id : Nat, old : BOOLEAN]]
  /\ proc \in [Proc -> Proc_]
  /\ stopping \in [Item -> {"no", "delete", "revoke", "stop"}]
  /\ unguarded \subseteq Key /\ leaked \subseteq Key /\ early \subseteq Item
  /\ misfailed \subseteq Item /\ redelivered \subseteq Item
  /\ lost \in [Item -> Nat] /\ abandoned \subseteq Item \X Nat /\ faults \in Nat

(* The dispatch lock and the identical-task check together keep two identical    *)
(* histories from running at once, unless a lock row was deleted (by age, or by   *)
(* its reused key on SQLite) while its holder was still dispatching.           *)
OneRunningPerKey ==
  \A i, j \in Item :
    (i # j /\ KeyOf[i] = KeyOf[j] /\ status[i] = "RUNNING" /\ status[j] = "RUNNING")
      => KeyOf[i] \in unguarded

(* A history is not dispatched twice, also when a dispatch that had saved it fails  *)
(* and is retried: each further job takes a dispatch whose save failed, or a       *)
(* message delivered twice.                                                    *)
OneJobPerRow ==
  \A i \in Item :
    started[i] <= 1 + lost[i] + (IF i \in redelivered THEN 1 ELSE 0)

(* No job is left in Nomad unknown to SEP: its row is RUNNING and names it, or its  *)
(* dispatch has not saved yet, or a sync gave it up that found neither an allocation *)
(* nor a pending evaluation.  Excepted are the ways to lose one: a save that failed, *)
(* a second delivery, a delete of the row under way, a payload that goes missing    *)
(* before a retry, and a message taken before celery_task_id was saved.         *)
Excepted(i) == \/ lost[i] > 0 \/ status[i] = "gone"
               \/ i \in early \cup redelivered \cup misfailed
JobIsTracked ==
  \A i \in Item : \A n \in 1 .. started[i] : <<i, n>> \in live \ abandoned =>
    \/ Excepted(i)
    \/ status[i] = "RUNNING" /\ track[i].job = n
    \/ \E p \in Proc : At(p, "started") /\ proc[p].item = i /\ proc[p].track.job = n

(* A RUNNING row can be synced and stopped: its tracking has the job, unless the   *)
(* route wrote the tracking it held over that of a worker that was quicker.     *)
RunningRowNamesJob ==
  \A i \in Item : (status[i] = "RUNNING" /\ i \notin early) => track[i].job # 0

(* A lock row has its holder at work, whatever refused, failed or retried before,   *)
(* or it was left by a process that died inside, by a create that raised after its    *)
(* commit, or by a delete that raised, and nobody has deleted it since.           *)
LockHeldOrLeaked ==
  \A k \in Key : Held(k) => k \in leaked \/ \E p \in Proc : Holds(p, k)

(* A history that was cancelled or expired does not come back: a dispatch that     *)
(* still holds it cannot save it.                                              *)
DeletedStaysDeleted ==
  [][\A i \in Item : status[i] = "gone" => status'[i] = "gone"]_vars
==============================================================================
