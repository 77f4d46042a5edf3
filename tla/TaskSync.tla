------------------------------- MODULE TaskSync --------------------------------
(***************************************************************************)
(* The status of one dispatched task history and everybody who writes it:    *)
(* the periodic sync_running_items and the Celery syncs it enqueues, the sync *)
(* route, the stop route, and the connectivity check that polls its own task. *)
(* sync_in_progress_started_at is a claim with a time to live that does not   *)
(* name its holder.  A sync works on the row it loaded, and saving it writes   *)
(* status and claim whatever the row has become meanwhile; then the row is     *)
(* read again and the next task of the chain is dispatched.                   *)
(* What a sync does with the logs is NomadLogSync.                            *)
(***************************************************************************)
EXTENDS Naturals, FiniteSets

CONSTANTS
  Workers,    \* Celery workers
  Routes,     \* concurrent requests to the sync route
  Stops,      \* the requests to the stop route
  Pollers,    \* connectivity checks waiting for this task
  Kinds,      \* the kinds of task history to consider
  MaxAborts   \* model bound: syncs and enqueues that fail or crash

Syncers == Workers \cup Routes
Procs == Syncers \cup Stops \cup Pollers

ASSUME ProcsAssumption ==
  /\ Workers \cap Routes = {} /\ Stops \cap Syncers = {}
  /\ Pollers \cap (Syncers \cup Stops) = {}
  /\ IsFiniteSet(Procs)
ASSUME KindsAssumption == Kinds \subseteq {"chain", "chain_on_failure", "check"}
ASSUME MaxAbortsAssumption == MaxAborts \in Nat

VARIABLES
  kind,       \* what execution_request.meta says of a chain; "check": no chain
  status,     \* TaskHistory.status as committed
  claimed,    \* sync_in_progress_started_at is set and younger than SYNC_LOCK_TTL
  job,        \* Nomad: the job, or the status its end amounts to
  queued,     \* sync_task_history messages no worker has taken
  frame,      \* what each process is doing, with the status it holds in memory
  chained,    \* number of dispatches of the next task of the chain
  answered,   \* a stop request has been answered with success
  disowned,   \* a claim was dropped while the sync it stands for was under way
  misread,    \* a sync read back another status than the one it saved
  aborts      \* number of failures so far

rowVars == <<kind, status, claimed>>
faultVars == <<disowned, misread, aborts>>
vars == <<rowVars, job, queued, frame, chained, answered, faultVars>>

(* What a sync can find; STALE and LOST take the same paths as FAILED.         *)
Ends == {"SUCCESS", "FAILED"}
terminal == Ends \cup {"STOPPED"}
Status == terminal \cup {"RUNNING"}
Live == {"running", "stopping"}

Idle == [step |-> "idle", status |-> "RUNNING"]
At(p, step) == frame[p].step = step
Become(p, step, st) == frame' = [frame EXCEPT ![p] = [step |-> step, status |-> st]]
Leave(p) == frame' = [frame EXCEPT ![p] = Idle]

(* The syncs a claim stands for: enqueued, or started and not yet saved.      *)
SyncSteps(p) == IF p \in Workers THEN {"clear", "reload", "execute", "save"}
                                 ELSE {"execute", "save"}
Busy == { p \in Syncers : frame[p].step \in SyncSteps(p) }
Outstanding == queued + Cardinality(Busy)

Init ==
  /\ kind \in Kinds /\ status = "RUNNING" /\ claimed = FALSE
  /\ job = "running" /\ queued = 0
  /\ frame = [p \in Procs |-> Idle]
  /\ chained = 0 /\ answered = FALSE
  /\ disowned = FALSE /\ misread = FALSE /\ aborts = 0

-------------------------------------------------------------------------------
(* Nomad.  A live job ends by itself, or because it was deregistered.  The dead   *)
(* job is garbage collected some time later.                                 *)
Finish ==
  /\ job \in Live
  /\ job' \in (IF job = "running" THEN Ends ELSE {"STOPPED", "FAILED"})
  /\ UNCHANGED <<rowVars, queued, frame, chained, answered, faultVars>>

Purge ==
  /\ job \in {"SUCCESS", "STOPPED"}
  /\ job' = "FAILED"
  /\ UNCHANGED <<rowVars, queued, frame, chained, answered, faultVars>>

-------------------------------------------------------------------------------
(* The claim is an UPDATE on the row: both claimants use this condition.      *)
ClaimsAgain == status = "RUNNING"
ClaimsAnyStatus == ~claimed
Claimable == status = "RUNNING" /\ ~claimed

(* sync_running_items.  The claim is committed before the message is sent.     *)
SyncRunningItems ==
  /\ Claimable
  /\ claimed' = TRUE
  /\ queued' = queued + 1
  /\ UNCHANGED <<kind, status, job, frame, chained, answered, faultVars>>

EnqueueFails ==
  /\ Claimable /\ aborts < MaxAborts
  /\ claimed' = TRUE
  /\ aborts' = aborts + 1
  /\ UNCHANGED <<kind, status, job, queued, frame, chained, answered, disowned, misread>>

(* SYNC_LOCK_TTL passes; while the sync is still under way, once.             *)
ClaimNeverExpires == FALSE
ClaimExpires ==
  /\ claimed
  /\ Outstanding > 0 => ~disowned
  /\ claimed' = FALSE
  /\ disowned' = (disowned \/ Outstanding > 0)
  /\ UNCHANGED <<kind, status, job, queued, frame, chained, answered, misread, aborts>>

-------------------------------------------------------------------------------
(* sync_queue_item: load the row; a row that is not running gives its claim    *)
(* back, unless the UPDATE finds it running again.                            *)
Take(w) ==
  /\ At(w, "idle") /\ queued > 0
  /\ queued' = queued - 1
  /\ Become(w, IF status = "RUNNING" THEN "execute" ELSE "clear", status)
  /\ UNCHANGED <<rowVars, job, chained, answered, faultVars>>

ClearClaim(w) ==
  /\ At(w, "clear")
  /\ IF status # "RUNNING"
       THEN claimed' = FALSE /\ Leave(w)
       ELSE claimed' = claimed /\ Become(w, "reload", frame[w].status)
  /\ UNCHANGED <<kind, status, job, queued, chained, answered, faultVars>>

Reload(w) ==
  /\ At(w, "reload")
  /\ Become(w, "execute", status)
  /\ UNCHANGED <<rowVars, job, queued, chained, answered, faultVars>>

(* The sync route: the row is loaded by a dependency, then claimed.           *)
RouteLoad(r) ==
  /\ At(r, "idle") /\ status = "RUNNING"
  /\ Become(r, "claim", status)
  /\ UNCHANGED <<rowVars, job, queued, chained, answered, faultVars>>

RouteClaim(r) ==
  /\ At(r, "claim")
  /\ IF Claimable
       THEN claimed' = TRUE /\ Become(r, "execute", frame[r].status)
       ELSE claimed' = claimed /\ Leave(r)
  /\ UNCHANGED <<kind, status, job, queued, chained, answered, faultVars>>

(* executor.sync_task_history, for whoever calls it: a running row gets the    *)
(* status Nomad tells, and any other row is returned as it is.  That is FAILED  *)
(* also for a live job with no allocation yet and a blocked evaluation: the row *)
(* is given up, the job goes on.                                             *)
RawVerdicts(st) == IF st # "RUNNING" THEN {st} ELSE {job}
Verdicts(st) == IF st # "RUNNING" THEN {st}
                ELSE IF job \in Live THEN {"RUNNING", "FAILED"} ELSE {job}

Execute(p) ==
  /\ At(p, "execute")
  /\ \E st \in Verdicts(frame[p].status) : Become(p, "save", st)
  /\ UNCHANGED <<rowVars, job, queued, chained, answered, faultVars>>

(* TaskHistoryManager.save with flag_modified_fields: one UPDATE of the status *)
(* and the claim, whatever they are in the row.                              *)
SaveSync(p) ==
  /\ At(p, "save")
  /\ status' = frame[p].status
  /\ claimed' = FALSE
  /\ Become(p, "refresh", frame[p].status)
  /\ UNCHANGED <<kind, job, queued, chained, answered, faultVars>>

(* save reads the row back after its commit, and maybe_dispatch_chain goes by  *)
(* what it read.                                                             *)
ChainsOnFlagOnly == status \in terminal /\ kind = "chain_on_failure"
ShouldChain == \/ status = "SUCCESS" /\ kind # "check"
               \/ status \in terminal /\ kind = "chain_on_failure"

RefreshAndChain(p) ==
  /\ At(p, "refresh")
  /\ chained' = chained + (IF ShouldChain THEN 1 ELSE 0)
  /\ misread' = (misread \/ status # frame[p].status)
  /\ Leave(p)
  /\ UNCHANGED <<rowVars, job, queued, answered, disowned, aborts>>

(* A worker that fails or dies keeps the claim, and so does a route that is    *)
(* cancelled or dies; a route that fails clears it, also when it is not its own *)
(* any more.                                                                *)
Abort(p) ==
  /\ frame[p].step \in {"clear", "reload", "execute", "save", "refresh"}
  /\ aborts < MaxAborts
  /\ aborts' = aborts + 1
  /\ Leave(p)
  /\ UNCHANGED <<rowVars, job, queued, chained, answered, disowned, misread>>

RouteRaises(r) ==
  /\ frame[r].step \in {"execute", "save", "refresh"}
  /\ aborts < MaxAborts
  /\ aborts' = aborts + 1
  /\ claimed' = FALSE
  /\ disowned' = (disowned \/ (At(r, "refresh") /\ Outstanding > 0))
  /\ Leave(r)
  /\ UNCHANGED <<kind, status, job, queued, chained, answered, misread>>

-------------------------------------------------------------------------------
(* The stop route and executor.stop_task: deregister the job, sync without a   *)
(* claim, force STOPPED.  Only the columns that changed are saved.            *)
StopLoad(s) ==
  /\ At(s, "idle") /\ status = "RUNNING"
  /\ Become(s, "deregister", status)
  /\ UNCHANGED <<rowVars, job, queued, chained, answered, faultVars>>

(* An allocation that completed reads as STOPPED once its job has the flag.    *)
StillRegistered(j) == j
Deregistered(j) == CASE j = "running" -> "stopping"
                     [] j = "SUCCESS" -> "STOPPED"
                     [] OTHER         -> j

Deregister(s) ==
  /\ At(s, "deregister")
  /\ job' = Deregistered(job)
  /\ Become(s, "execute", frame[s].status)
  /\ UNCHANGED <<rowVars, queued, chained, answered, faultVars>>

StopSave(s) ==
  /\ At(s, "save")
  /\ status' = "STOPPED"
  /\ answered' = TRUE
  /\ Become(s, "done", "STOPPED")
  /\ UNCHANGED <<kind, claimed, job, queued, chained, faultVars>>

(* A stop or a poll that fails leaves the row alone.                          *)
GiveUp(p) ==
  /\ frame[p].step \notin {"idle", "done"} /\ aborts < MaxAborts
  /\ aborts' = aborts + 1
  /\ Leave(p)
  /\ UNCHANGED <<rowVars, job, queued, chained, answered, disowned, misread>>

(* The connectivity check: the same sync without a claim, in a loop.           *)
Poll(p) ==
  /\ kind = "check" /\ At(p, "idle") /\ status = "RUNNING"
  /\ Become(p, "execute", status)
  /\ UNCHANGED <<rowVars, job, queued, chained, answered, faultVars>>

PollSave(p) ==
  /\ At(p, "save")
  /\ status' = IF frame[p].status = "RUNNING" THEN status ELSE frame[p].status
  /\ Leave(p)
  /\ UNCHANGED <<kind, claimed, job, queued, chained, answered, faultVars>>

-------------------------------------------------------------------------------
WorkerStep(w) == ClearClaim(w) \/ Reload(w) \/ Execute(w) \/ SaveSync(w) \/ RefreshAndChain(w)
RouteStep(r) == RouteClaim(r) \/ Execute(r) \/ SaveSync(r) \/ RefreshAndChain(r)
StopStep(s) == Deregister(s) \/ Execute(s) \/ StopSave(s)
PollStep(p) == Execute(p) \/ PollSave(p)

Next ==
  \/ Finish \/ Purge \/ SyncRunningItems \/ EnqueueFails \/ ClaimExpires
  \/ \E w \in Workers : Take(w) \/ WorkerStep(w) \/ Abort(w)
  \/ \E r \in Routes : RouteLoad(r) \/ RouteStep(r) \/ Abort(r) \/ RouteRaises(r)
  \/ \E s \in Stops : StopLoad(s) \/ StopStep(s) \/ GiveUp(s)
  \/ \E p \in Pollers : Poll(p) \/ PollStep(p) \/ GiveUp(p)

Spec == Init /\ [][Next]_vars

(* Beat fires, workers take messages, what has begun goes on (a process that   *)
(* dies aborts), time passes, and Nomad ends the job it was told to stop.  No   *)
(* user has to come, and a task need not end by itself.                       *)
Fairness ==
  /\ WF_vars(SyncRunningItems) /\ WF_vars(\E w \in Workers : Take(w))
  /\ WF_vars(ClaimExpires /\ Outstanding = 0)
  /\ \A w \in Workers : WF_vars(WorkerStep(w))
  /\ \A r \in Routes : WF_vars(RouteStep(r))
  /\ \A s \in Stops : WF_vars(StopStep(s))
  /\ \A p \in Pollers : WF_vars(PollStep(p))
  /\ WF_vars(Finish /\ job = "stopping")

FairSpec == Spec /\ Fairness
-------------------------------------------------------------------------------
(* The row, the job, the counters and what each process holds have their ranges. *)
TypeOK ==
  /\ kind \in Kinds /\ status \in Status /\ claimed \in BOOLEAN
  /\ job \in Live \cup terminal /\ queued \in Nat
  /\ frame \in [Procs -> [step : {"idle", "clear", "reload", "claim", "deregister",
                                 "execute", "save", "refresh", "done"}, status : Status]]
  /\ chained \in Nat /\ answered \in BOOLEAN
  /\ disowned \in BOOLEAN /\ misread \in BOOLEAN /\ aborts \in 0 .. MaxAborts

(* A claim counts the syncs it stands for: one at most, none without a claim.  *)
ClaimCounts ==
  ~disowned => Outstanding <= 1 /\ (~claimed => Outstanding = 0)

(* The syncs that saved a terminal status and have not looked at it again.     *)
Pending == { p \in Syncers : frame[p].step = "refresh" /\ frame[p].status \in terminal }
Dispatches == chained + Cardinality(Pending)

(* Once a dispatch has been made or is due, no sync is left to make another.   *)
ChainsCounted ==
  ~disowned /\ ~misread /\ Dispatches > 0 =>
    /\ Dispatches = 1
    /\ status \in terminal /\ Outstanding = 0

(* A verdict in the row came with the end of the last sync.                   *)
VerdictSettled == ~disowned /\ kind # "check" /\ status \in Ends => Outstanding = 0

(* Only the task of a connectivity check is polled.                           *)
OnlyChecksPolled == kind # "check" => \A p \in Pollers : frame[p] = Idle

(* What every process may rely on at every step: the claims count the syncs,    *)
(* and a chain or a verdict that is settled has no sync left to unsettle it.   *)
SyncInv == /\ TypeOK /\ ClaimCounts /\ ChainsCounted
           /\ VerdictSettled /\ OnlyChecksPolled

(* While no claim was dropped early, the Celery syncs and the syncs of the      *)
(* route are never two at a time: "never both progress past the executor call *)
(* for the same row" (sync_task_history in routes.py).                       *)
OneSyncAtATime == ~disowned => Outstanding <= 1

(* While no claim was dropped early, the next task of a chain is dispatched at  *)
(* most once, whatever syncs, requests and stops overlap, unless a sync read   *)
(* back what another writer had made of the row.                            *)
ChainOnce == ~disowned /\ ~misread => chained <= 1

(* While no claim was dropped early, a status that Nomad told is not made       *)
(* RUNNING again by a sync that looked earlier and saved later.  A task a       *)
(* connectivity check polls has a writer more, and is not covered.            *)
VerdictStays ==
  [][kind # "check" /\ ~disowned /\ status \in Ends => status' # "RUNNING"]_vars

(* A saved success leads to the dispatch of the next task, except when a sync   *)
(* failed or a stop came in between.                                         *)
SuccessIsChained ==
  status = "SUCCESS" /\ kind # "check" ~> chained > 0 \/ aborts > 0 \/ misread

(* Once the job is over the row ends up terminal for good, also when syncs      *)
(* fail, claims are left behind, and a sync overwrites the outcome of another. *)
EndIsRecorded == job \in terminal ~> [](status \in terminal)

(* A stop that was answered is honoured in the end: a sync that looked before   *)
(* it may save RUNNING over STOPPED, but not for good.                        *)
StopIsHonoured == answered ~> [](status \in terminal)

================================================================================
