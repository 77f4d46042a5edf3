------------------------------- MODULE AppDrain --------------------------------
(***************************************************************************)
(* The life cycle of one app.  An admin disables it; it drains while tasks it    *)
(* owns are still running, each counted by a row from its start to its end, and   *)
(* whoever finds no row left makes it DISABLED: the request itself, the last task,  *)
(* or the reconciler, which also prunes the rows of tasks that are gone.  Each      *)
(* request re-gates the app's periodic schedules, which live in another database.  *)
(* Every statement of a handler is a step of its own.                           *)
(***************************************************************************)
EXTENDS Naturals

CONSTANTS
  Task,        \* Celery tasks the app owns (periodic ones are sent again and again)
  Periodic,    \* those the beat schedule sends
  Admin,       \* handlers of the app-state API; a starting process is one too
  Reconciler,  \* the reconciler task, which no app owns
  MaxRequests, \* model bound: admin requests
  MaxFaults    \* model bound: handlers and tasks that die, tasks that start uncounted

ASSUME TaskAssumption == Periodic \subseteq Task
ASSUME DriverAssumption ==
  /\ Task \cap Admin = {} /\ Reconciler \notin Task \cup Admin
ASSUME DrainBoundAssumption == MaxRequests \in Nat /\ MaxFaults \in Nat

VARIABLES
  state,      \* AppState.lifecycle_state; a missing row counts as ENABLED
  armed,      \* PeriodicTask.enabled of the app's schedules
  task,       \* what each task is doing
  rows,       \* tasks with an AppRunningTask row
  drain,      \* who is in finalize_drain_if_complete, and the cycle it counted in
  admin,      \* what each handler is doing
  cycle,      \* ghost: how many times the app began to drain
  inflight,   \* ghost: tasks counted when it last did, that run and have their row
  overlapped, \* ghost: two requests were handled at once
  died,       \* ghost: a handler died
  requests, faults

taskVars == <<task, rows, inflight>>
adminVars == <<admin, overlapped, requests>>
vars == <<state, armed, taskVars, drain, adminVars, cycle, died, faults>>

State == {"ENABLED", "DISABLING", "DISABLED", "ENABLING"}
Allowed == {<<"ENABLED", "DISABLING">>, <<"DISABLED", "ENABLING">>,
            <<"DISABLING", "DISABLED">>, <<"ENABLING", "ENABLED">>}

Driver == Task \cup Admin \cup {Reconciler}
NoDrain == [step |-> "no", cycle |-> 0]
Draining(x) == drain[x].step # "no"
Enter(x) == drain' = [drain EXCEPT ![x] = [step |-> "count", cycle |-> 0]]
Leave(x) == drain' = [drain EXCEPT ![x] = NoDrain]

AdminStep == {"idle", "write", "refresh", "gateRead", "gateWrite", "delete", "force"}
NoAdmin == [step |-> "idle", target |-> "none", seen |-> "ENABLED", drains |-> FALSE]
Busy(a) == admin[a].step # "idle"
At(a, step) == admin[a].step = step
GoTo(a, step) == admin' = [admin EXCEPT ![a].step = step]

Running(t) == task[t] = "running"

Init ==
  /\ state = "ENABLED" /\ armed = TRUE
  /\ task = [t \in Task |-> "none"]
  /\ rows = {}
  /\ drain = [x \in Driver |-> NoDrain]
  /\ admin = [a \in Admin |-> NoAdmin]
  /\ cycle = 0 /\ inflight = {}
  /\ overlapped = FALSE /\ died = FALSE
  /\ requests = 0 /\ faults = 0

------------------------------------------------------------------------------
(* The tasks.                                                                 *)

(* Beat sends a periodic task while its schedule is enabled (as a new task each    *)
(* time: its old row is gone by then), a request sends the others.              *)
SendTask(t) ==
  /\ \/ task[t] = "none"
     \/ t \in Periodic /\ task[t] = "over" /\ ~Draining(t) /\ t \notin rows
  /\ t \in Periodic => armed
  /\ task' = [task EXCEPT ![t] = "queued"]
  /\ UNCHANGED <<state, armed, rows, inflight, drain, adminVars,
                 cycle, died, faults>>

(* task_prerun counts the task, whatever the state of its app,                   *)
Start(t) ==
  /\ task[t] = "queued"
  /\ task' = [task EXCEPT ![t] = "running"]
  /\ rows' = rows \cup {t}
  /\ UNCHANGED <<state, armed, inflight, drain, adminVars, cycle, died, faults>>

(* unless the receiver fails: Celery logs that and runs the task.                 *)
StartUncounted(t) ==
  /\ task[t] = "queued" /\ faults < MaxFaults
  /\ task' = [task EXCEPT ![t] = "running"]
  /\ faults' = faults + 1
  /\ UNCHANGED <<state, armed, rows, inflight, drain, adminVars, cycle, died>>

Over(t) ==
  /\ Running(t)
  /\ task' = [task EXCEPT ![t] = "over"]
  /\ inflight' = inflight \ {t}

(* task_postrun deletes the row and finalizes the drain.                        *)
End(t) ==
  /\ Over(t)
  /\ rows' = rows \ {t}
  /\ Enter(t)
  /\ UNCHANGED <<state, armed, adminVars, cycle, died, faults>>

(* A worker that dies, or is terminated by force-disable (which took the task's row   *)
(* first: that is no fault), runs no task_postrun.                               *)
Die(t) ==
  /\ Over(t)
  /\ IF t \in rows THEN faults < MaxFaults /\ faults' = faults + 1 ELSE UNCHANGED faults
  /\ UNCHANGED <<state, armed, rows, drain, adminVars, cycle, died>>

------------------------------------------------------------------------------
(* finalize_drain_if_complete: read the state and count the rows (one step: a state   *)
(* that changes in between is tested again by the flip),  then flip the state if it  *)
(* is still DISABLING.                                                         *)

Counted(x) == drain' = [drain EXCEPT ![x] = [step |-> "flip", cycle |-> cycle]]
CountNothing(x) ==
  /\ drain[x].step = "count"
  /\ IF state = "DISABLING" THEN Counted(x) ELSE Leave(x)
  /\ UNCHANGED <<state, armed, taskVars, adminVars, cycle, died, faults>>
Count(x) ==
  /\ drain[x].step = "count"
  /\ IF state = "DISABLING" /\ rows = {} THEN Counted(x) ELSE Leave(x)
  /\ UNCHANGED <<state, armed, taskVars, adminVars, cycle, died, faults>>

Flip(x) ==
  /\ drain[x].step = "flip"
  /\ state' = IF state = "DISABLING" THEN "DISABLED" ELSE state
  /\ Leave(x)
  /\ UNCHANGED <<armed, taskVars, adminVars, cycle, died, faults>>

(* The reconciler first deletes the rows older than stale_task_ttl, whose tasks cannot *)
(* be running any more (and which any row may be).                               *)
Reconcile ==
  /\ ~Draining(Reconciler)
  /\ \E stale \in SUBSET rows :
       rows' = rows \ stale /\ inflight' = inflight \ stale
  /\ Enter(Reconciler)
  /\ UNCHANGED <<state, armed, task, adminVars, cycle, died, faults>>

------------------------------------------------------------------------------
(* The app-state API.                                                          *)

Begin(a, step, target) ==
  /\ ~Busy(a) /\ ~Draining(a) /\ requests < MaxRequests
  /\ admin' = [admin EXCEPT ![a] = [NoAdmin EXCEPT !.step = step, !.target = target]]
  /\ requests' = requests + 1
  /\ overlapped' = (overlapped \/ \E b \in Admin : Busy(b))
  /\ UNCHANGED <<state, armed, taskVars, drain, cycle, died, faults>>

(* update_app_state: an edge that is not in _ALLOWED_TRANSITIONS is refused,        *)
Ask(a, target) == <<state, target>> \in Allowed /\ Begin(a, "write", target)

(* then the row is written, whatever it is now.                                 *)
Write(a) ==
  /\ At(a, "write")
  /\ state' = admin[a].target
  /\ admin' = [admin EXCEPT ![a] = [NoAdmin EXCEPT !.step = "refresh"]]
  /\ IF admin[a].target = "DISABLING"
     THEN cycle' = cycle + 1 /\ inflight' = {t \in rows : Running(t)}
     ELSE UNCHANGED <<cycle, inflight>>
  /\ UNCHANGED <<armed, task, rows, drain, overlapped, requests, died, faults>>

(* The row is read back; an ENABLING app is ENABLED at once.                      *)
StaysEnabling(s) == s
Enabled(s) == IF s = "ENABLING" THEN "ENABLED" ELSE s
Refresh(a) ==
  /\ At(a, "refresh")
  /\ state' = Enabled(state)
  /\ admin' = [admin EXCEPT ![a].step = "gateRead", ![a].drains = (state = "DISABLING")]
  /\ UNCHANGED <<armed, taskVars, drain, overlapped, requests, cycle, died, faults>>

(* apply_effective_enabled reads the state and writes PeriodicTask.enabled in the     *)
(* other database; sync_app_periodic_task_gating does so when a process starts.    *)
Restart(a) == Begin(a, "gateRead", "none")

GateRead(a) ==
  /\ At(a, "gateRead")
  /\ admin' = [admin EXCEPT ![a].step = "gateWrite", ![a].seen = state]
  /\ UNCHANGED <<state, armed, taskVars, drain, overlapped, requests, cycle, died, faults>>

(* A request that left the app DISABLING goes on to finalize the drain.            *)
EffectiveUnlessDisabled(s) == s # "DISABLED"
Effective(s) == s = "ENABLED"
GateWrite(a) ==
  /\ At(a, "gateWrite")
  /\ armed' = Effective(admin[a].seen)
  /\ admin' = [admin EXCEPT ![a] = NoAdmin]
  /\ IF admin[a].drains THEN Enter(a) ELSE UNCHANGED drain
  /\ UNCHANGED <<state, taskVars, overlapped, requests, cycle, died, faults>>

(* force_disable_app: the running tasks are listed and terminated (their deaths are   *)
(* steps of their own), the rows deleted, the state written whatever it is now.     *)
AskForce(a) == state = "DISABLING" /\ Begin(a, "delete", "DISABLED")

Delete(a) ==
  /\ At(a, "delete")
  /\ rows' = {} /\ inflight' = {}
  /\ GoTo(a, "force")
  /\ UNCHANGED <<state, armed, task, drain, overlapped, requests, cycle, died, faults>>

ForceDisable(a) ==
  /\ At(a, "force")
  /\ state' = "DISABLED"
  /\ admin' = [admin EXCEPT ![a] = NoAdmin]
  /\ UNCHANGED <<armed, taskVars, drain, overlapped, requests, cycle, died, faults>>

(* A handler, or whoever finalizes, dies between two statements.                  *)
HandlerDies(a) ==
  /\ Busy(a) /\ faults < MaxFaults
  /\ admin' = [admin EXCEPT ![a] = NoAdmin]
  /\ died' = TRUE /\ faults' = faults + 1
  /\ UNCHANGED <<state, armed, taskVars, drain, overlapped, requests, cycle>>

DriverDies(x) ==
  /\ Draining(x) /\ faults < MaxFaults
  /\ Leave(x)
  /\ faults' = faults + 1
  /\ UNCHANGED <<state, armed, taskVars, adminVars, cycle, died>>

------------------------------------------------------------------------------
Finalize(x) == Count(x) \/ Flip(x)
Handle(a) == \/ Write(a) \/ Refresh(a) \/ GateRead(a) \/ GateWrite(a)
             \/ Delete(a) \/ ForceDisable(a)

(* Everything but the tasks' own steps.                                         *)
Manage ==
  \/ \E a \in Admin : \/ \E target \in State : Ask(a, target)
                      \/ Restart(a) \/ AskForce(a) \/ Handle(a) \/ HandlerDies(a)
  \/ \E x \in Driver : Finalize(x) \/ DriverDies(x)
  \/ Reconcile

Next ==
  \/ Manage
  \/ \E t \in Task : SendTask(t) \/ Start(t) \/ StartUncounted(t) \/ End(t) \/ Die(t)

Spec == Init /\ [][Next]_vars

------------------------------------------------------------------------------
(* Properties.                                                                *)

TypeOK ==
  /\ state \in State /\ armed \in BOOLEAN
  /\ task \in [Task -> {"none", "queued", "running", "over"}]
  /\ rows \subseteq Task
  /\ drain \in [Driver -> [step : {"no", "count", "flip"}, cycle : Nat]]
  /\ admin \in [Admin -> [step : AdminStep, target : State \cup {"none"},
                          seen : State, drains : BOOLEAN]]
  /\ cycle \in Nat /\ inflight \subseteq Task
  /\ overlapped \in BOOLEAN /\ died \in BOOLEAN
  /\ requests \in Nat /\ faults \in Nat

(* Whoever flips a draining app to DISABLED finds over every task that was counted   *)
(* when the drain began, except those whose row was pruned or force-deleted while    *)
(* they ran, and unless it counted in an earlier drain that was undone.            *)
DrainedBeforeDisabled ==
  [][\A x \in Driver :
       (Flip(x) /\ state = "DISABLING" /\ drain[x].cycle = cycle)
         => inflight = {}]_vars

(* ENABLING, which nothing but its own request ends, ends with that request.         *)
EnablingEnds == state = "ENABLING" => died \/ \E a \in Admin : At(a, "refresh")

(* Between requests the schedules are enabled exactly in an ENABLED app, as long as    *)
(* requests come one at a time and none dies half-way.                            *)
GateFollowsState ==
  (\A a \in Admin : ~Busy(a)) => overlapped \/ died \/ armed = (state = "ENABLED")
==============================================================================
