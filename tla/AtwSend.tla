------------------------------- MODULE AtwSend ---------------------------------
(***************************************************************************)
(* Sending an incident's diagnostics, the work the ATW app's tasks do.  A request   *)
(* commits a PENDING send log and queues a task; the task marks the row RUNNING,     *)
(* uploads the bundle and writes how it ended.  A periodic task of the same app     *)
(* fails the rows nobody advances any more.  The tasks are counted, drained,       *)
(* terminated and gated as AppDrain has it.                                     *)
(***************************************************************************)
EXTENDS AppDrain

CONSTANTS
  Send,   \* send logs, each named by its task send_incident_diagnostics
  Sweep   \* the task purge_atw_bundles

ASSUME SendAssumption ==
  Send \subseteq Task \ Periodic /\ Sweep \in Periodic /\ Task = Send \cup {Sweep}

VARIABLES
  log,       \* AtwSendLog.status; "none": no row yet, "gone": deleted
  hand,      \* where the request, then the task, of each send is
  refusing,  \* sends whose request is about to write FAILED
  sweep,     \* the stale rows the sweep still has to fail
  fate       \* ghost: what the receiver and the readers of the row were told

sendVars == <<log, hand, refusing, sweep, fate>>
allVars == <<vars, sendVars>>

Active == {"PENDING", "RUNNING"}
Terminal == {"SUCCESS", "FAILED"}
Saved(s) == log[s] \notin {"none", "gone"}

(* Steps: "enqueue" is the request's; the others are the task's.                  *)
HandStep == {"no", "enqueue", "load", "begin", "upload", "save", "exit"}
Working == {"begin", "upload", "save"}
In(s, step) == hand[s] = step
To(s, step) == hand' = [hand EXCEPT ![s] = step]

(* "delivered": the receiver has the bundle; "reported": the row was FAILED; "both";   *)
(* "excused": see FailedMeansNotDelivered.                                       *)
Fate == {"open", "delivered", "reported", "both", "excused"}
Tell(s, news) ==
  fate' = [fate EXCEPT ![s] = CASE @ \in {"open", news} -> news
                                [] @ = "excused"         -> "excused"
                                [] OTHER                 -> "both"]
Excuse(S) == fate' = [s \in Send |-> IF s \in S THEN "excused" ELSE fate[s]]

(* _persist: an UPDATE by id, which raises when the row is gone.                     *)
Persist(s, status) == log' = IF Saved(s) THEN [log EXCEPT ![s] = status] ELSE log
PersistFailed(s) ==
  /\ Persist(s, "FAILED")
  /\ IF Saved(s) THEN Tell(s, "reported") ELSE UNCHANGED fate

SendInit ==
  /\ Init
  /\ log = [s \in Send |-> "none"]
  /\ hand = [s \in Send |-> "no"] /\ refusing = {} /\ sweep = {}
  /\ fate = [s \in Send |-> "open"]

------------------------------------------------------------------------------
(* The API.                                                                   *)

(* atw_start_send_job, behind require_app_enabled, commits the row,              *)
Request(s) ==
  /\ log[s] = "none" /\ state = "ENABLED"
  /\ log' = [log EXCEPT ![s] = "PENDING"]
  /\ To(s, "enqueue")
  /\ UNCHANGED <<vars, refusing, sweep, fate>>

(* and queues the task,                                                        *)
Enqueue(s) ==
  /\ In(s, "enqueue")
  /\ SendTask(s)
  /\ To(s, "no")
  /\ UNCHANGED <<log, refusing, sweep, fate>>

(* or, when the broker raises, which may have the message all the same,           *)
EnqueueFails(s) ==
  /\ In(s, "enqueue")
  /\ SendTask(s) \/ UNCHANGED vars
  /\ To(s, "no")
  /\ refusing' = refusing \cup {s}
  /\ UNCHANGED <<log, sweep, fate>>

(* ends the row FAILED, whatever it is now.                                      *)
Refuse(s) ==
  /\ s \in refusing
  /\ PersistFailed(s)
  /\ refusing' = refusing \ {s}
  /\ UNCHANGED <<vars, hand, sweep>>

(* atw_delete_incident takes the send logs of the incident with it.              *)
DeleteIncident(s) ==
  /\ Saved(s) /\ state = "ENABLED"
  /\ log' = [log EXCEPT ![s] = "gone"]
  /\ UNCHANGED <<vars, hand, refusing, sweep, fate>>

------------------------------------------------------------------------------
(* run_send.                                                                  *)

StartUnowned(s) ==
  /\ task[s] = "queued"
  /\ task' = [task EXCEPT ![s] = "running"]
  /\ To(s, "load")
  /\ UNCHANGED <<state, armed, rows, inflight, drain, adminVars, cycle, died,
                 faults, log, refusing, sweep, fate>>
StartSend(s) ==
  /\ Start(s) \/ StartUncounted(s)
  /\ To(s, "load")
  /\ UNCHANGED <<log, refusing, sweep, fate>>

(* A row that is gone or terminal is left alone.                                 *)
Proceed(s) ==
  /\ In(s, "load")
  /\ To(s, "begin")
  /\ Excuse({s} \cap (sweep \cup refusing))
  /\ UNCHANGED <<vars, log, refusing, sweep>>
LeaveAlone(s) ==
  /\ In(s, "load")
  /\ To(s, "exit")
  /\ UNCHANGED <<vars, log, refusing, sweep, fate>>
LoadAnyway(s) == IF Saved(s) THEN Proceed(s) ELSE LeaveAlone(s)
Load(s) == IF log[s] \in Active THEN Proceed(s) ELSE LeaveAlone(s)

(* No delivery plan, also not after the settings were read again: FAILED.         *)
Unconfigured(s) ==
  /\ In(s, "begin")
  /\ PersistFailed(s)
  /\ To(s, "exit")
  /\ UNCHANGED <<vars, refusing, sweep>>

(* RUNNING.                                                                   *)
BeginUpload(s) ==
  /\ In(s, "begin")
  /\ Persist(s, "RUNNING")
  /\ To(s, IF Saved(s) THEN "upload" ELSE "exit")
  /\ UNCHANGED <<vars, refusing, sweep, fate>>

Upload(s) ==
  /\ In(s, "upload")
  /\ Tell(s, "delivered")
  /\ To(s, "save")
  /\ UNCHANGED <<vars, log, refusing, sweep>>

(* Whatever raises while the bundle is staged or uploaded ends the send FAILED,      *)
UploadFails(s) ==
  /\ In(s, "upload")
  /\ PersistFailed(s)
  /\ To(s, "exit")
  /\ UNCHANGED <<vars, refusing, sweep>>

(* also when the receiver has the bundle and its answer is lost.                  *)
AnswerLost(s) ==
  /\ In(s, "save")
  /\ Persist(s, "FAILED") /\ Excuse({s})
  /\ To(s, "exit")
  /\ UNCHANGED <<vars, refusing, sweep>>

SaveSuccess(s) ==
  /\ In(s, "save")
  /\ Persist(s, "SUCCESS")
  /\ To(s, "exit")
  /\ UNCHANGED <<vars, refusing, sweep, fate>>

(* A settings or incident read, or a write, the database refuses ends the task,      *)
Raise(s) ==
  /\ hand[s] \in Working
  /\ To(s, "exit")
  /\ Excuse(IF In(s, "save") THEN {s} ELSE {})
  /\ UNCHANGED <<vars, log, refusing, sweep>>

(* which runs task_postrun in every case, unless a crash or a force-disable kills it. *)
EndSend(s) ==
  /\ In(s, "exit") /\ End(s)
  /\ To(s, "no")
  /\ UNCHANGED <<log, refusing, sweep, fate>>

DieSending(s) ==
  /\ Die(s)
  /\ To(s, "no")
  /\ Excuse(IF In(s, "save") THEN {s} ELSE {})
  /\ UNCHANGED <<log, refusing, sweep>>

------------------------------------------------------------------------------
(* fail_stale_sends.                                                           *)

(* The task lists the stale rows: active, and without progress for stale_send_after,    *)
(* which any active row may have been,                                         *)
StartSweep ==
  /\ Start(Sweep) \/ StartUncounted(Sweep)
  /\ sweep' \in SUBSET {s \in Send : log[s] \in Active}
  /\ Excuse({s \in sweep' : hand[s] \in Working})
  /\ UNCHANGED <<log, hand, refusing>>

(* then fails each, whatever it is now; one that is gone raises and ends the sweep.  *)
FailStale(s) ==
  /\ s \in sweep
  /\ PersistFailed(s)
  /\ sweep' = IF Saved(s) THEN sweep \ {s} ELSE {}
  /\ UNCHANGED <<vars, hand, refusing>>

EndSweepEarly ==
  /\ End(Sweep)
  /\ UNCHANGED sendVars
EndSweep ==
  /\ sweep = {} /\ End(Sweep)
  /\ UNCHANGED sendVars

DieSweeping ==
  /\ Die(Sweep)
  /\ sweep' = {}
  /\ UNCHANGED <<log, hand, refusing, fate>>

------------------------------------------------------------------------------
SendNext ==
  \/ Manage /\ UNCHANGED sendVars
  \/ SendTask(Sweep) /\ UNCHANGED sendVars
  \/ StartSweep \/ EndSweep \/ DieSweeping
  \/ \E s \in Send :
       \/ Request(s) \/ Enqueue(s) \/ EnqueueFails(s) \/ Refuse(s) \/ DeleteIncident(s)
       \/ StartSend(s) \/ Load(s) \/ Unconfigured(s) \/ BeginUpload(s) \/ Upload(s)
       \/ UploadFails(s) \/ AnswerLost(s) \/ SaveSuccess(s) \/ Raise(s)
       \/ EndSend(s) \/ DieSending(s) \/ FailStale(s)

SendSpec == SendInit /\ [][SendNext]_allVars

------------------------------------------------------------------------------
(* Properties.                                                                *)

SendTypeOK ==
  /\ TypeOK
  /\ log \in [Send -> Active \cup Terminal \cup {"none", "gone"}]
  /\ hand \in [Send -> HandStep] /\ fate \in [Send -> Fate]
  /\ refusing \subseteq Send
  /\ sweep \subseteq Send /\ (sweep # {} => Running(Sweep))

(* A bundle is not both delivered and reported as failed, in whichever order, except    *)
(* when its task was at work while the sweep or a refused request had the row to fail,  *)
(* or was lost, or lost the receiver's answer, after the upload: so an engineer who    *)
(* sends again after FAILED does not attach it to the case twice.                   *)
FailedMeansNotDelivered == \A s \in Send : fate[s] # "both"

(* With or without sends the app is AppDrain's.                                  *)
IsAppDrain == Spec
==============================================================================
