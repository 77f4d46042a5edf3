----------------------------- MODULE AtwSendProofs -----------------------------
(***************************************************************************)
(* AtwSend implements AppDrain, and its sends tell the engineer the truth, for any     *)
(* number of sends, admins, requests and faults.                                  *)
(***************************************************************************)
EXTENDS AtwSend, AppDrainProofs

-------------------------------------------------------------------------------
(* Refinement: what a send does is a step of its task, or nothing AppDrain knows of.    *)

LEMMA SendTasks == Send \subseteq Task /\ Sweep \in Task /\ Sweep \notin Send
                   /\ Send \cap Periodic = {}
BY SendAssumption, TaskAssumption

LEMMA SendRefines == [SendNext]_allVars => [Next]_vars
<1> SUFFICES ASSUME [SendNext]_allVars PROVE Next \/ UNCHANGED vars
  OBVIOUS
<1>1. CASE Manage
  BY <1>1 DEF Next
<1>2. CASE SendTask(Sweep) \/ StartSweep \/ EndSweep \/ DieSweeping
  BY <1>2, SendTasks DEF StartSweep, EndSweep, DieSweeping, Next
<1>3. ASSUME NEW s \in Send,
             Enqueue(s) \/ EnqueueFails(s) \/ StartSend(s) \/ EndSend(s) \/ DieSending(s)
      PROVE  Next \/ UNCHANGED vars
  BY <1>3, SendTasks DEF Enqueue, EnqueueFails, StartSend, EndSend, DieSending, Next
<1>4. ASSUME NEW s \in Send,
             \/ Request(s) \/ Refuse(s) \/ DeleteIncident(s) \/ Load(s) \/ Unconfigured(s)
             \/ BeginUpload(s) \/ Upload(s) \/ UploadFails(s) \/ AnswerLost(s)
             \/ SaveSuccess(s) \/ Raise(s) \/ FailStale(s)
      PROVE  UNCHANGED vars
  BY <1>4 DEF Request, Refuse, DeleteIncident, Load, Proceed, LeaveAlone, Unconfigured,
              BeginUpload, Upload, UploadFails, AnswerLost, SaveSuccess, Raise, FailStale
<1>5. CASE UNCHANGED allVars
  BY <1>5 DEF allVars
<1> QED BY <1>1, <1>2, <1>3, <1>4, <1>5 DEF SendNext

(* The app with its sends behaves as AppDrain says.                              *)
THEOREM SendImplementsDrain == SendSpec => IsAppDrain
<1>1. SendInit => Init
  BY DEF SendInit
<1> QED BY <1>1, SendRefines, PTL DEF SendSpec, Spec, IsAppDrain

-------------------------------------------------------------------------------
(* Types.                                                                     *)

SendTyped == Typed /\ SendTypeOK

LEMMA SendTypeInit == SendInit => SendTyped
<1> SUFFICES ASSUME SendInit PROVE SendTyped
  OBVIOUS
<1>1. Typed
  BY TypeInit DEF SendInit
<1> QED BY <1>1 DEF SendInit, SendTyped, Typed, SendTypeOK, HandStep, Fate

(* What every step may do to a send's row, hand and fate.                          *)
LEMMA FateMoves ==
  ASSUME SendTypeOK
  PROVE  /\ \A s \in Send, news \in {"delivered", "reported"} :
              Tell(s, news) =>
                /\ fate' \in [Send -> Fate]
                /\ fate'[s] = (IF fate[s] \in {"open", news} THEN news
                               ELSE IF fate[s] = "excused" THEN "excused" ELSE "both")
                /\ \A r \in Send \ {s} : fate'[r] = fate[r]
         /\ \A S : Excuse(S) =>
                /\ fate' \in [Send -> Fate]
                /\ \A r \in Send : fate'[r] = (IF r \in S THEN "excused" ELSE fate[r])
<1>1. ASSUME NEW s \in Send, NEW news \in {"delivered", "reported"}, Tell(s, news)
      PROVE  /\ fate' \in [Send -> Fate]
             /\ fate'[s] = (IF fate[s] \in {"open", news} THEN news
                            ELSE IF fate[s] = "excused" THEN "excused" ELSE "both")
             /\ \A r \in Send \ {s} : fate'[r] = fate[r]
  <2> DEFINE f == CASE fate[s] \in {"open", news} -> news
                    [] fate[s] = "excused" -> "excused"
                    [] OTHER -> "both"
  <2>1. fate \in [Send -> Fate] /\ fate' = [fate EXCEPT ![s] = f]
    BY <1>1 DEF Tell, SendTypeOK
  <2>2. CASE fate[s] \in {"open", news}
    <3>1. fate[s] # "excused"
      BY <2>2
    <3>2. f = news
      BY <2>2, <3>1
    <3> QED BY <2>1, <2>2, <3>2 DEF Fate
  <2>3. CASE fate[s] = "excused"
    <3>1. f = "excused"
      BY <2>3
    <3> QED BY <2>1, <2>3, <3>1 DEF Fate
  <2>4. CASE fate[s] \notin {"open", news, "excused"}
    <3>1. f = "both"
      BY <2>4
    <3> QED BY <2>1, <2>4, <3>1 DEF Fate
  <2> QED BY <2>2, <2>3, <2>4
<1>2. ASSUME NEW S, Excuse(S)
      PROVE  /\ fate' \in [Send -> Fate]
             /\ \A r \in Send : fate'[r] = (IF r \in S THEN "excused" ELSE fate[r])
  BY <1>2 DEF Excuse, SendTypeOK, Fate
<1> QED BY <1>1, <1>2

LEMMA RowMoves ==
  ASSUME SendTypeOK, NEW s \in Send, NEW status \in Active \cup Terminal, Persist(s, status)
  PROVE  /\ log' \in [Send -> Active \cup Terminal \cup {"none", "gone"}]
         /\ log'[s] = (IF Saved(s) THEN status ELSE log[s])
         /\ \A r \in Send \ {s} : log'[r] = log[r]
BY DEF Persist, SendTypeOK

LEMMA HandMoves ==
  ASSUME SendTypeOK, NEW s \in Send, NEW step \in HandStep, To(s, step)
  PROVE  /\ hand' \in [Send -> HandStep]
         /\ hand'[s] = step
         /\ \A r \in Send \ {s} : hand'[r] = hand[r]
BY DEF To, SendTypeOK

(* A FAILED row that is saved has been reported.                                  *)
LEMMA FailedMoves ==
  ASSUME SendTypeOK, NEW s \in Send, PersistFailed(s)
  PROVE  /\ fate' \in [Send -> Fate]
         /\ Persist(s, "FAILED")
         /\ \/ Saved(s) /\ Tell(s, "reported")
            \/ ~Saved(s) /\ fate' = fate
BY FateMoves DEF PersistFailed, SendTypeOK

(* What the steps of AppDrain do to the tasks.                                    *)
LEMMA TasksMove ==
  ASSUME TypeOK, NEW t \in Task,
         SendTask(t) \/ Start(t) \/ StartUncounted(t) \/ End(t) \/ Die(t)
  PROVE  /\ \A r \in Task \ {t} : task'[r] = task[r]
         /\ SendTask(t) => (task[t] = "none" \/ t \in Periodic) /\ task'[t] = "queued"
         /\ Start(t) \/ StartUncounted(t) => task[t] = "queued" /\ task'[t] = "running"
         /\ End(t) \/ Die(t) => Running(t) /\ task'[t] = "over"
BY DEF TypeOK, SendTask, Start, StartUncounted, End, Die, Over, Running

LEMMA TasksStay == Manage \/ UNCHANGED vars => task' = task
BY DEF Manage, Ask, Restart, AskForce, Begin, Handle, Write, Refresh, GateRead, GateWrite,
       Delete, ForceDisable, HandlerDies, Finalize, Count, Flip, DriverDies, Reconcile,
       vars, taskVars

(* The sweep that still has rows to fail is running.                               *)
LEMMA SweepRuns ==
  ASSUME SendTyped, [SendNext]_allVars
  PROVE  sweep' # {} => Running(Sweep)'
<1>1. TypeOK /\ SendTypeOK /\ Sweep \in Task
  BY SendTasks DEF SendTyped, SendTypeOK
<1>2. CASE (Manage \/ UNCHANGED vars) /\ sweep' = sweep
  BY <1>1, <1>2, TasksStay DEF SendTypeOK, Running
<1>3. CASE SendTask(Sweep) /\ UNCHANGED sendVars
  <2>1. ~Running(Sweep)
    BY <1>3 DEF SendTask, Running
  <2> QED BY <1>1, <1>3, <2>1 DEF SendTypeOK, sendVars
<1>4. CASE StartSweep
  BY <1>1, <1>4, TasksMove DEF StartSweep, Running
<1>5. CASE EndSweep \/ DieSweeping
  BY <1>5 DEF EndSweep, DieSweeping, sendVars
<1>6. ASSUME NEW s \in Send, sweep' \subseteq sweep,
             \/ UNCHANGED vars
             \/ SendTask(s) \/ Start(s) \/ StartUncounted(s) \/ End(s) \/ Die(s)
      PROVE  sweep' # {} => Running(Sweep)'
  <2>1. task'[Sweep] = task[Sweep]
    BY <1>1, <1>6, TasksMove, TasksStay, SendTasks
  <2> QED BY <1>1, <1>6, <2>1 DEF SendTypeOK, Running
<1>7. ASSUME NEW s \in Send,
             \/ Request(s) \/ Enqueue(s) \/ EnqueueFails(s) \/ Refuse(s) \/ DeleteIncident(s)
             \/ StartSend(s) \/ Load(s) \/ Unconfigured(s) \/ BeginUpload(s) \/ Upload(s)
             \/ UploadFails(s) \/ AnswerLost(s) \/ SaveSuccess(s) \/ Raise(s)
             \/ EndSend(s) \/ DieSending(s) \/ FailStale(s)
      PROVE  /\ sweep' \subseteq sweep
             /\ \/ UNCHANGED vars
                \/ SendTask(s) \/ Start(s) \/ StartUncounted(s) \/ End(s) \/ Die(s)
  BY <1>7 DEF Request, Enqueue, EnqueueFails, Refuse, DeleteIncident, StartSend, Load, Proceed,
         LeaveAlone, Unconfigured, BeginUpload, Upload, UploadFails, AnswerLost,
         SaveSuccess, Raise, EndSend, DieSending, FailStale
<1> QED BY <1>2, <1>3, <1>4, <1>5, <1>6, <1>7 DEF SendNext, allVars, sendVars

LEMMA SendTypeStep == SendTyped /\ [SendNext]_allVars => SendTyped'
<1> SUFFICES ASSUME SendTyped, [SendNext]_allVars PROVE SendTyped'
  OBVIOUS
<1> USE DEF SendTyped
<1>0. Typed'
  BY SendRefines, TypeStep
<1>1. TypeOK' /\ (sweep' # {} => Running(Sweep)')
  BY <1>0, SweepRuns DEF Typed
<1>2. CASE UNCHANGED sendVars
  BY <1>0, <1>1, <1>2 DEF sendVars, SendTypeOK
<1>3. CASE StartSweep
  BY <1>0, <1>1, <1>3, FateMoves DEF StartSweep, SendTypeOK
<1>4. CASE DieSweeping
  BY <1>0, <1>1, <1>4 DEF DieSweeping, SendTypeOK
<1>5. ASSUME NEW s \in Send,
             Request(s) \/ Enqueue(s) \/ EnqueueFails(s) \/ DeleteIncident(s)
      PROVE  SendTypeOK'
  <2>1. CASE Request(s)
    BY <1>1, <2>1, HandMoves DEF Request, SendTypeOK, HandStep, Active
  <2>2. CASE Enqueue(s) \/ EnqueueFails(s)
    BY <1>1, <2>2, HandMoves DEF Enqueue, EnqueueFails, SendTypeOK, HandStep
  <2>3. CASE DeleteIncident(s)
    BY <1>1, <2>3 DEF DeleteIncident, SendTypeOK
  <2> QED BY <1>5, <2>1, <2>2, <2>3
<1>6. ASSUME NEW s \in Send, Refuse(s) \/ FailStale(s) PROVE SendTypeOK'
  <2>1. /\ fate' \in [Send -> Fate] /\ Persist(s, "FAILED")
        /\ hand' = hand
    BY <1>6, FailedMoves DEF Refuse, FailStale
  <2>2. refusing' \subseteq Send /\ sweep' \subseteq Send
    BY <1>6 DEF Refuse, FailStale, SendTypeOK
  <2> QED BY <1>1, <2>1, <2>2, RowMoves DEF SendTypeOK, Terminal
<1>7. ASSUME NEW s \in Send,
             \/ StartSend(s) \/ Proceed(s) \/ LeaveAlone(s) \/ Upload(s) \/ Raise(s)
             \/ EndSend(s) \/ DieSending(s)
      PROVE  SendTypeOK'
  <2>1. fate' \in [Send -> Fate]
    BY <1>7, FateMoves DEF StartSend, Proceed, LeaveAlone, Upload, Raise, EndSend, DieSending,
                           SendTypeOK
  <2>2. /\ hand' \in [Send -> HandStep]
        /\ UNCHANGED <<log, refusing, sweep>>
    BY <1>7, HandMoves DEF StartSend, Proceed, LeaveAlone, Upload, Raise, EndSend, DieSending,
                           HandStep
  <2> QED BY <1>1, <2>1, <2>2 DEF SendTypeOK
<1>8. ASSUME NEW s \in Send, Unconfigured(s) \/ UploadFails(s) PROVE SendTypeOK'
  <2>1. fate' \in [Send -> Fate] /\ Persist(s, "FAILED")
    BY <1>8, FailedMoves DEF Unconfigured, UploadFails
  <2>2. hand' \in [Send -> HandStep] /\ UNCHANGED <<refusing, sweep>>
    BY <1>8, HandMoves DEF Unconfigured, UploadFails, HandStep
  <2> QED BY <1>1, <2>1, <2>2, RowMoves DEF SendTypeOK, Terminal
<1>9. ASSUME NEW s \in Send, BeginUpload(s) \/ AnswerLost(s) \/ SaveSuccess(s)
      PROVE  SendTypeOK'
  <2>1. fate' \in [Send -> Fate]
    BY <1>9, FateMoves DEF BeginUpload, AnswerLost, SaveSuccess, SendTypeOK
  <2>2. hand' \in [Send -> HandStep] /\ UNCHANGED <<refusing, sweep>>
    BY <1>9, HandMoves DEF BeginUpload, AnswerLost, SaveSuccess, HandStep
  <2>3. \E status \in Active \cup Terminal : Persist(s, status)
    BY <1>9 DEF BeginUpload, AnswerLost, SaveSuccess, Active, Terminal
  <2> QED BY <1>1, <2>1, <2>2, <2>3, RowMoves DEF SendTypeOK
<1> QED BY <1>0, <1>2, <1>3, <1>4, <1>5, <1>6, <1>7, <1>8, <1>9
        DEF SendNext, allVars, EndSweep, Load

(* Every state is well typed.                                                   *)
THEOREM SendTypeCorrect == SendSpec => []SendTypeOK
<1>1. SendTyped => SendTypeOK
  BY DEF SendTyped
<1> QED BY <1>1, SendTypeInit, SendTypeStep, PTL DEF SendSpec

-------------------------------------------------------------------------------
(* What a send has told, by where it is.  At work its bundle is out only before the     *)
(* last save, and whoever has its row to fail finds it excused; a delivered send is   *)
(* before that save or has no active row, a reported one has no active row.           *)

AtWork == Working \cup {"load", "exit"}
Failing(s) == s \in sweep \cup refusing
Told(s) ==
  /\ fate[s] # "both"
  /\ hand[s] \in AtWork => Running(s)
  /\ hand[s] \in {"begin", "upload"} => fate[s] \in {"open", "excused"}
  /\ hand[s] = "save" => fate[s] \in {"delivered", "excused"}
  /\ log[s] = "none" =>
       fate[s] = "open" /\ hand[s] = "no" /\ task[s] = "none" /\ ~Failing(s)
  /\ hand[s] = "enqueue" => fate[s] # "delivered"
  /\ Failing(s) => fate[s] # "delivered" /\ (hand[s] \in Working => fate[s] = "excused")
  /\ fate[s] = "delivered" => hand[s] = "save" \/ log[s] \notin Active
  /\ fate[s] = "reported" => log[s] \notin Active
AllTold == \A s \in Send : Told(s)

LEMMA ToldInit == SendInit => AllTold
BY SendTasks DEF SendInit, Init, AllTold, Told, AtWork, Working, Failing

(* A send keeps its word while only others move.                                  *)
LEMMA ToldKept ==
  ASSUME NEW s \in Send, Told(s),
         fate'[s] = fate[s], hand'[s] = hand[s], log'[s] = log[s],
         task'[s] = task[s], Failing(s)' => Failing(s)
  PROVE  Told(s)'
BY DEF Told, Running

(* The sweep's own steps.  It lists active rows only.                              *)
LEMMA ToldSweep ==
  ASSUME SendTyped, AllTold,
         \/ Manage /\ UNCHANGED sendVars
         \/ SendTask(Sweep) /\ UNCHANGED sendVars
         \/ StartSweep \/ EndSweep \/ DieSweeping
  PROVE  AllTold'
<1> SUFFICES ASSUME NEW s \in Send PROVE Told(s)'
  BY DEF AllTold
<1>1. Told(s) /\ SendTypeOK /\ TypeOK
  BY DEF AllTold, SendTyped, SendTypeOK
<1>2. task'[s] = task[s]
  BY <1>1, TasksStay, TasksMove, SendTasks DEF StartSweep, EndSweep, DieSweeping
<1>3. CASE StartSweep
  <2>1. /\ fate'[s] = (IF s \in sweep' /\ hand[s] \in Working THEN "excused" ELSE fate[s])
        /\ UNCHANGED <<log, hand, refusing>>
    BY <1>1, <1>3, FateMoves DEF StartSweep
  <2>2. s \in sweep' => log[s] \in Active
    BY <1>3 DEF StartSweep
  <2>3. Working \subseteq AtWork /\ "save" \in Working /\ "enqueue" \notin Working
        /\ "none" \notin Active
    BY DEF Working, AtWork, Active
  <2> QED BY <1>1, <1>2, <2>1, <2>2, <2>3 DEF Told, Failing, Running
<1>4. CASE UNCHANGED sendVars \/ DieSweeping
  BY <1>1, <1>2, <1>4, ToldKept DEF sendVars, DieSweeping, Failing
<1> QED BY <1>3, <1>4 DEF EndSweep

(* The request's steps.                                                        *)
LEMMA ToldRequest ==
  ASSUME SendTypeOK, NEW s \in Send, Told(s),
         Request(s) \/ Enqueue(s) \/ EnqueueFails(s) \/ Refuse(s) \/ DeleteIncident(s)
  PROVE  Told(s)'
<1> USE DEF Told, Failing, Running
<1>0. TypeOK /\ s \in Task /\ s \notin Periodic
  BY SendTasks DEF SendTypeOK
<1>1. CASE Request(s)
  <2>1. /\ log[s] = "none" /\ log'[s] = "PENDING" /\ hand'[s] = "enqueue"
        /\ UNCHANGED <<task, fate, refusing, sweep>>
    BY <1>1, HandMoves DEF Request, vars, taskVars, HandStep, SendTypeOK
  <2> QED BY <2>1 DEF AtWork, Working
<1>2. CASE Enqueue(s) \/ EnqueueFails(s)
  <2>1. /\ hand[s] = "enqueue" /\ hand'[s] = "no"
        /\ UNCHANGED <<log, fate, sweep>> /\ refusing' \subseteq refusing \cup {s}
    BY <1>2, HandMoves DEF Enqueue, EnqueueFails, HandStep, In
  <2> QED BY <2>1 DEF AtWork, Working
<1>3. CASE Refuse(s)
  <2>1. /\ s \in refusing /\ UNCHANGED <<hand, task, sweep>>
        /\ refusing' = refusing \ {s}
        /\ log'[s] = (IF Saved(s) THEN "FAILED" ELSE log[s])
    BY <1>3, FailedMoves, RowMoves DEF Refuse, Terminal, vars, taskVars
  <2>2. \/ Saved(s) /\ fate'[s] = (IF fate[s] \in {"open", "reported"} THEN "reported"
                                   ELSE IF fate[s] = "excused" THEN "excused" ELSE "both")
        \/ ~Saved(s) /\ fate' = fate
    BY <1>3, FailedMoves, FateMoves DEF Refuse
  <2>3. fate[s] \in Fate
    BY DEF SendTypeOK
  <2> QED BY <2>1, <2>2, <2>3 DEF Fate, AtWork, Working, Active, Saved
<1>4. CASE DeleteIncident(s)
  <2>1. /\ log[s] # "none" /\ log'[s] = "gone"
        /\ UNCHANGED <<task, hand, fate, refusing, sweep>>
    BY <1>4 DEF DeleteIncident, Saved, vars, taskVars, SendTypeOK
  <2> QED BY <2>1 DEF Active
<1> QED BY <1>1, <1>2, <1>3, <1>4

(* The task's steps.                                                           *)
LEMMA ToldTask ==
  ASSUME SendTypeOK, NEW s \in Send, Told(s),
         \/ StartSend(s) \/ Load(s) \/ Unconfigured(s) \/ BeginUpload(s) \/ Upload(s)
         \/ UploadFails(s) \/ AnswerLost(s) \/ SaveSuccess(s) \/ Raise(s)
         \/ EndSend(s) \/ DieSending(s)
  PROVE  Told(s)'
<1> USE DEF Told, Failing, Running
<1>0. TypeOK /\ s \in Task /\ fate[s] \in Fate
  BY SendTasks DEF SendTypeOK
<1>1. CASE StartSend(s)
  <2>1. task[s] = "queued" /\ task'[s] = "running"
    BY <1>0, <1>1, TasksMove DEF StartSend
  <2>2. hand'[s] = "load" /\ UNCHANGED <<log, fate, refusing, sweep>>
    BY <1>1, HandMoves DEF StartSend, HandStep
  <2> QED BY <2>1, <2>2 DEF AtWork, Working
<1>2. CASE Load(s) /\ log[s] \in Active
  <2>1. /\ hand[s] = "load" /\ hand'[s] = "begin"
        /\ UNCHANGED <<task, log, refusing, sweep>>
        /\ fate'[s] = (IF Failing(s) THEN "excused" ELSE fate[s])
    BY <1>2, HandMoves, FateMoves DEF Load, Proceed, HandStep, In, vars, taskVars
  <2> QED BY <1>0, <1>2, <2>1 DEF AtWork, Working, Fate
<1>3. CASE Load(s) /\ log[s] \notin Active
  <2>1. /\ hand[s] = "load" /\ hand'[s] = "exit"
        /\ UNCHANGED <<task, log, fate, refusing, sweep>>
    BY <1>3, HandMoves DEF Load, LeaveAlone, HandStep, In, vars, taskVars
  <2> QED BY <2>1 DEF AtWork, Working
<1>4. CASE Unconfigured(s) \/ UploadFails(s)
  <2>1. /\ hand[s] \in {"begin", "upload"} /\ hand'[s] = "exit"
        /\ UNCHANGED <<task, refusing, sweep>>
        /\ log'[s] = (IF Saved(s) THEN "FAILED" ELSE log[s])
    BY <1>4, HandMoves, FailedMoves, RowMoves
       DEF Unconfigured, UploadFails, HandStep, In, Terminal, vars, taskVars
  <2>2. \/ Saved(s) /\ fate'[s] = (IF fate[s] \in {"open", "reported"} THEN "reported"
                                   ELSE IF fate[s] = "excused" THEN "excused" ELSE "both")
        \/ ~Saved(s) /\ fate' = fate
    BY <1>4, FailedMoves, FateMoves DEF Unconfigured, UploadFails
  <2> QED BY <2>1, <2>2 DEF AtWork, Working, Active, Saved
<1>5. CASE BeginUpload(s)
  <2>1. /\ hand[s] = "begin" /\ hand'[s] = (IF Saved(s) THEN "upload" ELSE "exit")
        /\ UNCHANGED <<task, fate, refusing, sweep>>
        /\ log'[s] = (IF Saved(s) THEN "RUNNING" ELSE log[s])
    BY <1>5, HandMoves, RowMoves DEF BeginUpload, HandStep, In, Active, vars, taskVars
  <2> QED BY <2>1 DEF AtWork, Working, Active, Saved
<1>6. CASE Upload(s)
  <2>1. /\ hand[s] = "upload" /\ hand'[s] = "save"
        /\ UNCHANGED <<task, log, refusing, sweep>>
        /\ fate'[s] = (IF fate[s] \in {"open", "delivered"} THEN "delivered"
                       ELSE IF fate[s] = "excused" THEN "excused" ELSE "both")
    BY <1>6, HandMoves, FateMoves DEF Upload, HandStep, In, vars, taskVars
  <2> QED BY <2>1 DEF AtWork, Working
<1>7. CASE AnswerLost(s)
  <2>1. /\ hand[s] = "save" /\ hand'[s] = "exit" /\ fate'[s] = "excused"
        /\ UNCHANGED <<task, refusing, sweep>>
        /\ log'[s] = (IF Saved(s) THEN "FAILED" ELSE log[s])
    BY <1>7, HandMoves, FateMoves, RowMoves
       DEF AnswerLost, HandStep, In, Terminal, vars, taskVars
  <2> QED BY <2>1 DEF AtWork, Working
<1>8. CASE SaveSuccess(s)
  <2>1. /\ hand[s] = "save" /\ hand'[s] = "exit"
        /\ UNCHANGED <<task, fate, refusing, sweep>>
        /\ log'[s] = (IF Saved(s) THEN "SUCCESS" ELSE log[s])
    BY <1>8, HandMoves, RowMoves DEF SaveSuccess, HandStep, In, Terminal, vars, taskVars
  <2> QED BY <2>1 DEF AtWork, Working, Active, Saved
<1>9. CASE Raise(s) \/ EndSend(s) \/ DieSending(s)
  <2>1. /\ Raise(s) => hand[s] \in Working /\ hand'[s] = "exit" /\ task' = task
        /\ EndSend(s) => hand[s] = "exit"
        /\ EndSend(s) \/ DieSending(s) => hand'[s] = "no" /\ Running(s)
    BY <1>0, <1>9, HandMoves, TasksMove
       DEF Raise, EndSend, DieSending, HandStep, In, vars, taskVars
  <2>2. /\ UNCHANGED <<log, refusing, sweep>>
        /\ fate'[s] = (IF hand[s] = "save" THEN "excused" ELSE fate[s])
    BY <1>9, <2>1, FateMoves DEF Raise, EndSend, DieSending, In
  <2> QED BY <1>9, <2>1, <2>2 DEF AtWork, Working
<1> QED BY <1>1, <1>2, <1>3, <1>4, <1>5, <1>6, <1>7, <1>8, <1>9

(* The sweep's hold on a send.                                                   *)
LEMMA ToldStale ==
  ASSUME SendTypeOK, NEW s \in Send, Told(s), FailStale(s)
  PROVE  Told(s)'
<1> USE DEF Told, Failing, Running
<1>1. /\ s \in sweep /\ UNCHANGED <<hand, task, refusing>> /\ sweep' \subseteq sweep
      /\ log'[s] = (IF Saved(s) THEN "FAILED" ELSE log[s])
  BY FailedMoves, RowMoves DEF FailStale, Terminal, vars, taskVars
<1>2. \/ Saved(s) /\ fate'[s] = (IF fate[s] \in {"open", "reported"} THEN "reported"
                                 ELSE IF fate[s] = "excused" THEN "excused" ELSE "both")
      \/ ~Saved(s) /\ fate' = fate
  BY FailedMoves, FateMoves DEF FailStale
<1>3. fate[s] \in Fate
  BY DEF SendTypeOK
<1> QED BY <1>1, <1>2, <1>3 DEF Fate, AtWork, Working, Active, Saved

(* A step of one send leaves the others alone.                                    *)
LEMMA ToldOthers ==
  ASSUME SendTypeOK, NEW s \in Send, NEW r \in Send \ {s}, Told(r),
         \/ Request(s) \/ Enqueue(s) \/ EnqueueFails(s) \/ Refuse(s) \/ DeleteIncident(s)
         \/ StartSend(s) \/ Load(s) \/ Unconfigured(s) \/ BeginUpload(s) \/ Upload(s)
         \/ UploadFails(s) \/ AnswerLost(s) \/ SaveSuccess(s) \/ Raise(s)
         \/ EndSend(s) \/ DieSending(s) \/ FailStale(s)
  PROVE  Told(r)'
<1>1. TypeOK /\ r \in Task /\ s \in Task
  BY SendTasks DEF SendTypeOK
<1>2. task'[r] = task[r]
  <2>1. \/ UNCHANGED vars
        \/ SendTask(s) \/ Start(s) \/ StartUncounted(s) \/ End(s) \/ Die(s)
    BY DEF Request, Enqueue, EnqueueFails, Refuse, DeleteIncident, StartSend, Load, Proceed,
           LeaveAlone, Unconfigured, BeginUpload, Upload, UploadFails, AnswerLost,
           SaveSuccess, Raise, EndSend, DieSending, FailStale
  <2> QED BY <1>1, <2>1, TasksStay, TasksMove
<1>3. hand'[r] = hand[r]
  <2>1. hand' = hand \/ \E step \in HandStep : To(s, step)
    BY DEF Request, Enqueue, EnqueueFails, Refuse, DeleteIncident, StartSend, Load, Proceed,
           LeaveAlone, Unconfigured, BeginUpload, Upload, UploadFails, AnswerLost,
           SaveSuccess, Raise, EndSend, DieSending, FailStale, HandStep
  <2> QED BY <2>1, HandMoves
<1>4. log'[r] = log[r]
  <2>1. log' = log \/ \E status \in Active \cup Terminal \cup {"gone"} :
                         log' = [log EXCEPT ![s] = status]
    BY DEF Request, Enqueue, EnqueueFails, Refuse, DeleteIncident, StartSend, Load, Proceed,
           LeaveAlone, Unconfigured, BeginUpload, Upload, UploadFails, AnswerLost,
           SaveSuccess, Raise, EndSend, DieSending, FailStale, Persist,
           PersistFailed, Active, Terminal
  <2> QED BY <2>1 DEF SendTypeOK
<1>5. fate'[r] = fate[r]
  <2>1. \/ fate' = fate \/ Tell(s, "delivered") \/ Tell(s, "reported")
        \/ \E S \in SUBSET {s} : Excuse(S)
    BY DEF Request, Enqueue, EnqueueFails, Refuse, DeleteIncident, StartSend, Load, Proceed,
           LeaveAlone, Unconfigured, BeginUpload, Upload, UploadFails, AnswerLost,
           SaveSuccess, Raise, EndSend, DieSending, FailStale, PersistFailed
  <2> QED BY <2>1, FateMoves
<1>6. Failing(r)' => Failing(r)
  BY DEF Failing, Request, Enqueue, EnqueueFails, Refuse, DeleteIncident, StartSend, Load,
         Proceed, LeaveAlone, Unconfigured, BeginUpload, Upload, UploadFails, AnswerLost,
         SaveSuccess, Raise, EndSend, DieSending, FailStale
<1> QED BY <1>2, <1>3, <1>4, <1>5, <1>6, ToldKept

LEMMA ToldStep == SendTyped /\ AllTold /\ [SendNext]_allVars => AllTold'
<1> SUFFICES ASSUME SendTyped, AllTold, [SendNext]_allVars PROVE AllTold'
  OBVIOUS
<1>0. SendTypeOK
  BY DEF SendTyped
<1>1. CASE \/ Manage /\ UNCHANGED sendVars
           \/ SendTask(Sweep) /\ UNCHANGED sendVars
           \/ StartSweep \/ EndSweep \/ DieSweeping
  BY <1>1, ToldSweep
<1>2. ASSUME NEW s \in Send,
             \/ Request(s) \/ Enqueue(s) \/ EnqueueFails(s) \/ Refuse(s) \/ DeleteIncident(s)
             \/ StartSend(s) \/ Load(s) \/ Unconfigured(s) \/ BeginUpload(s) \/ Upload(s)
             \/ UploadFails(s) \/ AnswerLost(s) \/ SaveSuccess(s) \/ Raise(s)
             \/ EndSend(s) \/ DieSending(s) \/ FailStale(s),
             NEW r \in Send
      PROVE  Told(r)'
  <2>1. Told(s) /\ Told(r)
    BY DEF AllTold
  <2>2. CASE r = s
    BY <1>0, <1>2, <2>1, <2>2, ToldRequest, ToldTask, ToldStale
  <2>3. CASE r # s
    BY <1>0, <1>2, <2>1, <2>3, ToldOthers
  <2> QED BY <2>2, <2>3
<1>3. CASE UNCHANGED allVars
  BY <1>3, TasksStay, ToldKept DEF allVars, sendVars, AllTold, Failing
<1> QED BY <1>1, <1>2, <1>3 DEF SendNext, AllTold

(* A bundle is not both delivered and reported as failed, but for the excused cases.     *)
THEOREM FailureIsHonest == SendSpec => []FailedMeansNotDelivered
<1>1. AllTold => FailedMeansNotDelivered
  BY DEF AllTold, Told, FailedMeansNotDelivered
<1> QED BY <1>1, SendTypeInit, SendTypeStep, ToldInit, ToldStep, PTL DEF SendSpec
==============================================================================
