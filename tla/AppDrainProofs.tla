---------------------------- MODULE AppDrainProofs -----------------------------
(***************************************************************************)
(* The safety of AppDrain, for any number of tasks, of admins, of requests and    *)
(* of faults.                                                                  *)
(***************************************************************************)
EXTENDS AppDrain, TLAPS

-------------------------------------------------------------------------------
(* How the handlers and the finalizers move.                                   *)

Handler == [step : AdminStep, target : State \cup {"none"}, seen : State, drains : BOOLEAN]
Finalizer == [step : {"no", "count", "flip"}, cycle : Nat]

(* A request writes a legal target.                                            *)
Typed == TypeOK /\ \A a \in Admin : At(a, "write") => admin[a].target \in State

LEMMA Drivers == Task \subseteq Driver /\ Admin \subseteq Driver /\ Reconciler \in Driver
BY DEF Driver

(* A finalizer starts with a count, and leaves with none.                        *)
LEMMA EnterMoves ==
  ASSUME TypeOK, NEW x \in Driver, Enter(x)
  PROVE  /\ drain' \in [Driver -> Finalizer]
         /\ drain'[x].step = "count"
         /\ \A y \in Driver \ {x} : drain'[y] = drain[y]
BY DEF Enter, TypeOK, Finalizer

LEMMA LeaveMoves ==
  ASSUME TypeOK, NEW x \in Driver, Leave(x)
  PROVE  /\ drain' \in [Driver -> Finalizer]
         /\ drain'[x].step = "no"
         /\ \A y \in Driver \ {x} : drain'[y] = drain[y]
BY DEF Leave, NoDrain, TypeOK, Finalizer

LEMMA CountMoves ==
  ASSUME TypeOK, NEW x \in Driver, Counted(x)
  PROVE  /\ drain' \in [Driver -> Finalizer]
         /\ drain'[x].step = "flip" /\ drain'[x].cycle = cycle
         /\ \A y \in Driver \ {x} : drain'[y] = drain[y]
BY DEF Counted, TypeOK, Finalizer

(* What each step makes of the handler that takes it.                            *)
LEMMA HandlerMoves ==
  ASSUME TypeOK, NEW a \in Admin, NEW h \in Handler, admin' = [admin EXCEPT ![a] = h]
  PROVE  /\ admin' \in [Admin -> Handler]
         /\ admin'[a] = h
         /\ \A b \in Admin \ {a} : admin'[b] = admin[b]
BY DEF TypeOK, Handler

LEMMA NoAdminType == NoAdmin \in Handler /\ NoAdmin.step = "idle"
BY DEF NoAdmin, Handler, AdminStep, State

LEMMA StepMoves ==
  ASSUME TypeOK, NEW a \in Admin, NEW s \in AdminStep, GoTo(a, s)
  PROVE  /\ admin' = [admin EXCEPT ![a] = [admin[a] EXCEPT !.step = s]]
         /\ [admin[a] EXCEPT !.step = s] \in Handler
BY DEF GoTo, TypeOK, Handler

-------------------------------------------------------------------------------
(* Types.                                                                     *)

LEMMA TypeInit == Init => Typed
<1> SUFFICES ASSUME Init PROVE Typed
  OBVIOUS
<1>1. drain \in [Driver -> Finalizer]
  BY DEF Init, NoDrain, Finalizer
<1>2. admin \in [Admin -> Handler] /\ \A a \in Admin : ~At(a, "write")
  BY NoAdminType DEF Init, At
<1> QED BY <1>1, <1>2 DEF Init, Typed, TypeOK, State, Finalizer, Handler

LEMMA TypeTasks ==
  ASSUME TypeOK, NEW t \in Task,
         SendTask(t) \/ Start(t) \/ StartUncounted(t) \/ End(t) \/ Die(t)
  PROVE  TypeOK' /\ UNCHANGED admin
<1> USE DEF TypeOK, adminVars
<1>1. CASE SendTask(t)
  BY <1>1 DEF SendTask
<1>2. CASE Start(t)
  BY <1>2 DEF Start
<1>3. CASE StartUncounted(t)
  BY <1>3 DEF StartUncounted
<1>4. CASE End(t)
  <2>1. drain' \in [Driver -> Finalizer]
    BY <1>4, Drivers, EnterMoves DEF End
  <2> QED BY <1>4, <2>1 DEF End, Over, Finalizer
<1>5. CASE Die(t)
  BY <1>5 DEF Die, Over
<1> QED BY <1>1, <1>2, <1>3, <1>4, <1>5

LEMMA TypeFinalizers ==
  ASSUME TypeOK, \/ \E x \in Driver : Finalize(x) \/ DriverDies(x)
                 \/ Reconcile
  PROVE  TypeOK' /\ UNCHANGED admin
<1> USE DEF adminVars, taskVars
<1>1. ASSUME NEW x \in Driver, Count(x) PROVE TypeOK' /\ UNCHANGED admin
  <2>1. drain' \in [Driver -> Finalizer]
    BY <1>1, CountMoves, LeaveMoves DEF Count
  <2> QED BY <1>1, <2>1 DEF Count, TypeOK, Finalizer
<1>2. ASSUME NEW x \in Driver, Flip(x) PROVE TypeOK' /\ UNCHANGED admin
  BY <1>2, LeaveMoves DEF Flip, TypeOK, Finalizer, State
<1>3. ASSUME NEW x \in Driver, DriverDies(x) PROVE TypeOK' /\ UNCHANGED admin
  <2>1. drain' \in [Driver -> Finalizer]
    BY <1>3, LeaveMoves DEF DriverDies
  <2> QED BY <1>3, <2>1 DEF DriverDies, TypeOK, Finalizer
<1>4. CASE Reconcile
  <2>1. drain' \in [Driver -> Finalizer]
    BY <1>4, Drivers, EnterMoves DEF Reconcile
  <2> QED BY <1>4, <2>1 DEF Reconcile, TypeOK, Finalizer
<1> QED BY <1>1, <1>2, <1>3, <1>4 DEF Finalize

(* A request begins.                                                           *)
LEMMA BeginMoves ==
  ASSUME Typed, NEW a \in Admin, NEW step \in AdminStep, NEW target \in State \cup {"none"},
         step = "write" => target \in State, Begin(a, step, target)
  PROVE  /\ Typed'
         /\ admin'[a].step = step
         /\ \A b \in Admin \ {a} : admin'[b] = admin[b]
<1> DEFINE h == [NoAdmin EXCEPT !.step = step, !.target = target]
<1>1. h \in Handler /\ h.step = step /\ h.target = target
  BY DEF NoAdmin, Handler, State
<1>2. /\ admin' \in [Admin -> Handler] /\ admin'[a] = h
      /\ \A b \in Admin \ {a} : admin'[b] = admin[b]
  BY <1>1, HandlerMoves DEF Begin, Typed
<1>3. TypeOK'
  BY <1>2 DEF Begin, taskVars, Typed, TypeOK, Handler
<1> QED BY <1>1, <1>2, <1>3 DEF Typed, At

LEMMA TypeRequests ==
  ASSUME Typed, NEW a \in Admin,
         (\E target \in State : Ask(a, target)) \/ Restart(a) \/ AskForce(a)
  PROVE  Typed'
BY BeginMoves DEF Ask, Restart, AskForce, AdminStep, State

LEMMA TypeHandlers ==
  ASSUME Typed, NEW a \in Admin, Handle(a) \/ HandlerDies(a)
  PROVE  Typed'
<1> USE DEF Typed, taskVars, adminVars
<1>0. ASSUME NEW h \in Handler, h.step # "write", admin' = [admin EXCEPT ![a] = h]
      PROVE  /\ admin' \in [Admin -> Handler]
             /\ \A b \in Admin : At(b, "write")' => admin'[b].target \in State
  BY <1>0, HandlerMoves DEF At
<1>1. CASE Write(a)
  <2>1. admin[a].target \in State
    BY <1>1 DEF Write
  <2>2. [NoAdmin EXCEPT !.step = "refresh"] \in Handler
    BY DEF NoAdmin, Handler, AdminStep, State
  <2>3. [NoAdmin EXCEPT !.step = "refresh"].step # "write"
    BY DEF NoAdmin
  <2>4. /\ admin' \in [Admin -> Handler]
        /\ \A b \in Admin : At(b, "write")' => admin'[b].target \in State
    BY <1>1, <2>2, <2>3, <1>0 DEF Write
  <2>5. cycle' \in Nat /\ inflight' \subseteq Task
    BY <1>1 DEF Write, TypeOK
  <2> QED BY <1>1, <2>1, <2>4, <2>5 DEF Write, TypeOK, Handler
<1>2. CASE Refresh(a)
  <2> DEFINE h == [admin[a] EXCEPT !.step = "gateRead", !.drains = (state = "DISABLING")]
  <2>1. h \in Handler /\ h.step # "write"
    BY DEF TypeOK, Handler, AdminStep
  <2>2. admin' = [admin EXCEPT ![a] = h]
    BY <1>2 DEF Refresh, TypeOK
  <2>3. /\ admin' \in [Admin -> Handler]
        /\ \A b \in Admin : At(b, "write")' => admin'[b].target \in State
    BY <2>1, <2>2, <1>0
  <2> QED BY <1>2, <2>3 DEF Refresh, Enabled, TypeOK, Handler, State
<1>3. CASE GateRead(a)
  <2> DEFINE h == [admin[a] EXCEPT !.step = "gateWrite", !.seen = state]
  <2>1. h \in Handler /\ h.step # "write"
    BY DEF TypeOK, Handler, AdminStep
  <2>2. admin' = [admin EXCEPT ![a] = h]
    BY <1>3 DEF GateRead, TypeOK
  <2>3. /\ admin' \in [Admin -> Handler]
        /\ \A b \in Admin : At(b, "write")' => admin'[b].target \in State
    BY <2>1, <2>2, <1>0
  <2> QED BY <1>3, <2>3 DEF GateRead, TypeOK, Handler
<1>4. CASE GateWrite(a)
  <2>1. /\ admin' \in [Admin -> Handler]
        /\ \A b \in Admin : At(b, "write")' => admin'[b].target \in State
    BY <1>4, NoAdminType, <1>0 DEF GateWrite
  <2>2. drain' \in [Driver -> Finalizer]
    BY <1>4, Drivers, EnterMoves DEF GateWrite, TypeOK, Finalizer
  <2> QED BY <1>4, <2>1, <2>2 DEF GateWrite, Effective, TypeOK, Handler, Finalizer
<1>5. CASE Delete(a)
  <2>1. /\ admin' \in [Admin -> Handler]
        /\ \A b \in Admin : At(b, "write")' => admin'[b].target \in State
    <3>1. /\ admin' = [admin EXCEPT ![a] = [admin[a] EXCEPT !.step = "force"]]
          /\ [admin[a] EXCEPT !.step = "force"] \in Handler
      BY <1>5, StepMoves DEF Delete, AdminStep
    <3>2. [admin[a] EXCEPT !.step = "force"].step # "write"
      BY DEF TypeOK, Handler
    <3> QED BY <3>1, <3>2, <1>0
  <2> QED BY <1>5, <2>1 DEF Delete, TypeOK, Handler
<1>6. CASE ForceDisable(a) \/ HandlerDies(a)
  <2>1. /\ admin' \in [Admin -> Handler]
        /\ \A b \in Admin : At(b, "write")' => admin'[b].target \in State
    BY <1>6, NoAdminType, <1>0 DEF ForceDisable, HandlerDies
  <2>2. CASE ForceDisable(a)
    BY <2>1, <2>2 DEF ForceDisable, TypeOK, Handler, State
  <2>3. CASE HandlerDies(a)
    BY <2>1, <2>3 DEF HandlerDies, TypeOK, Handler
  <2> QED BY <1>6, <2>2, <2>3
<1> QED BY <1>1, <1>2, <1>3, <1>4, <1>5, <1>6 DEF Handle

LEMMA TypeStep == Typed /\ [Next]_vars => Typed'
<1> SUFFICES ASSUME Typed, [Next]_vars PROVE Typed'
  OBVIOUS
<1>1. ASSUME NEW a \in Admin, (\E target \in State : Ask(a, target)) \/ Restart(a) \/ AskForce(a)
      PROVE  Typed'
  BY <1>1, TypeRequests
<1>2. ASSUME NEW a \in Admin, Handle(a) \/ HandlerDies(a) PROVE Typed'
  BY <1>2, TypeHandlers
<1>3. CASE \/ \E x \in Driver : Finalize(x) \/ DriverDies(x)
           \/ Reconcile
  BY <1>3, TypeFinalizers DEF Typed, At
<1>4. ASSUME NEW t \in Task,
             SendTask(t) \/ Start(t) \/ StartUncounted(t) \/ End(t) \/ Die(t)
      PROVE  Typed'
  BY <1>4, TypeTasks DEF Typed, At
<1>5. CASE UNCHANGED vars
  BY <1>5 DEF vars, taskVars, adminVars, Typed, TypeOK, At
<1> QED BY <1>1, <1>2, <1>3, <1>4, <1>5 DEF Next, Manage

(* Every state is well typed.                                                   *)
THEOREM DrainTypeCorrect == Spec => []TypeOK
<1>1. Typed => TypeOK
  BY DEF Typed
<1> QED BY <1>1, TypeInit, TypeStep, PTL DEF Spec

-------------------------------------------------------------------------------
(* The drain.                                                                 *)

(* A task in flight is running, and whoever counts the rows finds its row.           *)
Accounted == \A t \in inflight : Running(t) /\ t \in rows

(* Who counted nothing in this drain found nothing in flight.                       *)
Counts(x) ==
  drain[x].step = "flip" =>
    /\ drain[x].cycle <= cycle
    /\ drain[x].cycle = cycle => inflight = {}

Drained == Accounted /\ \A x \in Driver : Counts(x)

LEMMA DrainedInit == Init => Drained
BY DEF Init, Drained, Accounted, Counts, NoDrain

(* A finalizer that does not stand before its flip says nothing of the counts; one that *)
(* does not move keeps what it counted while the drain is the same and tasks only    *)
(* leave it.                                                                     *)
LEMMA CountsKept ==
  ASSUME Drained, cycle' = cycle, NEW y \in Driver, drain'[y] = drain[y],
         inflight' \subseteq inflight
  PROVE  Counts(y)'
BY DEF Drained, Counts

LEMMA DrainTasks ==
  ASSUME TypeOK, Drained, NEW t \in Task,
         SendTask(t) \/ Start(t) \/ StartUncounted(t) \/ End(t) \/ Die(t)
  PROVE  Drained'
<1>1. CASE SendTask(t)
  <2>1. task[t] # "running" /\ task' = [task EXCEPT ![t] = "queued"]
    BY <1>1 DEF SendTask
  <2> QED BY <1>1, <2>1 DEF SendTask, Drained, Accounted, Counts, Running, TypeOK
<1>2. CASE Start(t) \/ StartUncounted(t)
  BY <1>2 DEF Start, StartUncounted, Drained, Accounted, Counts, Running, TypeOK
<1>3. CASE End(t) \/ Die(t)
  <2>1. /\ task' = [task EXCEPT ![t] = "over"]
        /\ inflight' = inflight \ {t}
        /\ cycle' = cycle /\ rows \ {t} \subseteq rows'
    BY <1>3 DEF End, Die, Over
  <2>2. Accounted'
    BY <2>1 DEF Drained, Accounted, Running, TypeOK
  <2>3. ASSUME NEW y \in Driver PROVE Counts(y)'
    <3>1. CASE drain'[y] = drain[y]
      BY <2>1, <3>1, CountsKept
    <3>2. CASE drain'[y].step = "count"
      BY <3>2 DEF Counts
    <3>3. drain'[y] = drain[y] \/ drain'[y].step = "count"
      BY <1>3, Drivers, EnterMoves DEF End, Die
    <3> QED BY <3>1, <3>2, <3>3
  <2> QED BY <2>2, <2>3 DEF Drained
<1> QED BY <1>1, <1>2, <1>3

(* Who finds no row finds nothing in flight.                                     *)
LEMMA DrainFinalizers ==
  ASSUME TypeOK, Drained, \/ \E x \in Driver : Finalize(x) \/ DriverDies(x)
                          \/ Reconcile
  PROVE  Drained'
<1>1. ASSUME NEW x \in Driver, Count(x) PROVE Drained'
  <2>1. /\ UNCHANGED <<task, rows, inflight, cycle>>
        /\ (rows = {} /\ Counted(x)) \/ Leave(x)
    BY <1>1 DEF Count, taskVars
  <2>2. Accounted'
    BY <2>1 DEF Drained, Accounted, Running
  <2>3. Counts(x)'
    <3>1. CASE rows = {} /\ Counted(x)
      <4>1. inflight = {}
        BY <3>1 DEF Drained, Accounted
      <4> QED BY <2>1, <3>1, <4>1, CountMoves DEF Counts, TypeOK
    <3>2. CASE Leave(x)
      BY <3>2, LeaveMoves DEF Counts
    <3> QED BY <2>1, <3>1, <3>2
  <2>4. ASSUME NEW y \in Driver \ {x} PROVE Counts(y)'
    BY <2>1, CountMoves, LeaveMoves, CountsKept
  <2> QED BY <2>2, <2>3, <2>4 DEF Drained
<1>2. ASSUME NEW x \in Driver, Flip(x) \/ DriverDies(x) PROVE Drained'
  <2>1. UNCHANGED <<task, rows, inflight, cycle>> /\ Leave(x)
    BY <1>2 DEF Flip, DriverDies, taskVars
  <2>2. Accounted'
    BY <2>1 DEF Drained, Accounted, Running
  <2>3. ASSUME NEW y \in Driver PROVE Counts(y)'
    <3>1. CASE y = x
      BY <2>1, <3>1, LeaveMoves DEF Counts
    <3>2. CASE y # x
      BY <2>1, <3>2, LeaveMoves, CountsKept
    <3> QED BY <3>1, <3>2
  <2> QED BY <2>2, <2>3 DEF Drained
<1>3. CASE Reconcile
  <2>1. /\ UNCHANGED <<task, cycle>> /\ Enter(Reconciler)
        /\ \E stale \in SUBSET rows :
             rows' = rows \ stale /\ inflight' = inflight \ stale
    BY <1>3 DEF Reconcile
  <2>2. Accounted'
    BY <2>1 DEF Drained, Accounted, Running
  <2>3. ASSUME NEW y \in Driver PROVE Counts(y)'
    <3>1. CASE y = Reconciler
      BY <2>1, <3>1, EnterMoves, Drivers DEF Counts
    <3>2. CASE y # Reconciler
      BY <2>1, <3>2, EnterMoves, Drivers, CountsKept
    <3> QED BY <3>1, <3>2
  <2> QED BY <2>2, <2>3 DEF Drained
<1> QED BY <1>1, <1>2, <1>3 DEF Finalize

(* A new drain makes every earlier count outdated; the other steps of a handler start    *)
(* no drain.                                                                   *)
LEMMA DrainHandlers ==
  ASSUME TypeOK, Drained, NEW a \in Admin,
         \/ \E target \in State : Ask(a, target)
         \/ Restart(a) \/ AskForce(a) \/ Handle(a) \/ HandlerDies(a)
  PROVE  Drained'
<1>1. CASE Write(a)
  <2>1. UNCHANGED <<task, rows, drain>>
    BY <1>1 DEF Write
  <2>2. CASE UNCHANGED <<cycle, inflight>>
    BY <2>1, <2>2 DEF Drained, Accounted, Counts, Running
  <2>3. CASE cycle' = cycle + 1 /\ inflight' = {t \in rows : Running(t)}
    <3>1. Accounted'
      BY <2>1, <2>3 DEF Accounted, Running
    <3>2. ASSUME NEW x \in Driver PROVE Counts(x)'
      <4>1. drain[x].cycle \in Nat /\ cycle \in Nat
        BY DEF TypeOK
      <4> QED BY <2>1, <2>3, <4>1 DEF Drained, Counts
    <3> QED BY <3>1, <3>2 DEF Drained
  <2> QED BY <1>1, <2>2, <2>3 DEF Write
<1>2. CASE GateWrite(a)
  <2>1. /\ UNCHANGED <<task, rows, inflight, cycle>>
        /\ Enter(a) \/ UNCHANGED drain
    BY <1>2 DEF GateWrite, taskVars
  <2>2. Accounted'
    BY <2>1 DEF Drained, Accounted, Running
  <2>3. ASSUME NEW y \in Driver PROVE Counts(y)'
    <3>1. CASE Enter(a) /\ y = a
      BY <3>1, EnterMoves, Drivers DEF Counts
    <3>2. CASE UNCHANGED drain \/ y # a
      BY <2>1, <3>2, EnterMoves, Drivers, CountsKept
    <3> QED BY <2>1, <3>1, <3>2
  <2> QED BY <2>2, <2>3 DEF Drained
<1>3. CASE Delete(a)
  <2>1. /\ UNCHANGED <<task, cycle, drain>>
        /\ rows' = {} /\ inflight' = {}
    BY <1>3 DEF Delete
  <2>2. Accounted'
    BY <2>1 DEF Drained, Accounted, Running
  <2> QED BY <2>1, <2>2, CountsKept DEF Drained
<1>4. CASE \/ \E target \in State : Ask(a, target)
           \/ Restart(a) \/ AskForce(a) \/ Refresh(a) \/ GateRead(a)
           \/ ForceDisable(a) \/ HandlerDies(a)
  <2>1. UNCHANGED <<task, rows, inflight, cycle, drain>>
    BY <1>4 DEF Ask, Restart, AskForce, Begin, Refresh, GateRead, ForceDisable, HandlerDies,
                taskVars
  <2> QED BY <2>1 DEF Drained, Accounted, Counts, Running
<1> QED BY <1>1, <1>2, <1>3, <1>4 DEF Handle

LEMMA DrainedStep == TypeOK /\ Drained /\ [Next]_vars => Drained'
<1> SUFFICES ASSUME TypeOK, Drained, [Next]_vars PROVE Drained'
  OBVIOUS
<1>1. CASE UNCHANGED vars
  BY <1>1 DEF vars, taskVars, adminVars, Drained, Accounted, Counts, Running
<1>2. CASE Next
  BY <1>2, DrainTasks, DrainFinalizers, DrainHandlers DEF Next, Manage
<1> QED BY <1>1, <1>2

(* Whoever makes a draining app DISABLED finds over every task that was counted when   *)
(* the drain began, except those that lost their row while they ran.                *)
THEOREM DrainComplete == Spec => DrainedBeforeDisabled
<1>1. ASSUME Drained, NEW x \in Driver, Flip(x), drain[x].cycle = cycle
      PROVE  inflight = {}
  BY <1>1 DEF Drained, Counts, Flip
<1>2. Drained /\ [Next]_vars =>
        [\A x \in Driver :
           (Flip(x) /\ state = "DISABLING" /\ drain[x].cycle = cycle)
             => inflight = {}]_vars
  BY <1>1
<1>3. Typed => TypeOK
  BY DEF Typed
<1> QED BY <1>2, <1>3, TypeInit, TypeStep, DrainedInit, DrainedStep, PTL
        DEF Spec, DrainedBeforeDisabled

-------------------------------------------------------------------------------
(* The requests.                                                              *)

LEMMA EnablingInit == Init => EnablingEnds
BY DEF Init, EnablingEnds

(* Only a request's own write makes an app ENABLING, and any request that reads the    *)
(* row back makes it ENABLED.                                                    *)
LEMMA EnablingStep == TypeOK /\ EnablingEnds /\ [Next]_vars => EnablingEnds'
<1> SUFFICES ASSUME TypeOK, EnablingEnds, [Next]_vars PROVE EnablingEnds'
  OBVIOUS
<1>1. ASSUME NEW t \in Task,
             SendTask(t) \/ Start(t) \/ StartUncounted(t) \/ End(t) \/ Die(t)
      PROVE  EnablingEnds'
  BY <1>1 DEF SendTask, Start, StartUncounted, End, Die, adminVars, EnablingEnds, At
<1>2. CASE \/ \E x \in Driver : Finalize(x) \/ DriverDies(x)
           \/ Reconcile
  BY <1>2 DEF Finalize, Count, Flip, DriverDies, Reconcile, adminVars, EnablingEnds, At
<1>3. ASSUME NEW a \in Admin, NEW step \in AdminStep, NEW target, Begin(a, step, target)
      PROVE  EnablingEnds'
  <2>1. \A b \in Admin : At(b, "refresh") => b # a /\ At(b, "refresh")'
    BY <1>3 DEF Begin, Busy, At, TypeOK
  <2> QED BY <1>3, <2>1 DEF Begin, EnablingEnds
<1>4. ASSUME NEW a \in Admin, Write(a) PROVE EnablingEnds'
  <2>1. At(a, "refresh")'
    BY <1>4 DEF Write, NoAdmin, At, TypeOK
  <2> QED BY <2>1 DEF EnablingEnds
<1>5. ASSUME NEW a \in Admin, Refresh(a) \/ ForceDisable(a) PROVE EnablingEnds'
  BY <1>5 DEF Refresh, Enabled, ForceDisable, EnablingEnds
<1>6. ASSUME NEW a \in Admin, GateRead(a) \/ GateWrite(a) \/ Delete(a) PROVE EnablingEnds'
  <2>1. state' = state /\ died' = died
    BY <1>6 DEF GateRead, GateWrite, Delete
  <2>2. ~At(a, "refresh") /\ \A b \in Admin \ {a} : At(b, "refresh") => At(b, "refresh")'
    BY <1>6 DEF GateRead, GateWrite, Delete, GoTo, At, TypeOK
  <2> QED BY <2>1, <2>2 DEF EnablingEnds
<1>7. ASSUME NEW a \in Admin, HandlerDies(a) PROVE EnablingEnds'
  BY <1>7 DEF HandlerDies, EnablingEnds
<1>8. CASE UNCHANGED vars
  BY <1>8 DEF vars, adminVars, EnablingEnds, At
<1> QED BY <1>1, <1>2, <1>3, <1>4, <1>5, <1>6, <1>7, <1>8
        DEF Next, Manage, Ask, Restart, AskForce, Handle, AdminStep

(* ENABLING ends with the request that brought it about, unless a handler died.        *)
THEOREM EnablingIsBrief == Spec => []EnablingEnds
<1>1. Typed => TypeOK
  BY DEF Typed
<1> QED BY <1>1, TypeInit, TypeStep, EnablingInit, EnablingStep, PTL DEF Spec

-------------------------------------------------------------------------------
(* The schedules.                                                              *)

(* While requests come one at a time and none dies half-way: the one that is handled    *)
(* re-gates the schedules by a state that only a finalizer changes meanwhile, and a    *)
(* force-disable finds them off.                                                 *)
OneAtATime == \A a, b \in Admin : Busy(a) /\ Busy(b) => a = b
GateOf(a) ==
  /\ At(a, "gateWrite") => Effective(admin[a].seen) = Effective(state)
  /\ admin[a].step \in {"delete", "force"} => ~armed /\ ~Effective(state)
Untouched == \A a \in Admin : admin[a].step \in {"idle", "write"}
Synced ==
  /\ OneAtATime
  /\ \A a \in Admin : GateOf(a)
  /\ Untouched => armed = Effective(state)
Gated == overlapped \/ died \/ Synced

LEMMA GatedInit == Init => Gated
<1> SUFFICES ASSUME Init PROVE Synced
  BY DEF Gated
<1>1. \A a \in Admin : admin[a].step = "idle"
  BY DEF Init, NoAdmin
<1>2. armed = Effective(state)
  BY DEF Init, Effective
<1> QED BY <1>1, <1>2 DEF Synced, OneAtATime, GateOf, Busy, At

(* Neither a task nor a finalizer touches the schedules, or makes an app ENABLED.      *)
LEMMA GateOfOthers ==
  ASSUME TypeOK, Gated, UNCHANGED <<armed, admin, overlapped, died>>,
         Effective(state') = Effective(state)
  PROVE  Gated'
BY DEF Gated, Synced, OneAtATime, GateOf, Untouched, Busy, At, Effective

LEMMA GateBegin ==
  ASSUME TypeOK, Gated, NEW a \in Admin, NEW step \in {"write", "gateRead", "delete"},
         NEW target, Begin(a, step, target),
         step = "delete" => state = "DISABLING"
  PROVE  Gated'
<1> SUFFICES ASSUME ~overlapped', ~died' PROVE Synced'
  BY DEF Gated
<1>1. /\ Synced /\ UNCHANGED <<state, armed>>
      /\ \A b \in Admin : ~Busy(b)
  BY DEF Begin, Gated
<1>2. /\ admin'[a].step = step
      /\ \A b \in Admin \ {a} : admin'[b] = admin[b]
  BY DEF Begin, NoAdmin, TypeOK
<1>3. armed = Effective(state)
  BY <1>1 DEF Synced, Untouched, Busy, At
<1>4. OneAtATime'
  BY <1>1, <1>2 DEF OneAtATime, Busy, At
<1>5. ASSUME NEW b \in Admin PROVE GateOf(b)'
  <2>1. CASE b = a
    BY <1>1, <1>2, <1>3, <2>1 DEF GateOf, At, Effective
  <2>2. CASE b # a
    BY <1>1, <1>2, <2>2 DEF GateOf, At, Busy
  <2> QED BY <2>1, <2>2
<1> QED BY <1>1, <1>3, <1>4, <1>5 DEF Synced

(* A handler that is at work is the only one.                                     *)
LEMMA GateHandle ==
  ASSUME TypeOK, Gated, NEW a \in Admin, Handle(a)
  PROVE  Gated'
<1> SUFFICES ASSUME ~overlapped', ~died' PROVE Synced'
  BY DEF Gated
<1>1. Synced
  BY DEF Handle, Write, Refresh, GateRead, GateWrite, Delete, ForceDisable, Gated
<1>2. /\ Busy(a)
      /\ \A b \in Admin \ {a} : ~Busy(b) /\ admin'[b] = admin[b]
  <2>1. Busy(a)
    BY DEF Handle, Write, Refresh, GateRead, GateWrite, Delete, ForceDisable, Busy, At
  <2>2. \A b \in Admin \ {a} : ~Busy(b)
    BY <1>1, <2>1 DEF Synced, OneAtATime
  <2>3. \A b \in Admin \ {a} : admin'[b] = admin[b]
    BY DEF Handle, Write, Refresh, GateRead, GateWrite, Delete, ForceDisable, GoTo, TypeOK
  <2> QED BY <2>1, <2>2, <2>3
<1>3. OneAtATime'
  BY <1>2 DEF OneAtATime, Busy, At
<1>4. \A b \in Admin \ {a} : GateOf(b)'
  BY <1>2 DEF GateOf, Busy, At
<1>5. ASSUME GateOf(a)', admin'[a].step \in {"idle", "write"} => armed' = Effective(state')
      PROVE  Synced'
  BY <1>3, <1>4, <1>5 DEF Synced, Untouched
<1>6. CASE Write(a) \/ Refresh(a)
  <2>1. admin'[a].step \in {"refresh", "gateRead"}
    BY <1>6 DEF Write, Refresh, NoAdmin, TypeOK
  <2> QED BY <2>1, <1>5 DEF GateOf, At
<1>7. CASE GateRead(a)
  <2>1. state' = state /\ admin'[a].step = "gateWrite" /\ admin'[a].seen = state
    BY <1>7 DEF GateRead, TypeOK
  <2> QED BY <2>1, <1>5 DEF GateOf, At, Effective
<1>8. CASE GateWrite(a)
  <2>1. admin'[a].step = "idle" /\ state' = state /\ armed' = Effective(admin[a].seen)
    BY <1>8 DEF GateWrite, NoAdmin, TypeOK
  <2>2. Effective(admin[a].seen) = Effective(state)
    BY <1>1, <1>8 DEF GateWrite, Synced, GateOf
  <2> QED BY <2>1, <2>2, <1>5 DEF GateOf, At, Effective
<1>9. CASE Delete(a)
  <2>1. admin'[a].step = "force" /\ UNCHANGED <<state, armed>>
    BY <1>9 DEF Delete, GoTo, TypeOK
  <2>2. ~armed /\ ~Effective(state)
    BY <1>1, <1>9 DEF Delete, Synced, GateOf, At
  <2> QED BY <2>1, <2>2, <1>5 DEF GateOf, At, Effective
<1>10. CASE ForceDisable(a)
  <2>1. admin'[a].step = "idle" /\ state' = "DISABLED" /\ armed' = armed
    BY <1>10 DEF ForceDisable, NoAdmin, TypeOK
  <2>2. ~armed
    BY <1>1, <1>10 DEF ForceDisable, Synced, GateOf, At
  <2>3. armed' = Effective(state')
    BY <2>1, <2>2 DEF Effective, TypeOK
  <2> QED BY <2>1, <2>3, <1>5 DEF GateOf, At
<1> QED BY <1>6, <1>7, <1>8, <1>9, <1>10 DEF Handle

LEMMA GatedStep == TypeOK /\ Gated /\ [Next]_vars => Gated'
<1> SUFFICES ASSUME TypeOK, Gated, [Next]_vars PROVE Gated'
  OBVIOUS
<1>1. ASSUME NEW t \in Task,
             SendTask(t) \/ Start(t) \/ StartUncounted(t) \/ End(t) \/ Die(t)
      PROVE  Gated'
  BY <1>1, GateOfOthers DEF SendTask, Start, StartUncounted, End, Die, adminVars
<1>2. CASE \/ \E x \in Driver : Finalize(x) \/ DriverDies(x)
           \/ Reconcile
  BY <1>2, GateOfOthers DEF Finalize, Count, Flip, DriverDies, Reconcile, adminVars, Effective
<1>3. ASSUME NEW a \in Admin,
             (\E target \in State : Ask(a, target)) \/ Restart(a) \/ AskForce(a)
      PROVE  Gated'
  BY <1>3, GateBegin DEF Ask, Restart, AskForce
<1>4. ASSUME NEW a \in Admin, Handle(a) PROVE Gated'
  BY <1>4, GateHandle
<1>5. ASSUME NEW a \in Admin, HandlerDies(a) PROVE Gated'
  BY <1>5 DEF HandlerDies, Gated
<1>6. CASE UNCHANGED vars
  BY <1>6, GateOfOthers DEF vars, adminVars
<1> QED BY <1>1, <1>2, <1>3, <1>4, <1>5, <1>6 DEF Next, Manage

(* Between requests the schedules are on exactly in an ENABLED app, as long as requests  *)
(* come one at a time and none dies half-way.                                     *)
THEOREM SchedulesFollowState == Spec => []GateFollowsState
<1>1. Gated => GateFollowsState
  BY DEF Gated, Synced, Untouched, GateFollowsState, Busy, At, Effective
<1>2. Typed => TypeOK
  BY DEF Typed
<1> QED BY <1>1, <1>2, TypeInit, TypeStep, GatedInit, GatedStep, PTL DEF Spec
==============================================================================
