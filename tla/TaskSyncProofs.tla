---------------------------- MODULE TaskSyncProofs -----------------------------
(***************************************************************************)
(* The safety of TaskSync, for any number of workers and requests.           *)
(***************************************************************************)
EXTENDS TaskSync, FiniteSetTheorems, TLAPS

-------------------------------------------------------------------------------
(* Types are right at first and each action keeps them.                       *)
LEMMA TypeInit == Init => TypeOK
<1> SUFFICES ASSUME Init PROVE TypeOK
  OBVIOUS
<1>1. Idle \in [step : {"idle", "clear", "reload", "claim", "deregister",
                       "execute", "save", "refresh", "done"}, status : Status]
  BY DEF Idle, Status
<1>2. frame \in [Procs -> [step : {"idle", "clear", "reload", "claim", "deregister",
                       "execute", "save", "refresh", "done"}, status : Status]]
  BY <1>1 DEF Init
<1>3. status \in Status /\ job \in Live \cup terminal
  BY DEF Init, Status, Live
<1>4. aborts \in 0 .. MaxAborts /\ queued \in Nat /\ chained \in Nat
  BY MaxAbortsAssumption DEF Init
<1>5. /\ kind \in Kinds /\ claimed \in BOOLEAN /\ answered \in BOOLEAN
      /\ disowned \in BOOLEAN /\ misread \in BOOLEAN
  BY DEF Init
<1> QED BY <1>2, <1>3, <1>4, <1>5 DEF TypeOK

(* What a process is given to hold is a frame, so the frames stay frames.      *)
LEMMA FramesKept ==
  ASSUME TypeOK, NEW p \in Procs,
         NEW st \in {"idle", "clear", "reload", "claim", "deregister",
                     "execute", "save", "refresh", "done"},
         NEW s \in Status,
         Become(p, st, s)
  PROVE  frame' \in [Procs -> [step : {"idle", "clear", "reload", "claim", "deregister",
                                       "execute", "save", "refresh", "done"},
                               status : Status]]
BY DEF TypeOK, Become

(* The row, the job and the counters stay in their ranges.                    *)
LEMMA TypeStep == TypeOK /\ [Next]_vars => TypeOK'
<1> SUFFICES ASSUME TypeOK, [Next]_vars PROVE TypeOK'
  OBVIOUS
<1> USE MaxAbortsAssumption
<1>d. /\ Workers \subseteq Procs /\ Routes \subseteq Procs
      /\ Stops \subseteq Procs /\ Pollers \subseteq Procs
  BY DEF Procs, Syncers
<1>i. \A p \in Procs : Leave(p) => Become(p, "idle", "RUNNING")
  BY DEF Leave, Become, Idle
<1>r. "RUNNING" \in Status /\ "STOPPED" \in Status /\ status \in Status
  BY DEF Status, terminal, TypeOK
<1>f. \A p \in Procs : frame[p].status \in Status
  BY DEF TypeOK
<1>v. \A st \in Status : Verdicts(st) \subseteq Status
  <2>1. "FAILED" \in Status /\ (job \notin Live => job \in Status)
    BY DEF TypeOK, Status, terminal, Ends
  <2> QED BY <2>1, <1>r DEF Verdicts
<1>n. \A c \in Nat : c < MaxAborts => c + 1 \in 0 .. MaxAborts
  OBVIOUS
<1>1. CASE Finish \/ Purge
  BY <1>1 DEF Finish, Purge, TypeOK, rowVars, faultVars, Live, terminal, Ends
<1>2. CASE SyncRunningItems \/ EnqueueFails \/ ClaimExpires
  <2>1. CASE SyncRunningItems
    BY <2>1 DEF SyncRunningItems, TypeOK, faultVars
  <2>2. CASE EnqueueFails
    BY <2>2, <1>n DEF EnqueueFails, TypeOK
  <2>3. CASE ClaimExpires
    <3>1. claimed' \in BOOLEAN /\ disowned' \in BOOLEAN
      BY <2>3 DEF ClaimExpires
    <3> QED BY <2>3, <3>1 DEF ClaimExpires, TypeOK
  <2> QED BY <1>2, <2>1, <2>2, <2>3
<1>3. ASSUME NEW w \in Workers, Take(w) \/ WorkerStep(w) PROVE TypeOK'
  <2>1. CASE Take(w)
    BY <2>1, <1>d, <1>r, FramesKept DEF Take, At, TypeOK, rowVars, faultVars
  <2>2. CASE ClearClaim(w)
    BY <2>2, <1>d, <1>i, <1>r, <1>f, FramesKept DEF ClearClaim, TypeOK, faultVars
  <2>3. CASE Reload(w)
    BY <2>3, <1>d, <1>r, FramesKept DEF Reload, TypeOK, rowVars, faultVars
  <2>4. CASE Execute(w)
    BY <2>4, <1>d, <1>f, <1>v, FramesKept DEF Execute, TypeOK, rowVars, faultVars
  <2>5. CASE SaveSync(w)
    BY <2>5, <1>d, <1>f, FramesKept DEF SaveSync, TypeOK, faultVars
  <2>6. CASE RefreshAndChain(w)
    BY <2>6, <1>d, <1>i, <1>r, FramesKept DEF RefreshAndChain, TypeOK, rowVars
  <2> QED BY <1>3, <2>1, <2>2, <2>3, <2>4, <2>5, <2>6 DEF WorkerStep
<1>4. ASSUME NEW r \in Routes, RouteLoad(r) \/ RouteStep(r) \/ RouteRaises(r)
      PROVE TypeOK'
  <2>1. CASE RouteLoad(r)
    BY <2>1, <1>d, <1>r, FramesKept DEF RouteLoad, TypeOK, rowVars, faultVars
  <2>2. CASE RouteClaim(r)
    BY <2>2, <1>d, <1>i, <1>r, <1>f, FramesKept DEF RouteClaim, TypeOK, faultVars
  <2>3. CASE Execute(r)
    BY <2>3, <1>d, <1>f, <1>v, FramesKept DEF Execute, TypeOK, rowVars, faultVars
  <2>4. CASE SaveSync(r)
    BY <2>4, <1>d, <1>f, FramesKept DEF SaveSync, TypeOK, faultVars
  <2>5. CASE RefreshAndChain(r)
    BY <2>5, <1>d, <1>i, <1>r, FramesKept DEF RefreshAndChain, TypeOK, rowVars
  <2>6. CASE RouteRaises(r)
    <3>1. claimed' \in BOOLEAN /\ disowned' \in BOOLEAN
      BY <2>6 DEF RouteRaises
    <3> QED BY <2>6, <3>1, <1>d, <1>i, <1>r, <1>n, FramesKept DEF RouteRaises, TypeOK
  <2> QED BY <1>4, <2>1, <2>2, <2>3, <2>4, <2>5, <2>6 DEF RouteStep
<1>5. ASSUME NEW s \in Stops, StopLoad(s) \/ StopStep(s) PROVE TypeOK'
  <2>1. CASE StopLoad(s)
    BY <2>1, <1>d, <1>r, FramesKept DEF StopLoad, TypeOK, rowVars, faultVars
  <2>2. CASE Deregister(s)
    <3>1. Deregistered(job) \in Live \cup terminal
      BY DEF Deregistered, TypeOK, Live, terminal
    <3> QED BY <2>2, <3>1, <1>d, <1>f, FramesKept DEF Deregister, TypeOK, rowVars, faultVars
  <2>3. CASE Execute(s)
    BY <2>3, <1>d, <1>f, <1>v, FramesKept DEF Execute, TypeOK, rowVars, faultVars
  <2>4. CASE StopSave(s)
    BY <2>4, <1>d, <1>r, FramesKept DEF StopSave, TypeOK, faultVars
  <2> QED BY <1>5, <2>1, <2>2, <2>3, <2>4 DEF StopStep
<1>6. ASSUME NEW p \in Pollers, Poll(p) \/ PollStep(p) PROVE TypeOK'
  <2>1. CASE Poll(p)
    BY <2>1, <1>d, <1>r, FramesKept DEF Poll, TypeOK, rowVars, faultVars
  <2>2. CASE Execute(p)
    BY <2>2, <1>d, <1>f, <1>v, FramesKept DEF Execute, TypeOK, rowVars, faultVars
  <2>3. CASE PollSave(p)
    BY <2>3, <1>d, <1>i, <1>r, <1>f, FramesKept DEF PollSave, TypeOK, faultVars
  <2> QED BY <1>6, <2>1, <2>2, <2>3 DEF PollStep
<1>7. ASSUME NEW p \in Procs, Abort(p) \/ GiveUp(p) PROVE TypeOK'
  BY <1>7, <1>i, <1>r, <1>n, FramesKept DEF Abort, GiveUp, TypeOK, rowVars
<1>8. CASE UNCHANGED vars
  BY <1>8 DEF TypeOK, vars, rowVars, faultVars
<1> QED BY <1>1, <1>2, <1>3, <1>4, <1>5, <1>6, <1>7, <1>8, <1>d DEF Next
-------------------------------------------------------------------------------
(* Counting.  A set that gains or loses one element counts one more or less.   *)
LEMMA CountMoves ==
  ASSUME NEW S, IsFiniteSet(S), NEW T, NEW p, T \ {p} = S \ {p}
  PROVE  /\ IsFiniteSet(T)
         /\ Cardinality(S) \in Nat /\ Cardinality(T) \in Nat
         /\ Cardinality(T) = Cardinality(S) + (IF p \in T THEN 1 ELSE 0)
                                            - (IF p \in S THEN 1 ELSE 0)
<1>1. IsFiniteSet(S \cup {p})
  BY FS_AddElement
<1>2. IsFiniteSet(T)
  BY <1>1, FS_Subset, T \subseteq S \cup {p}
<1>3. Cardinality(S) \in Nat /\ Cardinality(T) \in Nat
  BY <1>2, FS_CardinalityType
<1>4. Cardinality(S \ {p}) = IF p \in S THEN Cardinality(S) - 1 ELSE Cardinality(S)
  BY FS_RemoveElement
<1>5. Cardinality(T \ {p}) = IF p \in T THEN Cardinality(T) - 1 ELSE Cardinality(T)
  BY <1>2, FS_RemoveElement
<1> QED BY <1>2, <1>3, <1>4, <1>5

(* There are finitely many syncs, so the counts are numbers.                  *)
LEMMA CountsAreNumbers ==
  /\ IsFiniteSet(Busy) /\ IsFiniteSet(Pending)
  /\ Cardinality(Busy) \in Nat /\ Cardinality(Pending) \in Nat
<1>1. IsFiniteSet(Syncers)
  BY ProcsAssumption, FS_Subset, Syncers \subseteq Procs DEF Procs
<1>2. IsFiniteSet(Busy) /\ IsFiniteSet(Pending)
  BY <1>1, FS_Subset, Busy \subseteq Syncers, Pending \subseteq Syncers DEF Busy, Pending
<1> QED BY <1>2, FS_CardinalityType

(* What a process at this step adds to Outstanding, and to Dispatches.         *)
Counts(p, st) == IF p \in Syncers /\ st \in SyncSteps(p) THEN 1 ELSE 0
Owes(p, st, s) == IF p \in Syncers /\ st = "refresh" /\ s \in terminal THEN 1 ELSE 0

(* When one process moves, the counts move by what that process adds.         *)
LEMMA FrameMoves ==
  ASSUME TypeOK, NEW p \in Procs, NEW st, NEW s, Become(p, st, s)
  PROVE  /\ Cardinality(Busy') = Cardinality(Busy) + Counts(p, st) - Counts(p, frame[p].step)
         /\ Cardinality(Pending') = Cardinality(Pending) + Owes(p, st, s)
                                      - Owes(p, frame[p].step, frame[p].status)
         /\ Cardinality(Busy') \in Nat /\ Cardinality(Pending') \in Nat
<1>1. /\ frame' = [frame EXCEPT ![p] = [step |-> st, status |-> s]]
      /\ DOMAIN frame = Procs
  BY DEF Become, TypeOK
<1>2. /\ frame'[p].step = st /\ frame'[p].status = s
      /\ \A q \in Procs : q # p => frame'[q] = frame[q]
  BY <1>1
<1>3. Syncers \subseteq Procs
  BY DEF Procs
<1>4. Busy' \ {p} = Busy \ {p} /\ Pending' \ {p} = Pending \ {p}
  BY <1>2, <1>3 DEF Busy, Pending
<1>5. /\ p \in Busy' <=> p \in Syncers /\ st \in SyncSteps(p)
      /\ p \in Busy <=> p \in Syncers /\ frame[p].step \in SyncSteps(p)
      /\ p \in Pending' <=> p \in Syncers /\ st = "refresh" /\ s \in terminal
      /\ p \in Pending <=> /\ p \in Syncers /\ frame[p].step = "refresh"
                           /\ frame[p].status \in terminal
  BY <1>2 DEF Busy, Pending
<1>6. /\ Cardinality(Busy') = Cardinality(Busy) + (IF p \in Busy' THEN 1 ELSE 0)
                                                - (IF p \in Busy THEN 1 ELSE 0)
      /\ Cardinality(Busy') \in Nat
  BY <1>4, CountsAreNumbers, CountMoves
<1>7. /\ Cardinality(Pending') = Cardinality(Pending) + (IF p \in Pending' THEN 1 ELSE 0)
                                                      - (IF p \in Pending THEN 1 ELSE 0)
      /\ Cardinality(Pending') \in Nat
  BY <1>4, CountsAreNumbers, CountMoves
<1> QED BY <1>5, <1>6, <1>7 DEF Counts, Owes

(* Nothing moves while no process does.                                      *)
LEMMA NobodyMoves == frame' = frame => Busy' = Busy /\ Pending' = Pending
BY DEF Busy, Pending

-------------------------------------------------------------------------------
(* The invariant holds at first: nothing is enqueued and everybody is idle.    *)
LEMMA InvInit == Init => SyncInv
<1> SUFFICES ASSUME Init PROVE SyncInv
  OBVIOUS
<1>1. TypeOK
  BY TypeInit
<1>2. Busy = {} /\ Pending = {}
  BY DEF Init, Busy, Pending, Idle, SyncSteps, Syncers, Procs
<1>3. Outstanding = 0 /\ Dispatches = 0
  BY <1>2, FS_EmptySet DEF Outstanding, Dispatches, Init
<1>4. OnlyChecksPolled
  BY DEF OnlyChecksPolled, Init, Procs
<1> QED BY <1>1, <1>3, <1>4 DEF SyncInv, ClaimCounts, ChainsCounted, VerdictSettled, Init, Ends

(* The counts, as a step of one process sees them.                            *)
LEMMA OutstandingMoves ==
  ASSUME TypeOK, TypeOK', NEW p \in Procs, NEW st, NEW s, Become(p, st, s)
  PROVE  /\ Outstanding \in Nat /\ Outstanding' \in Nat
         /\ Dispatches \in Nat /\ Dispatches' \in Nat
         /\ Outstanding' = Outstanding + (queued' - queued)
                             + Counts(p, st) - Counts(p, frame[p].step)
         /\ Dispatches' = Dispatches + (chained' - chained)
                             + Owes(p, st, s) - Owes(p, frame[p].step, frame[p].status)
<1>1. /\ queued \in Nat /\ queued' \in Nat /\ chained \in Nat /\ chained' \in Nat
  BY DEF TypeOK
<1>2. /\ Counts(p, st) \in {0, 1} /\ Counts(p, frame[p].step) \in {0, 1}
      /\ Owes(p, st, s) \in {0, 1} /\ Owes(p, frame[p].step, frame[p].status) \in {0, 1}
  BY DEF Counts, Owes
<1> QED BY <1>1, <1>2, CountsAreNumbers, FrameMoves DEF Outstanding, Dispatches

(* A step that moves nobody changes the counts by queued and chained alone.     *)
LEMMA OutstandingStays ==
  ASSUME TypeOK, TypeOK', frame' = frame
  PROVE  /\ Outstanding \in Nat /\ Outstanding' = Outstanding + (queued' - queued)
         /\ Dispatches \in Nat /\ Dispatches' = Dispatches + (chained' - chained)
BY CountsAreNumbers, NobodyMoves DEF Outstanding, Dispatches, TypeOK

(* Steps under which neither count grows keep the counting, if a claim goes     *)
(* with its sync and a terminal status stays one.                            *)
LEMMA CountsFall ==
  ASSUME SyncInv,
         Outstanding \in Nat, Outstanding' \in Nat, Outstanding' <= Outstanding,
         Dispatches \in Nat, Dispatches' \in Nat, Dispatches' <= Dispatches,
         kind' = kind, disowned => disowned', misread => misread',
         ~disowned' /\ ~claimed' => ~claimed \/ Outstanding' = 0,
         status \in terminal => status' \in terminal,
         kind # "check" /\ status' \in Ends => status \in Ends
  PROVE  ClaimCounts' /\ ChainsCounted' /\ VerdictSettled'
<1>1. Outstanding = 0 => Outstanding' = 0
  OBVIOUS
<1>2. Outstanding <= 1 => Outstanding' <= 1
  OBVIOUS
<1>3. /\ Dispatches' > 0 => Dispatches > 0
      /\ Dispatches' > 0 /\ Dispatches = 1 => Dispatches' = 1
  OBVIOUS
<1>4. ClaimCounts'
  BY <1>1, <1>2, Zenon DEF SyncInv, ClaimCounts
<1>5. ChainsCounted'
  BY <1>1, <1>3, Zenon DEF SyncInv, ChainsCounted
<1>6. VerdictSettled'
  BY <1>1, Zenon DEF SyncInv, VerdictSettled
<1> QED BY <1>4, <1>5, <1>6

(* A claim is taken on a running row that has none, for one sync more.         *)
LEMMA ClaimTaken ==
  ASSUME SyncInv, Claimable, claimed' = TRUE, status' = status,
         UNCHANGED <<kind, disowned, misread>>,
         Outstanding \in Nat, Outstanding' = Outstanding + 1,
         Dispatches \in Nat, Dispatches' = Dispatches
  PROVE  ClaimCounts' /\ ChainsCounted' /\ VerdictSettled'
<1>1. status \notin terminal /\ ~claimed
  BY DEF Claimable, terminal, Ends
<1>2. Outstanding = 0 => Outstanding' <= 1
  OBVIOUS
<1>3. ClaimCounts'
  BY <1>1, <1>2, Zenon DEF SyncInv, ClaimCounts
<1>4. ChainsCounted'
  BY <1>1, Zenon DEF SyncInv, ChainsCounted
<1>5. VerdictSettled'
  BY <1>1 DEF VerdictSettled, terminal
<1> QED BY <1>3, <1>4, <1>5

(* What each step of each kind of process adds.                               *)
LEMMA CountsOfSteps ==
  /\ \A w \in Workers : /\ Counts(w, "clear") = 1 /\ Counts(w, "reload") = 1
                        /\ Counts(w, "execute") = 1 /\ Counts(w, "save") = 1
                        /\ Counts(w, "idle") = 0 /\ Counts(w, "refresh") = 0
  /\ \A r \in Routes : /\ Counts(r, "execute") = 1 /\ Counts(r, "save") = 1
                       /\ Counts(r, "idle") = 0 /\ Counts(r, "claim") = 0
                       /\ Counts(r, "refresh") = 0
  /\ \A p \in Stops \cup Pollers : \A st, s : Counts(p, st) = 0 /\ Owes(p, st, s) = 0
  /\ \A p, st, s : /\ Counts(p, st) \in {0, 1} /\ Owes(p, st, s) \in {0, 1}
                   /\ st # "refresh" \/ s = "RUNNING" => Owes(p, st, s) = 0
<1>1. /\ \A w \in Workers : w \in Syncers
      /\ \A r \in Routes : r \in Syncers /\ r \notin Workers
      /\ \A p \in Stops \cup Pollers : p \notin Syncers
  BY ProcsAssumption DEF Syncers
<1>2. "RUNNING" \notin terminal
  BY DEF terminal, Ends
<1> QED BY <1>1, <1>2 DEF Counts, Owes, SyncSteps

(* A row that is saved by a sync has no other sync left that could overwrite it. *)
LEMMA SaveSettles ==
  ASSUME SyncInv, TypeOK', NEW p \in Syncers, SaveSync(p)
  PROVE  ClaimCounts' /\ ChainsCounted' /\ VerdictSettled'
<1>d. p \in Procs /\ (p \in Workers \/ p \in Routes)
  BY DEF Procs, Syncers
<1>1. /\ Counts(p, "refresh") = 0 /\ Counts(p, frame[p].step) = 1
      /\ Owes(p, "refresh", frame[p].status) = 1 => frame[p].status \in terminal
      /\ Owes(p, "refresh", frame[p].status) \in {0, 1}
      /\ Owes(p, frame[p].step, frame[p].status) = 0
  BY <1>d, CountsOfSteps DEF SaveSync, At, Owes
<1>2. /\ Outstanding \in Nat /\ Outstanding' \in Nat /\ Outstanding' = Outstanding - 1
      /\ Dispatches \in Nat /\ Dispatches' \in Nat
      /\ Dispatches' = Dispatches + Owes(p, "refresh", frame[p].status)
  <2>1. Become(p, "refresh", frame[p].status) /\ queued' = queued /\ chained' = chained
    BY DEF SaveSync
  <2>2. queued \in Nat /\ chained \in Nat
    BY DEF SyncInv, TypeOK
  <2> QED BY <2>1, <2>2, <1>1, <1>d, OutstandingMoves DEF SyncInv
<1>3. /\ disowned' = disowned /\ misread' = misread /\ kind' = kind
      /\ status' = frame[p].status
  BY DEF SaveSync, faultVars
<1>4. /\ Outstanding <= 1 => Outstanding' = 0 /\ Outstanding' <= 1
      /\ Outstanding # 0
  BY <1>2
<1>5. ClaimCounts'
  BY <1>3, <1>4, Zenon DEF SyncInv, ClaimCounts
<1>6. VerdictSettled'
  BY <1>3, <1>4, Zenon DEF SyncInv, ClaimCounts, VerdictSettled
<1>7. ChainsCounted'
  <2> SUFFICES ASSUME ~disowned, ~misread, Dispatches' > 0
               PROVE  Dispatches' = 1 /\ status' \in terminal /\ Outstanding' = 0
    BY <1>3, Zenon DEF ChainsCounted
  <2>1. ~(Dispatches > 0)
    BY <1>4, Zenon DEF SyncInv, ChainsCounted
  <2>2. Dispatches' = 1 /\ Owes(p, "refresh", frame[p].status) = 1
    BY <2>1, <1>1, <1>2
  <2> QED BY <2>2, <1>1, <1>3, <1>4, Zenon DEF SyncInv, ClaimCounts
<1> QED BY <1>5, <1>6, <1>7

(* The sync that owed a dispatch makes it; another one misreads.               *)
LEMMA ChainSettles ==
  ASSUME SyncInv, TypeOK', NEW p \in Syncers, RefreshAndChain(p)
  PROVE  ClaimCounts' /\ ChainsCounted' /\ VerdictSettled'
<1>d. p \in Procs /\ (p \in Workers \/ p \in Routes)
  BY DEF Procs, Syncers
<1>t. TypeOK /\ queued \in Nat /\ chained \in Nat /\ chained' \in Nat
  BY DEF SyncInv, TypeOK
<1>1. /\ Become(p, "idle", "RUNNING") /\ frame[p].step = "refresh"
      /\ queued' = queued /\ status' = status /\ claimed' = claimed /\ kind' = kind
      /\ disowned' = disowned
  BY DEF RefreshAndChain, Leave, Become, Idle, At, rowVars
<1>2. /\ Counts(p, "idle") = 0 /\ Counts(p, frame[p].step) = 0
      /\ Owes(p, "idle", "RUNNING") = 0
      /\ Owes(p, frame[p].step, frame[p].status)
           = IF frame[p].status \in terminal THEN 1 ELSE 0
  BY <1>1, <1>d, CountsOfSteps DEF Owes
<1>3. /\ Outstanding \in Nat /\ Outstanding' \in Nat /\ Outstanding' = Outstanding
      /\ Dispatches \in Nat /\ Dispatches' \in Nat
      /\ Dispatches' = Dispatches + (chained' - chained)
                         - Owes(p, frame[p].step, frame[p].status)
  BY <1>1, <1>2, <1>d, <1>t, OutstandingMoves
<1>4. chained' - chained = IF ShouldChain THEN 1 ELSE 0
  BY <1>t DEF RefreshAndChain
<1>5. ~misread' => ~misread /\ status = frame[p].status
  BY DEF RefreshAndChain
<1>6. ShouldChain => status \in terminal
  BY DEF ShouldChain, terminal, Ends
<1>7. ~misread' => Dispatches' <= Dispatches
  BY <1>2, <1>3, <1>4, <1>5, <1>6
<1>8. ClaimCounts' /\ VerdictSettled'
  BY <1>1, <1>3, Zenon DEF SyncInv, ClaimCounts, VerdictSettled
<1>9. ChainsCounted'
  <2> SUFFICES ASSUME ~disowned, ~misread', Dispatches' > 0
               PROVE  Dispatches' = 1 /\ status' \in terminal /\ Outstanding' = 0
    BY <1>1, Zenon DEF ChainsCounted
  <2>1. Dispatches > 0
    BY <1>3, <1>7
  <2>2. Dispatches = 1 /\ status \in terminal /\ Outstanding = 0
    BY <2>1, <1>5, Zenon DEF SyncInv, ChainsCounted
  <2> QED BY <2>2, <1>1, <1>3, <1>7
<1> QED BY <1>8, <1>9

(* Polls begin on the task of a check only, and nobody else moves a poller.     *)
LEMMA PollersStep ==
  ASSUME SyncInv, [Next]_vars
  PROVE  OnlyChecksPolled'
<1>p. /\ kind # "check" => \A p \in Pollers : frame[p] = Idle
      /\ \A p \in Pollers : p \notin Workers /\ p \notin Routes /\ p \notin Stops
      /\ DOMAIN frame = Procs
  BY ProcsAssumption DEF SyncInv, OnlyChecksPolled, Syncers, TypeOK
<1>1. kind' = kind
  BY DEF Next, Finish, Purge, SyncRunningItems, EnqueueFails, ClaimExpires, Take,
         WorkerStep, ClearClaim, Reload, Execute, SaveSync, RefreshAndChain, Abort,
         RouteLoad, RouteStep, RouteClaim, RouteRaises, StopLoad, StopStep, Deregister,
         StopSave, GiveUp, Poll, PollStep, PollSave, vars, rowVars
<1>2. SUFFICES ASSUME kind # "check", NEW q \in Pollers PROVE frame'[q] = frame[q]
  BY <1>1, <1>p DEF OnlyChecksPolled
<1>3. frame[q].step = "idle"
  BY <1>p, <1>2 DEF Idle
<1>4. \A p, st, s : p # q /\ Become(p, st, s) => frame'[q] = frame[q]
  BY <1>p DEF Become, Procs
<1>5. \A p : p # q /\ Leave(p) => frame'[q] = frame[q]
  BY <1>p DEF Leave, Procs
<1>6. CASE Finish \/ Purge \/ SyncRunningItems \/ EnqueueFails \/ ClaimExpires
  BY <1>6 DEF Finish, Purge, SyncRunningItems, EnqueueFails, ClaimExpires
<1>7. ASSUME NEW w \in Workers, Take(w) \/ WorkerStep(w) \/ Abort(w)
      PROVE  frame'[q] = frame[q]
  BY <1>7, <1>p, <1>4, <1>5 DEF Take, WorkerStep, ClearClaim, Reload, Execute,
       SaveSync, RefreshAndChain, Abort
<1>8. ASSUME NEW r \in Routes, RouteLoad(r) \/ RouteStep(r) \/ Abort(r) \/ RouteRaises(r)
      PROVE  frame'[q] = frame[q]
  BY <1>8, <1>p, <1>4, <1>5 DEF RouteLoad, RouteStep, RouteClaim, Execute,
       SaveSync, RefreshAndChain, Abort, RouteRaises
<1>9. ASSUME NEW s \in Stops, StopLoad(s) \/ StopStep(s) \/ GiveUp(s)
      PROVE  frame'[q] = frame[q]
  BY <1>9, <1>p, <1>4, <1>5 DEF StopLoad, StopStep, Deregister, Execute, StopSave, GiveUp
<1>10. ASSUME NEW p \in Pollers, Poll(p) \/ PollStep(p) \/ GiveUp(p)
       PROVE  frame'[q] = frame[q]
  <2>1. frame[p].step = "idle"
    BY <1>p, <1>2 DEF Idle
  <2> QED BY <1>10, <1>2, <2>1 DEF Poll, PollStep, Execute, PollSave, GiveUp, At
<1>11. CASE UNCHANGED vars
  BY <1>11 DEF vars
<1> QED BY <1>6, <1>7, <1>8, <1>9, <1>10, <1>11 DEF Next

(* A process that adds no more than before, and takes its claim along if any.   *)
LEMMA MoveFalls ==
  ASSUME SyncInv, TypeOK', NEW p \in Procs, NEW st, NEW s, Become(p, st, s),
         Counts(p, st) + (queued' - queued) <= Counts(p, frame[p].step),
         Owes(p, st, s) = 0, chained' = chained,
         kind' = kind, disowned => disowned', misread' = misread,
         ~disowned' /\ ~claimed' => \/ ~claimed
                                    \/ ~(Outstanding > 0)
                                    \/ /\ queued' = queued /\ Counts(p, st) = 0
                                       /\ Counts(p, frame[p].step) = 1,
         status \in terminal => status' \in terminal,
         kind # "check" /\ status' \in Ends => status \in Ends
  PROVE  ClaimCounts' /\ ChainsCounted' /\ VerdictSettled'
<1>t. TypeOK /\ queued \in Nat /\ queued' \in Nat /\ chained \in Nat
  BY DEF SyncInv, TypeOK
<1>1. /\ Counts(p, st) \in {0, 1} /\ Counts(p, frame[p].step) \in {0, 1}
      /\ Owes(p, frame[p].step, frame[p].status) \in {0, 1}
  BY CountsOfSteps
<1>2. /\ Outstanding \in Nat /\ Outstanding' \in Nat
      /\ Dispatches \in Nat /\ Dispatches' \in Nat
      /\ Outstanding' = Outstanding + (queued' - queued)
                          + Counts(p, st) - Counts(p, frame[p].step)
      /\ Dispatches' = Dispatches + (chained' - chained)
                          + Owes(p, st, s) - Owes(p, frame[p].step, frame[p].status)
  BY <1>t, OutstandingMoves
<1>3. Outstanding' <= Outstanding /\ Dispatches' <= Dispatches
  <2>1. Outstanding' <= Outstanding
    BY <1>1, <1>2, <1>t
  <2>2. chained' - chained = 0
    BY <1>t
  <2>3. Dispatches' <= Dispatches
    BY <2>2, <1>1, <1>2
  <2> QED BY <2>1, <2>3
<1>4. ~(Outstanding > 0) => Outstanding' = 0
  BY <1>2, <1>3
<1>5. /\ queued' = queued /\ Counts(p, st) = 0 /\ Counts(p, frame[p].step) = 1
      /\ Outstanding <= 1
      => Outstanding' = 0
  BY <1>2, <1>t
<1>6. ~disowned' => Outstanding <= 1
  BY Zenon DEF SyncInv, ClaimCounts
<1>7. ~disowned' /\ ~claimed' => ~claimed \/ Outstanding' = 0
  BY <1>4, <1>5, <1>6, Zenon
<1> QED BY <1>2, <1>3, <1>7, CountsFall

(* A stop or a poll counts as no sync, so only what it saves matters.           *)
LEMMA OutsiderMoves ==
  ASSUME SyncInv, TypeOK', NEW p \in Stops \cup Pollers, NEW st, NEW s, Become(p, st, s),
         queued' = queued, chained' = chained, claimed' = claimed,
         kind' = kind, disowned' = disowned, misread' = misread,
         status \in terminal => status' \in terminal,
         kind # "check" /\ status' \in Ends => status \in Ends
  PROVE  ClaimCounts' /\ ChainsCounted' /\ VerdictSettled'
<1>1. p \in Procs /\ queued \in Nat
  BY DEF Procs, SyncInv, TypeOK
<1>2. Counts(p, st) = 0 /\ Counts(p, frame[p].step) = 0 /\ Owes(p, st, s) = 0
  BY CountsOfSteps
<1>3. Counts(p, st) + (queued' - queued) <= Counts(p, frame[p].step)
  BY <1>1, <1>2
<1> QED BY <1>1, <1>2, <1>3, MoveFalls

(* A sync that goes on with its claim, or takes the message it was enqueued as.  *)
LEMMA SyncGoesOn ==
  ASSUME SyncInv, TypeOK', NEW p \in Syncers, NEW st, NEW s, Become(p, st, s),
         Counts(p, st) + (queued' - queued) = Counts(p, frame[p].step),
         Owes(p, st, s) = 0, chained' = chained, claimed' = claimed,
         status' = status, kind' = kind, disowned' = disowned, misread' = misread
  PROVE  ClaimCounts' /\ ChainsCounted' /\ VerdictSettled'
<1>1. p \in Procs
  BY DEF Procs
<1>2. /\ Counts(p, st) \in {0, 1} /\ Counts(p, frame[p].step) \in {0, 1}
      /\ queued \in Nat /\ queued' \in Nat
  BY CountsOfSteps DEF SyncInv, TypeOK
<1>3. Counts(p, st) + (queued' - queued) <= Counts(p, frame[p].step)
  BY <1>2
<1> QED BY <1>1, <1>3, MoveFalls

(* The counting through every step: no sync appears without a claim, and a      *)
(* terminal status is only left by the save of a sync.                        *)
LEMMA CountingStep ==
  ASSUME SyncInv, TypeOK', [Next]_vars
  PROVE  ClaimCounts' /\ ChainsCounted' /\ VerdictSettled'
<1>t. TypeOK /\ queued \in Nat /\ chained \in Nat
  BY DEF SyncInv, TypeOK
<1>d. \A p : p \in Workers \/ p \in Routes \/ p \in Stops \/ p \in Pollers => p \in Procs
  BY DEF Procs, Syncers
<1>s. \A p : p \in Workers \/ p \in Routes => p \in Syncers
  BY DEF Syncers
<1>i. \A p : Leave(p) => Become(p, "idle", "RUNNING")
  BY DEF Leave, Become, Idle
<1>e. status' = status => /\ status \in terminal => status' \in terminal
                          /\ kind # "check" /\ status' \in Ends => status \in Ends
  OBVIOUS
<1>1. CASE Finish \/ Purge \/ EnqueueFails \/ UNCHANGED vars
  <2>1. /\ frame' = frame /\ queued' = queued /\ chained' = chained /\ status' = status
        /\ kind' = kind /\ disowned' = disowned /\ misread' = misread
        /\ ~claimed' => ~claimed
    BY <1>1 DEF Finish, Purge, EnqueueFails, vars, rowVars, faultVars
  <2>2. /\ Outstanding \in Nat /\ Outstanding' = Outstanding
        /\ Dispatches \in Nat /\ Dispatches' = Dispatches
    BY <2>1, <1>t, OutstandingStays
  <2> QED BY <2>1, <2>2, <1>e, CountsFall
<1>2. CASE SyncRunningItems
  <2>1. /\ frame' = frame /\ queued' = queued + 1 /\ chained' = chained /\ status' = status
        /\ Claimable /\ claimed' = TRUE /\ UNCHANGED <<kind, disowned, misread>>
    BY <1>2 DEF SyncRunningItems, faultVars
  <2>2. /\ Outstanding \in Nat /\ Outstanding' = Outstanding + 1
        /\ Dispatches \in Nat /\ Dispatches' = Dispatches
    BY <2>1, <1>t, OutstandingStays
  <2> QED BY <2>1, <2>2, ClaimTaken
<1>3. CASE ClaimExpires
  <2>1. /\ frame' = frame /\ queued' = queued /\ chained' = chained /\ status' = status
        /\ kind' = kind /\ misread' = misread /\ (disowned => disowned')
        /\ ~disowned' => ~(Outstanding > 0)
    BY <1>3 DEF ClaimExpires
  <2>2. /\ Outstanding \in Nat /\ Outstanding' = Outstanding
        /\ Dispatches \in Nat /\ Dispatches' = Dispatches
    BY <2>1, <1>t, OutstandingStays
  <2>3. ~(Outstanding > 0) => Outstanding' = 0
    BY <2>2
  <2> QED BY <2>1, <2>2, <2>3, <1>e, CountsFall
<1>4. ASSUME NEW w \in Workers, Take(w) \/ ClearClaim(w) \/ Reload(w) \/ Execute(w)
      PROVE  ClaimCounts' /\ ChainsCounted' /\ VerdictSettled'
  <2>1. CASE Take(w)
    <3> DEFINE st == IF status = "RUNNING" THEN "execute" ELSE "clear"
    <3>1. /\ Become(w, st, status) /\ queued' = queued - 1 /\ chained' = chained
          /\ UNCHANGED <<claimed, status, kind, disowned, misread>>
      BY <2>1 DEF Take, rowVars, faultVars
    <3>2. Counts(w, frame[w].step) = 0 /\ Counts(w, st) = 1 /\ Owes(w, st, status) = 0
      BY <2>1, CountsOfSteps DEF Take, At
    <3>3. Counts(w, st) + (queued' - queued) = Counts(w, frame[w].step)
      BY <3>1, <3>2, <1>t
    <3> QED BY <3>1, <3>2, <3>3, <1>s, SyncGoesOn
  <2>2. CASE ClearClaim(w)
    BY <2>2, <1>t, <1>d, <1>e, <1>i, CountsOfSteps, MoveFalls DEF ClearClaim, At, faultVars
  <2>3. CASE Reload(w)
    <3>1. /\ Become(w, "execute", status) /\ queued' = queued /\ chained' = chained
          /\ UNCHANGED <<claimed, status, kind, disowned, misread>>
      BY <2>3 DEF Reload, rowVars, faultVars
    <3>2. /\ Counts(w, frame[w].step) = Counts(w, "execute")
          /\ Counts(w, "execute") \in {0, 1} /\ Owes(w, "execute", status) = 0
      BY <2>3, CountsOfSteps DEF Reload, At
    <3>3. Counts(w, "execute") + (queued' - queued) = Counts(w, frame[w].step)
      BY <3>1, <3>2, <1>t
    <3> QED BY <3>1, <3>2, <3>3, <1>s, SyncGoesOn
  <2>4. CASE Execute(w)
    <3>1. PICK st \in Verdicts(frame[w].status) :
            /\ Become(w, "save", st) /\ queued' = queued /\ chained' = chained
            /\ UNCHANGED <<claimed, status, kind, disowned, misread>>
      BY <2>4 DEF Execute, rowVars, faultVars
    <3>2. /\ Counts(w, frame[w].step) = Counts(w, "save")
          /\ Counts(w, "save") \in {0, 1} /\ Owes(w, "save", st) = 0
      BY <2>4, CountsOfSteps DEF Execute, At
    <3>3. Counts(w, "save") + (queued' - queued) = Counts(w, frame[w].step)
      BY <3>1, <3>2, <1>t
    <3> QED BY <3>1, <3>2, <3>3, <1>s, SyncGoesOn
  <2> QED BY <1>4, <2>1, <2>2, <2>3, <2>4
<1>5. ASSUME NEW r \in Routes, RouteLoad(r) \/ RouteClaim(r) \/ Execute(r) \/ RouteRaises(r)
      PROVE  ClaimCounts' /\ ChainsCounted' /\ VerdictSettled'
  <2>1. CASE RouteLoad(r)
    <3>1. /\ Become(r, "claim", status) /\ queued' = queued /\ chained' = chained
          /\ UNCHANGED <<claimed, status, kind, disowned, misread>>
      BY <2>1 DEF RouteLoad, rowVars, faultVars
    <3>2. /\ Counts(r, frame[r].step) = Counts(r, "claim")
          /\ Counts(r, "claim") \in {0, 1} /\ Owes(r, "claim", status) = 0
      BY <2>1, CountsOfSteps DEF RouteLoad, At
    <3>3. Counts(r, "claim") + (queued' - queued) = Counts(r, frame[r].step)
      BY <3>1, <3>2, <1>t
    <3> QED BY <3>1, <3>2, <3>3, <1>s, SyncGoesOn
  <2>2. CASE RouteClaim(r) /\ ~Claimable
    BY <2>2, <1>t, <1>d, <1>e, <1>i, CountsOfSteps, MoveFalls DEF RouteClaim, At, faultVars
  <2>3. CASE RouteClaim(r) /\ Claimable
    <3>1. /\ Become(r, "execute", frame[r].status) /\ frame[r].step = "claim"
          /\ queued' = queued /\ chained' = chained /\ status' = status
          /\ claimed' = TRUE /\ UNCHANGED <<kind, disowned, misread>>
      BY <2>3 DEF RouteClaim, At, faultVars
    <3>2. /\ Outstanding \in Nat /\ Outstanding' = Outstanding + 1
          /\ Dispatches \in Nat /\ Dispatches' = Dispatches
      BY <3>1, <1>t, <1>d, CountsOfSteps, OutstandingMoves
    <3> QED BY <3>1, <3>2, <2>3, ClaimTaken
  <2>4. CASE Execute(r)
    <3>1. PICK st \in Verdicts(frame[r].status) :
            /\ Become(r, "save", st) /\ queued' = queued /\ chained' = chained
            /\ UNCHANGED <<claimed, status, kind, disowned, misread>>
      BY <2>4 DEF Execute, rowVars, faultVars
    <3>2. /\ Counts(r, frame[r].step) = Counts(r, "save")
          /\ Counts(r, "save") \in {0, 1} /\ Owes(r, "save", st) = 0
      BY <2>4, CountsOfSteps DEF Execute, At
    <3>3. Counts(r, "save") + (queued' - queued) = Counts(r, frame[r].step)
      BY <3>1, <3>2, <1>t
    <3> QED BY <3>1, <3>2, <3>3, <1>s, SyncGoesOn
  <2>5. CASE RouteRaises(r)
    <3>1. /\ Become(r, "idle", "RUNNING")
          /\ queued' = queued /\ chained' = chained /\ status' = status
          /\ UNCHANGED <<kind, misread>>
          /\ disowned' = (disowned \/ (At(r, "refresh") /\ Outstanding > 0))
      BY <2>5, <1>i DEF RouteRaises
    <3>2. /\ Counts(r, "idle") = 0 /\ Counts(r, frame[r].step) \in {0, 1}
          /\ Owes(r, "idle", "RUNNING") = 0
          /\ At(r, "refresh") \/ Counts(r, frame[r].step) = 1
      BY <2>5, CountsOfSteps DEF RouteRaises, At
    <3>3. Counts(r, "idle") + (queued' - queued) <= Counts(r, frame[r].step)
      BY <3>1, <3>2, <1>t
    <3>4. ~disowned' => \/ ~(Outstanding > 0)
                        \/ /\ queued' = queued /\ Counts(r, "idle") = 0
                           /\ Counts(r, frame[r].step) = 1
      BY <3>1, <3>2, Zenon
    <3>5. disowned => disowned'
      BY <3>1
    <3> QED BY <3>1, <3>2, <3>3, <3>4, <3>5, <1>d, <1>e, MoveFalls
  <2> QED BY <1>5, <2>1, <2>2, <2>3, <2>4, <2>5
<1>6. ASSUME NEW p \in Procs, Abort(p) \/ GiveUp(p)
      PROVE  ClaimCounts' /\ ChainsCounted' /\ VerdictSettled'
  <2>1. Counts(p, "idle") = 0 /\ Counts(p, frame[p].step) \in {0, 1}
    BY CountsOfSteps DEF Counts, SyncSteps
  <2> QED BY <1>6, <2>1, <1>t, <1>e, <1>i, CountsOfSteps, MoveFalls DEF Abort, GiveUp, rowVars
<1>7. ASSUME NEW s \in Stops, StopLoad(s) \/ StopStep(s)
      PROVE  ClaimCounts' /\ ChainsCounted' /\ VerdictSettled'
  <2>1. CASE StopLoad(s)
    <3>1. /\ Become(s, "deregister", status) /\ queued' = queued /\ chained' = chained
          /\ UNCHANGED <<claimed, status, kind, disowned, misread>>
      BY <2>1 DEF StopLoad, rowVars, faultVars
    <3> QED BY <3>1, <1>7, <1>e, OutsiderMoves
  <2>2. CASE Deregister(s)
    <3>1. /\ Become(s, "execute", frame[s].status) /\ queued' = queued /\ chained' = chained
          /\ UNCHANGED <<claimed, status, kind, disowned, misread>>
      BY <2>2 DEF Deregister, rowVars, faultVars
    <3> QED BY <3>1, <1>7, <1>e, OutsiderMoves
  <2>3. CASE Execute(s)
    <3>1. PICK st \in Verdicts(frame[s].status) :
            /\ Become(s, "save", st) /\ queued' = queued /\ chained' = chained
            /\ UNCHANGED <<claimed, status, kind, disowned, misread>>
      BY <2>3 DEF Execute, rowVars, faultVars
    <3> QED BY <3>1, <1>7, <1>e, OutsiderMoves
  <2>4. CASE StopSave(s)
    <3>1. "STOPPED" \in terminal /\ "STOPPED" \notin Ends
      BY DEF terminal, Ends
    <3>2. /\ Become(s, "done", "STOPPED") /\ queued' = queued /\ chained' = chained
          /\ UNCHANGED <<claimed, kind, disowned, misread>> /\ status' = "STOPPED"
      BY <2>4 DEF StopSave, faultVars
    <3> QED BY <3>1, <3>2, <1>7, OutsiderMoves
  <2> QED BY <1>7, <2>1, <2>2, <2>3, <2>4 DEF StopStep
<1>8. ASSUME NEW p \in Pollers, Poll(p) \/ PollStep(p)
      PROVE  ClaimCounts' /\ ChainsCounted' /\ VerdictSettled'
  <2>1. CASE Poll(p)
    <3>1. /\ Become(p, "execute", status) /\ queued' = queued /\ chained' = chained
          /\ UNCHANGED <<claimed, status, kind, disowned, misread>>
      BY <2>1 DEF Poll, rowVars, faultVars
    <3> QED BY <3>1, <1>8, <1>e, OutsiderMoves
  <2>2. CASE Execute(p)
    <3>1. PICK st \in Verdicts(frame[p].status) :
            /\ Become(p, "save", st) /\ queued' = queued /\ chained' = chained
            /\ UNCHANGED <<claimed, status, kind, disowned, misread>>
      BY <2>2 DEF Execute, rowVars, faultVars
    <3> QED BY <3>1, <1>8, <1>e, OutsiderMoves
  <2>3. CASE PollSave(p)
    <3>1. kind = "check"
      BY <2>3 DEF PollSave, At, Idle, SyncInv, OnlyChecksPolled
    <3>2. status \in terminal => status' \in terminal
      BY <2>3, <1>t, <1>d DEF PollSave, TypeOK, Status
    <3>3. /\ Become(p, "idle", "RUNNING") /\ queued' = queued /\ chained' = chained
          /\ UNCHANGED <<claimed, kind, disowned, misread>>
      BY <2>3, <1>i DEF PollSave, faultVars
    <3> QED BY <3>1, <3>2, <3>3, <1>8, OutsiderMoves
  <2> QED BY <1>8, <2>1, <2>2, <2>3 DEF PollStep
<1>9. ASSUME NEW p \in Syncers, SaveSync(p) \/ RefreshAndChain(p)
      PROVE  ClaimCounts' /\ ChainsCounted' /\ VerdictSettled'
  BY <1>9, SaveSettles, ChainSettles
<1> QED BY <1>1, <1>2, <1>3, <1>4, <1>5, <1>6, <1>7, <1>8, <1>9, <1>d
        DEF Next, WorkerStep, RouteStep, Syncers
-------------------------------------------------------------------------------
(* Every step keeps the invariant.                                            *)
LEMMA InvStep == SyncInv /\ [Next]_vars => SyncInv'
BY TypeStep, CountingStep, PollersStep DEF SyncInv

(* The values a row, a job and a process can have are the ones of TypeOK.       *)
THEOREM SyncTypeCorrect == Spec => []TypeOK
<1>1. Init => TypeOK
  BY TypeInit
<1>2. TypeOK /\ [Next]_vars => TypeOK'
  BY TypeStep
<1> QED BY <1>1, <1>2, PTL DEF Spec

(* Claims, syncs under way and dispatches due are counted as SyncInv says.      *)
THEOREM SyncInvariant == Spec => []SyncInv
<1>1. Init => SyncInv
  BY InvInit
<1>2. SyncInv /\ [Next]_vars => SyncInv'
  BY InvStep
<1> QED BY <1>1, <1>2, PTL DEF Spec

(* Unless a claim was dropped early, two Celery syncs or syncs of the route      *)
(* never work on the same row, whatever the number of workers and requests.    *)
THEOREM OneSyncHolds == Spec => []OneSyncAtATime
<1>1. SyncInv => OneSyncAtATime
  BY DEF SyncInv, ClaimCounts, OneSyncAtATime
<1> QED BY <1>1, SyncInvariant, PTL

(* Unless a claim was dropped early or a sync misread the row, the next task of *)
(* a chain is dispatched once at most by all workers and requests together.    *)
THEOREM ChainOnceHolds == Spec => []ChainOnce
<1>1. SyncInv => ChainOnce
  <2> SUFFICES ASSUME SyncInv, ~disowned, ~misread PROVE chained <= 1
    BY DEF ChainOnce
  <2>1. chained \in Nat /\ Cardinality(Pending) \in Nat
    BY CountsAreNumbers DEF SyncInv, TypeOK
  <2>2. Dispatches > 0 => Dispatches = 1
    BY DEF SyncInv, ChainsCounted
  <2> QED BY <2>1, <2>2 DEF Dispatches
<1> QED BY <1>1, SyncInvariant, PTL

(* Unless a claim was dropped early, no step of anybody makes a row RUNNING      *)
(* again that has the status Nomad told.                                      *)
THEOREM VerdictHolds == Spec => VerdictStays
<1>1. SyncInv /\ [Next]_vars
        => [kind # "check" /\ ~disowned /\ status \in Ends => status' # "RUNNING"]_vars
  <2> SUFFICES ASSUME SyncInv, Next, kind # "check", ~disowned, status \in Ends
               PROVE  status' # "RUNNING"
    BY Zenon
  <2>1. status # "RUNNING"
    BY DEF Ends
  <2>2. Busy = {}
    <3>1. Outstanding = 0
      BY DEF SyncInv, VerdictSettled
    <3>2. Cardinality(Busy) = 0
      BY <3>1, CountsAreNumbers DEF Outstanding, SyncInv, TypeOK
    <3> QED BY <3>2, CountsAreNumbers, FS_EmptySet
  <2>3. \A p \in Syncers : ~SaveSync(p)
    BY <2>2 DEF Busy, SaveSync, At, SyncSteps
  <2>4. \A p \in Pollers : ~PollSave(p)
    BY DEF SyncInv, OnlyChecksPolled, Idle, PollSave, At
  <2>5. status' = status \/ status' = "STOPPED"
    BY <2>3, <2>4 DEF Next, Finish, Purge, SyncRunningItems, EnqueueFails, ClaimExpires,
         Take, WorkerStep, ClearClaim, Reload, Execute, RefreshAndChain, Abort, RouteLoad,
         RouteStep, RouteClaim, RouteRaises, StopLoad, StopStep, Deregister, StopSave,
         GiveUp, Poll, PollStep, Syncers, rowVars
  <2> QED BY <2>1, <2>5
<1> QED BY <1>1, SyncInvariant, PTL DEF Spec, VerdictStays
================================================================================
