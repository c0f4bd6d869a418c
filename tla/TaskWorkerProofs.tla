-------------------------- MODULE TaskWorkerProofs --------------------------
(***************************************************************************)
(* What holds of the worker for any number of tasks, keys and permits, and *)
(* any number of shutdowns, crashes and store errors.                      *)
(***************************************************************************)
EXTENDS TaskWorker, RuntimeTaskStoreProofs, FiniteSetTheorems

\* The inductive invariant.  InFlightIsRunning is why the store accepts the
\* outcome of a handler, StoreInv why a claim or a purge takes no row away
\* from a coroutine.
Inv == TypeOK /\ StoreInv /\ InFlightIsRunning

USE WorkerAssumption

\* Steps that leave the store alone, or the tasks in flight.
LEMMA StoreUnchanged ==
  ASSUME StoreInv, UNCHANGED storeVars
  PROVE  StoreInv' /\ StatusesMove
BY DEF storeVars, StoreInv, StoreTypeOK, KeysUnique, ParentsPresent, LeaseIffRunning,
       AbsentIsBlank, Active, Status, StatusesMove, Lifecycle!TaskStep

\* Tasks in flight stay RUNNING where a step moves no status.
LEMMA StaysInFlight ==
  ASSUME InFlightIsRunning,
         \A u \in Tasks : InFlight(u)' => InFlight(u) /\ Status(u)' = Status(u)
  PROVE  InFlightIsRunning'
BY DEF InFlightIsRunning, Status

\* A coroutine moves to another of its labels.
LEMMA GoToType ==
  ASSUME TypeOK, NEW t \in Tasks, NEW label \in PCs, GoTo(t, label)
  PROVE  /\ pc' \in [Tasks -> PCs]
         /\ \A u \in Tasks : pc'[u] = IF u = t THEN label ELSE pc[u]
BY DEF TypeOK, GoTo

\* A fresh process satisfies the invariant.
LEMMA WorkerInit == Init => Inv
BY InitKeeps DEF Init, Inv, TypeOK, StoreInv, InFlightIsRunning, InFlight, WorkerStates, PCs

-----------------------------------------------------------------------------
(* The service.                                                            *)

\* Reconciliation fails INITIALIZING rows, which no coroutine works on.
LEMMA ReconcileStep ==
  ASSUME Inv, NEW t \in Tasks, Reconcile(t)
  PROVE  Inv' /\ StatusesMove
<1>1. Status(t) = "initializing" /\ FailInitialization(t)
  BY DEF Reconcile, StaleInitializing
<1>2. StoreInv' /\ StatusesMove
  BY <1>1, FailInitializationKeeps DEF Inv
<1>3. InFlightIsRunning'
  BY <1>1 DEF Inv, TypeOK, StoreTypeOK, Reconcile, FailInitialization, coroutines,
              InFlightIsRunning, InFlight, Status
<1> QED
  BY <1>2, <1>3 DEF Inv, TypeOK, StoreInv, Reconcile, coroutines, records

\* Start, stop and crash move statuses only through the store.
LEMMA ServiceStep ==
  ASSUME Inv, Start \/ Stop \/ ExitLoop \/ CancelAll \/ ProcessEnds \/ Crash
  PROVE  Inv' /\ StatusesMove
<1> USE DEF Start, Stop, ExitLoop, CancelAll, ProcessEnds, Crash
<1>1. UNCHANGED storeVars
  OBVIOUS
<1>2. StoreInv' /\ StatusesMove
  BY <1>1, StoreUnchanged DEF Inv
<1>3. InFlightIsRunning'
  BY <1>1 DEF Inv, TypeOK, storeVars, coroutines, InFlightIsRunning, InFlight, Status
<1>4. TypeOK'
  BY <1>2 DEF Inv, TypeOK, StoreInv, coroutines, records, Interrupt, WorkerStates, PCs
<1> QED
  BY <1>2, <1>3, <1>4 DEF Inv

\* A tick purges terminal rows, never those in flight.
LEMMA TickPurgeStep ==
  ASSUME Inv, TickPurge
  PROVE  Inv' /\ StatusesMove
<1>1. StoreInv' /\ StatusesMove
  BY PurgeKeeps, StoreUnchanged DEF TickPurge, Inv
<1>2. UNCHANGED <<worker, pc, waitFor, interruptions>> /\ loop' = "claiming"
  BY DEF TickPurge
<1>3. \A t \in Tasks : Status(t) = "running" => Status(t)' = Status(t)
  <2>1. CASE PurgeTerminalTasks
    <3>1. \A t \in Tasks : Status(t) = "running" => t \notin Purgeable
      BY DEF Purgeable, Terminal, TERMINAL_STATUSES
    <3> QED
      BY <2>1, <3>1 DEF PurgeTerminalTasks, Status
  <2>2. CASE UNCHANGED storeVars
    BY <2>2 DEF storeVars, Status
  <2> QED
    BY <2>1, <2>2 DEF TickPurge
<1>4. InFlightIsRunning'
  BY <1>2, <1>3 DEF Inv, InFlightIsRunning, InFlight, Status
<1>5. /\ outcome' \in [Tasks -> Outcomes \cup {None}]
      /\ run' \in [Tasks -> {"none", "running", "succeeded", "failed"}]
      /\ events' \in [Tasks -> Nat]
      /\ refused' \subseteq Tasks
  BY DEF TickPurge, records, Inv, TypeOK
<1> QED
  BY <1>1, <1>2, <1>4, <1>5 DEF Inv, TypeOK, StoreInv

\* A tick spawns coroutines for the rows it claimed.
LEMMA TickClaimStep ==
  ASSUME Inv, TickClaim
  PROVE  Inv' /\ StatusesMove
<1>1. CASE \E S \in SUBSET Tasks :
             /\ ClaimDue(S)
             /\ pc' = [t \in Tasks |-> IF t \in S THEN "kindSem" ELSE pc[t]]
             /\ waitFor' \in [Tasks -> SUBSET Tasks]
  <2> PICK S \in SUBSET Tasks :
             /\ ClaimDue(S)
             /\ pc' = [t \in Tasks |-> IF t \in S THEN "kindSem" ELSE pc[t]]
             /\ waitFor' \in [Tasks -> SUBSET Tasks]
    BY <1>1
  <2>1. StoreInv' /\ StatusesMove
    BY ClaimDueKeeps DEF Inv
  <2>2. \A t \in Tasks : /\ t \in S => Status(t)' = "running"
                         /\ t \notin S => Status(t)' = Status(t)
    <3>1. \A t \in Tasks :
             task'[t] = IF t \in S THEN [task[t] EXCEPT !.status = "running", !.leased = TRUE]
                        ELSE task[t]
      BY DEF ClaimDue
    <3>2. task \in [Tasks -> Row]
      BY DEF Inv, TypeOK, StoreTypeOK
    <3> QED
      BY <3>1, <3>2 DEF Status, Row
  <2>3. InFlightIsRunning'
    BY <2>2 DEF Inv, InFlightIsRunning, InFlight, Status
  <2>4. pc' \in [Tasks -> PCs]
    BY DEF Inv, TypeOK, PCs
  <2> QED
    BY <2>1, <2>3, <2>4 DEF Inv, TypeOK, StoreInv, TickClaim, records
<1>2. CASE UNCHANGED <<storeVars, pc, waitFor>>
  <2>1. StoreInv' /\ StatusesMove
    BY <1>2, StoreUnchanged DEF Inv
  <2>2. InFlightIsRunning'
    BY <1>2 DEF storeVars, Inv, InFlightIsRunning, InFlight, Status
  <2> QED
    BY <1>2, <2>1, <2>2 DEF Inv, TypeOK, StoreInv, TickClaim, records
<1> QED
  BY <1>1, <1>2 DEF TickClaim, Inv, TypeOK

-----------------------------------------------------------------------------
(* The coroutine of a claimed task.                                        *)

\* Steps that move the coroutine and touch no row.
LEMMA AcquireStep ==
  ASSUME Inv, NEW t \in Tasks, AcquireKind(t) \/ AcquireGlobal(t)
  PROVE  Inv' /\ StatusesMove
<1> USE DEF AcquireKind, AcquireGlobal
<1>1. UNCHANGED storeVars
  OBVIOUS
<1>2. StoreInv' /\ StatusesMove
  BY <1>1, StoreUnchanged DEF Inv
<1>3. InFlightIsRunning'
  BY <1>1 DEF storeVars, Inv, TypeOK, InFlightIsRunning, InFlight, Status
<1>4. pc' \in [Tasks -> PCs] /\ waitFor' \in [Tasks -> SUBSET Tasks]
  BY DEF Inv, TypeOK, PCs, Holding
<1> QED
  BY <1>2, <1>3, <1>4 DEF Inv, TypeOK, StoreInv, records

\* Opening and closing the run record touches no status.
LEMMA RecordStep ==
  ASSUME Inv, NEW t \in Tasks, RecordRun(t) \/ PublishEvents(t) \/ CloseRun(t)
  PROVE  Inv' /\ StatusesMove
<1> USE DEF RecordRun, PublishEvents, CloseRun, Refused, Interrupt
<1>1. UNCHANGED storeVars
  OBVIOUS
<1>2. StoreInv' /\ StatusesMove
  BY <1>1, StoreUnchanged DEF Inv
<1>3. /\ pc' \in [Tasks -> PCs]
      /\ \A u \in Tasks : InFlight(u)' => InFlight(u)
  BY DEF Inv, TypeOK, GoTo, Release, PCs, Holding, Applying, InFlight
<1>4. InFlightIsRunning'
  BY <1>1, <1>3, StaysInFlight DEF storeVars, Inv, Status
<1>5. /\ run' \in [Tasks -> {"none", "running", "succeeded", "failed"}]
      /\ events' \in [Tasks -> Nat]
      /\ refused' \subseteq Tasks
      /\ interruptions' \in Nat
  BY DEF Inv, TypeOK, Verdict
<1> QED
  BY <1>2, <1>3, <1>4, <1>5 DEF Inv, TypeOK, StoreInv, Release

\* Where an outcome leads.
LEMMA DecideType ==
  ASSUME TypeOK, NEW t \in Tasks, NEW o \in Outcomes, Decide(t, o)
  PROVE  /\ outcome' \in [Tasks -> Outcomes \cup {None}]
         /\ pc' \in [Tasks -> PCs]
         /\ \A u \in Tasks \ {t} : pc'[u] = pc[u]
BY DEF TypeOK, Decide, GoTo, PCs, Holding, Applying

\* A handler's outcome leads to the step that applies it.
LEMMA HandlerStep ==
  ASSUME Inv, NEW t \in Tasks, HandlerSync(t) \/ HandlerAsync(t) \/ HandlerReturns(t)
  PROVE  Inv' /\ StatusesMove
<1>1. /\ InFlight(t)
      /\ loop' \in {"idle", "claiming"} \cup Tasks
      /\ UNCHANGED <<waitFor, records, worker, interruptions>>
  BY DEF HandlerSync, HandlerAsync, HandlerReturns, InFlight, Inv, TypeOK
<1>2. /\ outcome' \in [Tasks -> Outcomes \cup {None}]
      /\ pc' \in [Tasks -> PCs]
      /\ \A u \in Tasks \ {t} : pc'[u] = pc[u]
  <2>1. \/ \E o \in Outcomes : Decide(t, o)
        \/ GoTo(t, "await") /\ UNCHANGED outcome
    BY WorkerAssumption DEF HandlerSync, HandlerAsync, HandlerReturns, ThreadEndings, Outcomes
  <2> QED
    BY <2>1, DecideType, GoToType DEF Inv, TypeOK, PCs, Holding
<1>3. StoreInv' /\ StatusesMove /\ \A u \in Tasks : Status(u)' = Status(u)
  <2>1. CASE UNCHANGED storeVars
    BY <2>1, StoreUnchanged DEF Inv, storeVars, Status
  <2>2. CASE \E x \in ExclusiveKeys : BindDownloadMonitorIdentity(t, x)
    <3> PICK x \in ExclusiveKeys : BindDownloadMonitorIdentity(t, x)
      BY <2>2
    <3>1. StoreInv' /\ StatusesMove
      BY BindKeeps DEF Inv
    <3>2. \A u \in Tasks : Status(u)' = Status(u)
      BY DEF BindDownloadMonitorIdentity, Status, Inv, TypeOK, StoreTypeOK, Row
    <3> QED
      BY <3>1, <3>2
  <2> QED
    BY <2>1, <2>2 DEF HandlerSync, HandlerAsync, HandlerReturns
<1>4. InFlightIsRunning'
  BY <1>1, <1>2, <1>3, StaysInFlight DEF Inv, InFlight
<1> QED
  BY <1>1, <1>2, <1>3, <1>4 DEF Inv, TypeOK, StoreInv, records

\* Children are inserted before the parent's outcome is applied.
LEMMA SpawnStep ==
  ASSUME Inv, NEW t \in Tasks, SpawnChildren(t)
  PROVE  Inv' /\ StatusesMove
<1>1. /\ pc' \in [Tasks -> PCs]
      /\ \A u \in Tasks : InFlight(u)' => InFlight(u)
  BY GoToType DEF SpawnChildren, Inv, InFlight, PCs, Holding, Applying
<1>2. StoreInv' /\ StatusesMove
      /\ \A u \in Tasks : InFlight(u) => Status(u)' = Status(u)
  <2>1. CASE UNCHANGED storeVars
    BY <2>1, StoreUnchanged DEF Inv, storeVars, Status
  <2>2. CASE \E d \in DedupeKeys, c \in Tasks :
               /\ Fresh(c)
               /\ Enqueue(c, "organize_download", "null", t, d, None)
    <3> PICK d \in DedupeKeys, c \in Tasks :
               /\ Fresh(c)
               /\ Insert(c, "queued", "organize_download", "null", t, d, None)
      BY <2>2 DEF Enqueue
    <3>1. StoreInv' /\ StatusesMove
      BY InsertKeeps DEF Inv, Kinds, RunAfter
    <3>2. \A u \in Tasks : InFlight(u) => Status(u)' = Status(u)
      BY DEF Insert, Fresh, InFlight, Status, Inv, TypeOK, StoreTypeOK
    <3> QED
      BY <3>1, <3>2
  <2> QED
    BY <2>1, <2>2 DEF SpawnChildren
<1>3. InFlightIsRunning'
  BY <1>1, <1>2, StaysInFlight DEF Inv
<1> QED
  BY <1>1, <1>2, <1>3 DEF Inv, TypeOK, StoreInv, SpawnChildren, records, Interrupt

\* The coroutine's own write: back to WAITING ...
LEMMA RescheduleStep ==
  ASSUME Inv, NEW t \in Tasks, ApplyReschedule(t)
  PROVE  Inv' /\ StatusesMove
<1> DEFINE f == task[t].failures + IF outcome[t] = "retryable" THEN 1 ELSE 0
<1>1. f \in Nat
  BY DEF Inv, TypeOK, StoreTypeOK, Row
<1> HIDE DEF f
<1>2. \/ Reschedule(t, f) /\ UNCHANGED interruptions
      \/ UNCHANGED storeVars /\ interruptions' = interruptions + 1
  BY DEF ApplyReschedule, LoseOutcome, Interrupt, f
<1>3. Release(t)
  BY DEF ApplyReschedule, LoseOutcome
<1>4. /\ pc' \in [Tasks -> PCs]
      /\ \A u \in Tasks : InFlight(u)' => InFlight(u) /\ u # t
  BY <1>3, GoToType DEF Release, Inv, InFlight, PCs
<1>5. StoreInv' /\ StatusesMove
  BY <1>1, <1>2, RescheduleKeeps, StoreUnchanged DEF Inv
<1>6. \A u \in Tasks : u # t => Status(u)' = Status(u)
  BY <1>2 DEF Reschedule, storeVars, Status, Inv, TypeOK, StoreTypeOK
<1>7. InFlightIsRunning'
  BY <1>4, <1>6, StaysInFlight DEF Inv
<1>8. /\ outcome' \in [Tasks -> Outcomes \cup {None}]
      /\ loop' = "idle" /\ interruptions' \in Nat
      /\ UNCHANGED <<waitFor, records, worker>>
  BY <1>2, <1>3 DEF Inv, TypeOK, ApplyReschedule, Forget, Release
<1> QED
  BY <1>4, <1>5, <1>7, <1>8 DEF Inv, TypeOK, StoreInv, records

\* ... or to a terminal status, and the task is no longer in flight.
LEMMA FinishStep ==
  ASSUME Inv, NEW t \in Tasks, ApplyFinish(t)
  PROVE  Inv' /\ StatusesMove
<1> DEFINE f == task[t].failures + IF Verdict(t) = "failed" THEN 1 ELSE 0
<1>1. f \in Nat /\ Verdict(t) \in {"succeeded", "failed"}
  BY DEF Inv, TypeOK, StoreTypeOK, Row, Verdict
<1> HIDE DEF f
<1>2. \/ /\ \E stamp \in BOOLEAN : Finish(t, Verdict(t), f, stamp)
         /\ GoTo(t, "closeRun") /\ UNCHANGED <<loop, interruptions>>
      \/ /\ UNCHANGED storeVars /\ Release(t)
         /\ interruptions' = interruptions + 1
  BY DEF ApplyFinish, LoseOutcome, Interrupt, f
<1>3. Status(t) = "running"
  BY DEF ApplyFinish, Inv, InFlightIsRunning, InFlight
<1>4. /\ pc' \in [Tasks -> PCs] /\ loop' \in {"idle", "claiming"} \cup Tasks
      /\ \A u \in Tasks : InFlight(u)' => InFlight(u) /\ u # t
  BY <1>2, GoToType DEF Release, Inv, TypeOK, InFlight, PCs, Holding
<1>5. StoreInv' /\ StatusesMove
  BY <1>1, <1>2, <1>3, FinishKeeps, StoreUnchanged DEF Inv
<1>6. \A u \in Tasks : u # t => Status(u)' = Status(u)
  BY <1>2 DEF Finish, storeVars, Status, Inv, TypeOK, StoreTypeOK
<1>7. InFlightIsRunning'
  BY <1>4, <1>6, StaysInFlight DEF Inv
<1> QED
  BY <1>2, <1>4, <1>5, <1>7 DEF Inv, TypeOK, StoreInv, ApplyFinish, records

\* Any step of a task's coroutine.
LEMMA CoroutineStep ==
  ASSUME Inv, NEW t \in Tasks, Coroutine(t)
  PROVE  Inv' /\ StatusesMove
BY RecordStep, HandlerStep, SpawnStep, RescheduleStep, FinishStep DEF Coroutine

-----------------------------------------------------------------------------
(* Route threads and the clock.                                            *)

\* A store call of another thread keeps the tasks in flight RUNNING.
LEMMA OtherThread ==
  ASSUME Inv, StoreInv', UNCHANGED <<coroutines, records, worker, interruptions>>,
         \A u \in Tasks : Status(u) = "running" => Status(u)' = Status(u)
  PROVE  Inv'
<1>1. InFlightIsRunning'
  BY DEF Inv, InFlightIsRunning, InFlight, coroutines, Status
<1> QED
  BY <1>1 DEF Inv, TypeOK, StoreInv, coroutines, records

\* Any call of another thread.
LEMMA RouteStep ==
  ASSUME Inv, Route
  PROVE  Inv' /\ StatusesMove
<1> DEFINE Kept == /\ StoreInv' /\ StatusesMove
                   /\ \A u \in Tasks : Status(u) = "running" => Status(u)' = Status(u)
<1> USE DEF Inv, TypeOK, StoreTypeOK
<1>1. ASSUME NEW t \in Tasks, NEW d \in DedupeKeys \cup {None},
             Prepare(t, "download_watch", d, None)
      PROVE  Kept
  <2>1. StoreInv' /\ StatusesMove
    <3>1. Insert(t, "initializing", "download_watch", "null", None, d, None)
      BY <1>1 DEF Prepare
    <3> QED
      BY <3>1, InsertKeeps DEF Kinds, RunAfter
  <2>2. \A u \in Tasks : Status(u) = "running" => Status(u)' = Status(u)
    BY <1>1 DEF Prepare, Insert, Status
  <2> QED
    BY <2>1, <2>2
<1>2. ASSUME NEW t \in Tasks, NEW d \in DedupeKeys \cup {None}, NEW x \in ExclusiveKeys,
             NEW ra \in {"null", "future"},
             Enqueue(t, "download_watch", ra, None, d, x)
      PROVE  Kept
  <2>1. StoreInv' /\ StatusesMove
    <3>1. Insert(t, "queued", "download_watch", ra, None, d, x) /\ ra \in RunAfter
      BY <1>2 DEF Enqueue, RunAfter
    <3> QED
      BY <3>1, InsertKeeps DEF Kinds
  <2>2. \A u \in Tasks : Status(u) = "running" => Status(u)' = Status(u)
    BY <1>2 DEF Enqueue, Insert, Status
  <2> QED
    BY <2>1, <2>2
<1>3. ASSUME NEW t \in Tasks, NEW x \in ExclusiveKeys \cup {None}, Activate(t, "null", x)
      PROVE  Kept
  <2>1. StoreInv' /\ StatusesMove
    BY <1>3, ActivateKeeps DEF RunAfter
  <2>2. \A u \in Tasks : Status(u) = "running" => Status(u)' = Status(u)
    BY <1>3 DEF Activate, Status, CanTransition, LEGAL_TRANSITIONS
  <2> QED
    BY <2>1, <2>2
<1>4. ASSUME NEW t \in Tasks, Status(t) = "initializing", FailInitialization(t)
      PROVE  Kept
  BY <1>4, FailInitializationKeeps DEF FailInitialization, Status
<1>5. ASSUME NEW t \in Tasks, CancelPending(t)
      PROVE  Kept
  BY <1>5, CancelPendingKeeps DEF CancelPending, Status
<1>6. ASSUME NEW t \in Tasks, UpdateDownloadMonitor(t)
      PROVE  Kept
  BY <1>6, UpdateDownloadMonitorKeeps DEF UpdateDownloadMonitor, Status, Row
<1>7. Kept
  BY <1>1, <1>2, <1>3, <1>4, <1>5, <1>6 DEF Route
<1>8. UNCHANGED <<coroutines, records, worker, interruptions>>
  BY DEF Route
<1> QED
  BY <1>7, <1>8, OtherThread

\* Any passing of time.
LEMMA ClockStep ==
  ASSUME Inv, NEW t \in Tasks, Clock(t)
  PROVE  Inv' /\ StatusesMove
<1>1. StoreInv' /\ StatusesMove
  BY BecomeDueKeeps, GrowOldKeeps DEF Clock, Inv
<1>2. \A u \in Tasks : Status(u)' = Status(u)
  BY DEF Clock, BecomeDue, GrowOld, Status, Inv, TypeOK, StoreTypeOK, Row
<1> QED
  BY <1>1, <1>2, OtherThread DEF Clock

-----------------------------------------------------------------------------
(* The theorems.                                                           *)

\* Any step of the worker, its callers and the clock.
LEMMA NextStep ==
  ASSUME Inv, [Next]_vars
  PROVE  Inv' /\ StatusesMove
<1>1. CASE Next
  BY <1>1, ReconcileStep, ServiceStep, TickPurgeStep, TickClaimStep, AcquireStep,
     CoroutineStep, RouteStep, ClockStep DEF Next
<1>2. CASE UNCHANGED vars
  <2>1. StoreInv' /\ StatusesMove
    BY <1>2, StoreUnchanged DEF vars, Inv
  <2> QED
    BY <1>2, <2>1, OtherThread DEF vars, storeVars, Status
<1> QED
  BY <1>1, <1>2

\* The invariant below every theorem here: the store's, and that tasks in
\* flight are RUNNING.
THEOREM InductiveInvariant == Spec => []Inv
<1>1. Init => Inv
  BY WorkerInit
<1>2. Inv /\ [Next]_vars => Inv'
  BY NextStep
<1> QED
  BY <1>1, <1>2, PTL DEF Spec

\* The variables keep their types, whatever the workers, routes, crashes and
\* store errors do.
THEOREM TypeCorrect == Spec => []TypeOK
BY InductiveInvariant, PTL DEF Inv

\* A task a coroutine works on stays RUNNING until its outcome is stored:
\* cancel_pending, update_download_monitor, activation, reconciliation, claims
\* and purges of any number of other threads cannot touch it.
THEOREM InFlightStaysRunning == Spec => []InFlightIsRunning
BY InductiveInvariant, PTL DEF Inv

\* The partial unique index and the dedupe lookups keep the keys unique over
\* every interleaving of creation, activation and late binding.
THEOREM KeysStayUnique == Spec => []KeysUnique
<1>1. Inv => KeysUnique
  BY DEF Inv, StoreInv
<1> QED
  BY <1>1, InductiveInvariant, PTL

\* A row is leased exactly while it is RUNNING.
THEOREM LeasesAreHeldWhileRunning == Spec => []LeaseIffRunning
<1>1. Inv => LeaseIffRunning
  BY DEF Inv, StoreInv
<1> QED
  BY <1>1, InductiveInvariant, PTL

\* Retention never leaves a row whose parent is gone.
THEOREM ParentsStayPresent == Spec => []ParentsPresent
<1>1. Inv => ParentsPresent
  BY DEF Inv, StoreInv
<1> QED
  BY <1>1, InductiveInvariant, PTL

\* The worker, the store and the routes together implement the lifecycle of
\* app/domain/runtime_tasks.py: the refinement by task[t].status.
THEOREM WorkerImplementsLifecycle == Spec => LifecycleSpec
<1> DEFINE st == [t \in Tasks |-> Status(t)]
<1>1. Init => Lifecycle!Init
  BY DEF Init, StoreInit, Status, NoRow, NewRow, Lifecycle!Init
<1>2. Inv /\ [Next]_vars => [Lifecycle!Next]_st
  <2> SUFFICES ASSUME Inv, [Next]_vars PROVE Lifecycle!Next
    OBVIOUS
  <2>1. Inv' /\ StatusesMove
    BY NextStep
  <2>2. \A t \in Tasks : st[t] = Status(t) /\ st'[t] = Status(t)'
    OBVIOUS
  <2>3. st' \in [Tasks -> Lifecycle!Statuses]
    BY <2>1 DEF Inv, TypeOK, StoreTypeOK, Row, Status, Statuses, ActiveStatuses,
                TERMINAL_STATUSES, Lifecycle!Statuses, Lifecycle!ActiveStatuses,
                Lifecycle!TERMINAL_STATUSES
  <2> QED
    BY <2>1, <2>2, <2>3 DEF StatusesMove, Lifecycle!Next
<1> QED
  BY <1>1, <1>2, InductiveInvariant, PTL DEF Spec, LifecycleSpec, Lifecycle!Spec

-----------------------------------------------------------------------------
(***************************************************************************)
(* How tasks end: what was published and recorded of it, and that no more  *)
(* handlers run than the semaphores have permits.                          *)
(***************************************************************************)

-----------------------------------------------------------------------------
(* Events and run rows.                                                    *)

\* A task that no claim has taken, or that was put back.
Unclaimed == {"absent", "initializing", "queued", "waiting"}

\* Where a coroutine keeps the event loop.
OnLoop == Holding \ {"await"}

\* What is known of the end of task t, from its claim on: nothing is announced
\* before the last store calls, and what they record agrees.
Ending(t) ==
  /\ events[t] <= 1
  /\ Status(t) \in Unclaimed => events[t] = 0 /\ outcome[t] = None
  /\ pc[t] \notin {"none", "finish", "closeRun"} => events[t] = 0
  /\ pc[t] = "finish" /\ t \notin refused => outcome[t] = "silent" \/ events[t] = 1
  /\ Status(t) \in {"succeeded", "failed"} /\ t \notin refused =>
       outcome[t] \in {None, "silent"} \/ events[t] = 1
  /\ pc[t] = "closeRun" => Status(t) = Verdict(t)
  /\ run[t] \in {"succeeded", "failed"} => Status(t) = run[t]
  /\ pc[t] \in OnLoop => loop = t

Ends == \A t \in Tasks : Ending(t)

\* A step that is about other tasks: of the row of u it may move the status
\* only while no coroutine has it.
Aside(u) ==
  /\ pc'[u] = pc[u] /\ outcome'[u] = outcome[u] /\ events'[u] = events[u]
  /\ run'[u] = run[u] /\ (u \in refused' <=> u \in refused)
  /\ pc[u] \in OnLoop => loop' = loop
  /\ \/ Status(u)' = Status(u)
     \/ Status(u) \in Unclaimed /\ Status(u)' \in Unclaimed \cup {"cancelled", "failed"}

\* The loop has an owner or none: a coroutine on it excludes the others.
LEMMA LoopIsOurs ==
  ASSUME Ends, NEW u \in Tasks, loop # u
  PROVE  pc[u] \notin OnLoop
BY DEF Ends, Ending

\* What a step leaves aside keeps what is known of its end.
LEMMA AsideKeeps ==
  ASSUME Inv, NEW u \in Tasks, Ending(u), Aside(u)
  PROVE  Ending(u)'
<1>1. Verdict(u)' = Verdict(u)
  BY DEF Aside, Verdict
<1>2. CASE Status(u)' = Status(u)
  BY <1>1, <1>2 DEF Aside, Ending
<1>3. CASE Status(u)' # Status(u)
  <2>1. Status(u) \in Unclaimed /\ Status(u)' \in Unclaimed \cup {"cancelled", "failed"}
    BY <1>3 DEF Aside
  <2>2. pc[u] = "none"
    BY <2>1 DEF Ending, Inv, InFlightIsRunning, InFlight, Unclaimed, Verdict
  <2> QED
    BY <2>1, <2>2 DEF Aside, Ending, Unclaimed, OnLoop, Holding, Applying
<1> QED
  BY <1>2, <1>3

-----------------------------------------------------------------------------
(* The service, its ticks and the other threads.                           *)

\* Reconciliation, routes and the clock move rows that wait for a claim.
LEMMA OthersEnds ==
  ASSUME Inv, Ends, Route \/ \E t \in Tasks : Reconcile(t) \/ Clock(t)
  PROVE  Ends'
<1> USE DEF Inv, TypeOK, StoreTypeOK, Status, Unclaimed
<1>1. UNCHANGED <<coroutines, records>>
  BY DEF Route, Reconcile, Clock
<1> DEFINE Moves(u) == \/ Status(u)' = Status(u)
                       \/ /\ Status(u) \in Unclaimed
                          /\ Status(u)' \in Unclaimed \cup {"cancelled", "failed"}
<1>2. ASSUME NEW t \in Tasks, NEW st \in {"initializing", "queued"}, NEW k, NEW ra, NEW p,
             NEW d, NEW x, Insert(t, st, k, ra, p, d, x), NEW u \in Tasks
      PROVE  Moves(u)
  BY <1>2 DEF Insert, NewRow
<1>3. ASSUME NEW t \in Tasks, NEW x, Activate(t, "null", x), NEW u \in Tasks
      PROVE  Moves(u)
  BY <1>3 DEF Activate, CanTransition, LEGAL_TRANSITIONS, Row
<1>4. ASSUME NEW t \in Tasks, Status(t) = "initializing", FailInitialization(t), NEW u \in Tasks
      PROVE  Moves(u)
  BY <1>4 DEF FailInitialization, Row
<1>5. ASSUME NEW t \in Tasks, CancelPending(t), NEW u \in Tasks
      PROVE  Moves(u)
  BY <1>5 DEF CancelPending, Row
<1>6. ASSUME NEW t \in Tasks, UpdateDownloadMonitor(t) \/ BecomeDue(t) \/ GrowOld(t),
             NEW u \in Tasks
      PROVE  Moves(u)
  <2>1. CASE UpdateDownloadMonitor(t)
    BY <1>6, <2>1 DEF UpdateDownloadMonitor, Row
  <2>2. CASE BecomeDue(t)
    BY <1>6, <2>2 DEF BecomeDue, Row
  <2>3. CASE GrowOld(t)
    BY <1>6, <2>3 DEF GrowOld, Row
  <2> QED
    BY <1>6, <2>1, <2>2, <2>3
<1>7. \A u \in Tasks : Moves(u)
  BY <1>2, <1>3, <1>4, <1>5, <1>6
     DEF Route, Prepare, Enqueue, Reconcile, StaleInitializing, Clock
<1>8. \A u \in Tasks : Aside(u)
  BY <1>1, <1>7 DEF Aside, coroutines, records
<1> QED
  BY <1>8, AsideKeeps DEF Ends

\* Coroutines may stop where they are.
LEMMA ServiceEnds ==
  ASSUME Inv, Ends, Start \/ Stop \/ ExitLoop \/ CancelAll \/ ProcessEnds \/ Crash
  PROVE  Ends'
<1>1. /\ UNCHANGED <<storeVars, outcome, records>>
      /\ \A u \in Tasks : pc'[u] \in {pc[u], "none"} /\ (pc'[u] = "none" \/ loop' = loop)
  BY DEF Start, Stop, ExitLoop, CancelAll, ProcessEnds, Crash, coroutines, Inv, TypeOK
<1>2. ASSUME NEW u \in Tasks PROVE Ending(u)'
  <2>1. Status(u)' = Status(u) /\ Verdict(u)' = Verdict(u) /\ Ending(u)
    BY <1>1 DEF storeVars, Status, Verdict, Ends
  <2> QED
    BY <1>1, <2>1 DEF Ending, records, OnLoop, Holding, Applying
<1> QED
  BY <1>2 DEF Ends

\* Retention takes no row a coroutine still works on.
LEMMA TickPurgeEnds ==
  ASSUME Inv, Ends, TickPurge
  PROVE  Ends'
<1>1. \A u \in Tasks : pc[u] \notin OnLoop
  BY LoopIsOurs, WorkerAssumption DEF TickPurge
<1>2. UNCHANGED pc
  BY DEF TickPurge
<1>3. ASSUME NEW u \in Tasks PROVE Ending(u)'
  <2>1. CASE PurgeTerminalTasks /\ u \in Purgeable
    <3>1. /\ outcome'[u] = None /\ run'[u] = "none" /\ events'[u] = 0 /\ u \notin refused'
          /\ Status(u)' = "absent"
      BY <2>1 DEF TickPurge, PurgeTerminalTasks, CanPurge, NoRow, NewRow, Status
    <3>2. pc'[u] = "none"
      BY <1>1, <1>2, <2>1 DEF Purgeable, Terminal, Inv, InFlightIsRunning, InFlight, OnLoop, Holding,
         Applying, TERMINAL_STATUSES
    <3> QED
      BY <3>1, <3>2 DEF Ending, OnLoop, Holding, Applying, Unclaimed
  <2>2. CASE PurgeTerminalTasks /\ u \notin Purgeable
    <3>1. Aside(u)
      BY <1>1, <1>2, <2>2 DEF Aside, TickPurge, PurgeTerminalTasks, Status
    <3> QED
      BY <3>1, AsideKeeps DEF Ends
  <2>3. CASE ~ PurgeTerminalTasks
    <3>1. Aside(u)
      BY <1>1, <1>2, <2>3 DEF Aside, TickPurge, records, storeVars, Status
    <3> QED
      BY <3>1, AsideKeeps DEF Ends
  <2> QED
    BY <2>1, <2>2, <2>3
<1> QED
  BY <1>3 DEF Ends

\* A claimed task has announced nothing.
LEMMA TickClaimEnds ==
  ASSUME Inv, Ends, TickClaim
  PROVE  Ends'
<1>1. \A u \in Tasks : pc[u] \notin OnLoop
  BY LoopIsOurs, WorkerAssumption DEF TickClaim
<1>2. UNCHANGED <<outcome, records>>
  BY DEF TickClaim
<1>3. CASE \E S \in SUBSET Tasks :
             /\ ClaimDue(S)
             /\ pc' = [t \in Tasks |-> IF t \in S THEN "kindSem" ELSE pc[t]]
  <2> PICK S \in SUBSET Tasks :
             /\ ClaimDue(S)
             /\ pc' = [t \in Tasks |-> IF t \in S THEN "kindSem" ELSE pc[t]]
    BY <1>3
  <2>1. ASSUME NEW u \in S PROVE Ending(u)'
    <3>1. Status(u) \in {"queued", "waiting"} /\ Status(u)' = "running" /\ pc'[u] = "kindSem"
      <4>1. Status(u) \in {"queued", "waiting"} /\ pc'[u] = "kindSem"
        BY DEF ClaimDue, Due
      <4>2. task'[u] = [task[u] EXCEPT !.status = "running", !.leased = TRUE]
        BY DEF ClaimDue
      <4>3. task[u] \in Row
        BY DEF Inv, TypeOK, StoreTypeOK
      <4> QED
        BY <4>1, <4>2, <4>3 DEF Status, Row
    <3>2. /\ events'[u] = 0 /\ run'[u] = run[u] /\ run[u] \notin {"succeeded", "failed"}
      BY <1>2, <3>1 DEF Ends, Ending, Unclaimed, records
    <3> QED
      BY <3>1, <3>2 DEF Ending, OnLoop, Holding, Applying, Unclaimed
  <2>2. ASSUME NEW u \in Tasks \ S PROVE Ending(u)'
    <3>1. task'[u] = task[u]
      BY DEF ClaimDue
    <3>2. Aside(u)
      BY <1>1, <1>2, <3>1 DEF Aside, Status, records
    <3> QED
      BY <3>2, AsideKeeps DEF Ends
  <2> QED
    BY <2>1, <2>2 DEF Ends
<1>4. CASE UNCHANGED <<storeVars, pc>>
  <2>1. \A u \in Tasks : Aside(u)
    BY <1>1, <1>2, <1>4 DEF Aside, storeVars, Status, records
  <2> QED
    BY <2>1, AsideKeeps DEF Ends
<1> QED
  BY <1>3, <1>4 DEF TickClaim

-----------------------------------------------------------------------------
(* The coroutine of a claimed task.                                        *)

\* A step of the coroutine of t that moves no other row.
LEMMA OneTaskEnds ==
  ASSUME Inv, Ends, NEW t \in Tasks, loop \in {"idle", t},
         \A u \in Tasks \ {t} :
           /\ pc'[u] = pc[u] /\ outcome'[u] = outcome[u] /\ events'[u] = events[u]
           /\ run'[u] = run[u] /\ (u \in refused' <=> u \in refused)
           /\ \/ Status(u)' = Status(u)
              \/ Status(u) \in Unclaimed /\ Status(u)' \in Unclaimed,
         Ending(t)'
  PROVE  Ends'
<1>1. ASSUME NEW u \in Tasks \ {t} PROVE Ending(u)'
  <2>1. pc[u] \notin OnLoop
    BY LoopIsOurs, WorkerAssumption
  <2>2. Aside(u)
    BY <2>1 DEF Aside
  <2> QED
    BY <2>2, AsideKeeps DEF Ends
<1> QED
  BY <1>1 DEF Ends

\* Waiting for permits announces nothing.
LEMMA AcquireEnds ==
  ASSUME Inv, Ends, NEW t \in Tasks, AcquireKind(t) \/ AcquireGlobal(t)
  PROVE  Ends'
<1>1. /\ UNCHANGED <<storeVars, outcome, records>> /\ loop = "idle"
      /\ pc[t] \in {"kindSem", "globalSem"}
      /\ \/ pc' = [pc EXCEPT ![t] = "globalSem"]
         \/ pc' = [pc EXCEPT ![t] = "begin"] /\ loop' = t
  BY DEF AcquireKind, AcquireGlobal
<1>2. /\ \A u \in Tasks \ {t} : pc'[u] = pc[u]
      /\ pc'[t] = "globalSem" \/ (pc'[t] = "begin" /\ loop' = t)
  BY <1>1 DEF Inv, TypeOK
<1>3. Ending(t)'
  BY <1>1, <1>2 DEF Ends, Ending, storeVars, Status, records, OnLoop, Holding, Applying
<1> QED
  BY <1>1, <1>2, <1>3, OneTaskEnds DEF storeVars, Status, records

\* Opening, announcing and closing a run come in the order of the code.
LEMMA RecordEnds ==
  ASSUME Inv, Ends, NEW t \in Tasks, RecordRun(t) \/ PublishEvents(t) \/ CloseRun(t)
  PROVE  Ends'
<1> USE DEF Refused, Interrupt
<1>1. UNCHANGED <<storeVars, outcome>> /\ loop = t /\ Ending(t)
  BY DEF RecordRun, PublishEvents, CloseRun, Ends
<1>2. /\ \A u \in Tasks \ {t} :
           /\ pc'[u] = pc[u] /\ events'[u] = events[u] /\ run'[u] = run[u]
           /\ (u \in refused' <=> u \in refused)
      /\ t \in refused => t \in refused'
  BY DEF RecordRun, PublishEvents, CloseRun, GoTo, Release, Inv, TypeOK
<1>3. Status(t)' = Status(t) /\ Verdict(t)' = Verdict(t)
  BY <1>1 DEF storeVars, Status, Verdict
<1>4. CASE RecordRun(t)
  <2>1. /\ pc[t] = "begin" /\ pc'[t] = "handler" /\ run'[t] \in {"running", "none"}
        /\ UNCHANGED <<events, loop>>
    BY <1>4 DEF RecordRun, GoTo, Inv, TypeOK
  <2> QED
    BY <1>1, <1>2, <1>3, <2>1, OneTaskEnds DEF Ending, storeVars, Status
<1>5. CASE PublishEvents(t)
  <2>1. /\ pc[t] = "events" /\ pc'[t] = "finish" /\ UNCHANGED <<run, loop>>
        /\ \/ events'[t] = events[t] + 1
           \/ events'[t] = events[t] /\ t \in refused'
    BY <1>5 DEF PublishEvents, GoTo, Inv, TypeOK
  <2>2. events[t] = 0 /\ Status(t) = "running"
    BY <1>1, <2>1 DEF Ending, Inv, InFlightIsRunning, InFlight
  <2> QED
    BY <1>1, <1>2, <1>3, <2>1, <2>2, OneTaskEnds DEF Ending, storeVars, Status, Unclaimed
<1>6. CASE CloseRun(t)
  <2>1. /\ pc[t] = "closeRun" /\ pc'[t] = "none" /\ UNCHANGED events
        /\ \/ run'[t] = IF run[t] = "running" THEN Verdict(t) ELSE run[t]
           \/ run'[t] = run[t]
    BY <1>6 DEF CloseRun, GoTo, Release, Inv, TypeOK
  <2> QED
    BY <1>1, <1>2, <1>3, <2>1, OneTaskEnds DEF Ending, storeVars, Status, OnLoop, Holding, Applying
<1> QED
  BY <1>4, <1>5, <1>6

\* Where an outcome leads: what is announced goes through the events.
LEMMA DecideEnds ==
  ASSUME Inv, Ends, NEW t \in Tasks, pc[t] \in {"handler", "await"}, loop' = t,
         NEW o \in Outcomes, Decide(t, o), UNCHANGED records, Status(t)' = Status(t)
  PROVE  Ending(t)'
<1>1. Ending(t) /\ Status(t) = "running"
  BY DEF Ends, Inv, InFlightIsRunning, InFlight
<1>2. /\ outcome'[t] = o
      /\ pc'[t] \in {"children", "reschedule", "events", "finish"}
      /\ pc'[t] = "finish" => o = "silent"
  BY DEF Decide, GoTo, Inv, TypeOK
<1> QED
  BY <1>1, <1>2 DEF Ending, records, Unclaimed

\* A handler decides; it stores and announces nothing itself.
LEMMA HandlerEnds ==
  ASSUME Inv, Ends, NEW t \in Tasks, HandlerSync(t) \/ HandlerAsync(t) \/ HandlerReturns(t)
  PROVE  Ends'
<1>1. /\ loop \in {"idle", t} /\ pc[t] \in {"handler", "await"} /\ UNCHANGED records
      /\ \/ loop' = t /\ \E o \in Outcomes : Decide(t, o)
         \/ GoTo(t, "await") /\ UNCHANGED outcome
  BY WorkerAssumption DEF HandlerSync, HandlerAsync, HandlerReturns, ThreadEndings, Outcomes
<1>2. \A u \in Tasks : Status(u)' = Status(u)
  BY DEF HandlerSync, HandlerAsync, HandlerReturns, storeVars, BindDownloadMonitorIdentity,
     Status, Inv, TypeOK, StoreTypeOK, Row
<1>3. \A u \in Tasks \ {t} : pc'[u] = pc[u] /\ outcome'[u] = outcome[u]
  BY <1>1 DEF Decide, GoTo, Inv, TypeOK
<1>4. Ending(t)'
  <2>1. CASE loop' = t /\ \E o \in Outcomes : Decide(t, o)
    BY <1>1, <1>2, <2>1, DecideEnds
  <2>2. CASE GoTo(t, "await") /\ UNCHANGED outcome
    <3>1. pc'[t] = "await"
      BY <2>2 DEF GoTo, Inv, TypeOK
    <3> QED
      BY <1>1, <1>2, <2>2, <3>1 DEF Ends, Ending, records, OnLoop
  <2> QED
    BY <1>1, <2>1, <2>2
<1> QED
  BY <1>1, <1>2, <1>3, <1>4, OneTaskEnds DEF records

\* A child is born unclaimed.
LEMMA SpawnEnds ==
  ASSUME Inv, Ends, NEW t \in Tasks, SpawnChildren(t)
  PROVE  Ends'
<1>1. /\ loop = t /\ loop' = t /\ UNCHANGED <<outcome, records>> /\ pc[t] = "children"
      /\ pc'[t] = "events" /\ \A u \in Tasks \ {t} : pc'[u] = pc[u]
  BY DEF SpawnChildren, GoTo, Inv, TypeOK
<1>2. Status(t) = "running"
  BY <1>1 DEF Inv, InFlightIsRunning, InFlight
<1>3. \A u \in Tasks : \/ Status(u)' = Status(u)
                       \/ Status(u) = "absent" /\ Status(u)' = "queued"
  BY DEF SpawnChildren, Enqueue, Insert, NewRow, Status, storeVars, Inv, TypeOK, StoreTypeOK
<1>4. Ending(t)'
  BY <1>1, <1>2, <1>3 DEF Ends, Ending, records, Unclaimed
<1> QED
  BY <1>1, <1>3, <1>4, OneTaskEnds DEF records, Unclaimed

\* Only a task without news is put back.
LEMMA RescheduleEnds ==
  ASSUME Inv, Ends, NEW t \in Tasks, ApplyReschedule(t)
  PROVE  Ends'
<1>1. /\ loop = t /\ UNCHANGED records /\ pc[t] = "reschedule" /\ pc'[t] = "none"
      /\ outcome'[t] = None
      /\ \A u \in Tasks \ {t} : pc'[u] = pc[u] /\ outcome'[u] = outcome[u]
  BY DEF ApplyReschedule, LoseOutcome, Release, GoTo, Forget, Inv, TypeOK
<1>2. Status(t) = "running" /\ Ending(t)
  BY <1>1 DEF Inv, InFlightIsRunning, InFlight, Ends
<1>3. /\ Status(t)' \in {"running", "waiting"}
      /\ \A u \in Tasks \ {t} : Status(u)' = Status(u)
  BY <1>2 DEF ApplyReschedule, LoseOutcome, Reschedule, Status, storeVars, Inv, TypeOK, StoreTypeOK,
     Row
<1>4. Ending(t)'
  BY <1>1, <1>2, <1>3 DEF Ending, records, Unclaimed, OnLoop, Holding, Applying
<1> QED
  BY <1>1, <1>3, <1>4, OneTaskEnds DEF records

\* What finish stores was announced before.
LEMMA FinishEnds ==
  ASSUME Inv, Ends, NEW t \in Tasks, ApplyFinish(t)
  PROVE  Ends'
<1>1. /\ loop = t /\ UNCHANGED <<outcome, records>> /\ pc[t] = "finish"
      /\ \A u \in Tasks \ {t} : pc'[u] = pc[u]
  BY DEF ApplyFinish, LoseOutcome, Release, GoTo, Inv, TypeOK
<1>2. Status(t) = "running" /\ Ending(t) /\ Verdict(t)' = Verdict(t)
  BY <1>1 DEF Inv, InFlightIsRunning, InFlight, Ends, Verdict
<1>3. /\ \/ Status(t)' = Verdict(t) /\ pc'[t] = "closeRun" /\ loop' = t
         \/ Status(t)' = "running" /\ pc'[t] = "none"
      /\ \A u \in Tasks \ {t} : Status(u)' = Status(u)
  BY <1>1, <1>2 DEF ApplyFinish, LoseOutcome, Release, GoTo, Finish, Status, storeVars, Inv, TypeOK,
     StoreTypeOK, Row
<1>4. Verdict(t) \in {"succeeded", "failed"} /\ run[t] \notin {"succeeded", "failed"}
  BY <1>2 DEF Verdict, Ending
<1>5. Ending(t)'
  BY <1>1, <1>2, <1>3, <1>4 DEF Ending, records, Unclaimed, OnLoop, Holding, Applying
<1> QED
  BY <1>1, <1>3, <1>5, OneTaskEnds DEF records

\* Every step keeps what is known of the ends of tasks.
LEMMA EndsKept ==
  ASSUME Inv, Ends, [Next]_vars
  PROVE  Ends'
<1>1. CASE UNCHANGED vars
  <2>1. \A u \in Tasks : Aside(u)
    BY <1>1 DEF vars, storeVars, coroutines, records, Aside, Status
  <2> QED
    BY <2>1, AsideKeeps DEF Ends
<1> QED
  BY <1>1, OthersEnds, ServiceEnds, TickPurgeEnds, TickClaimEnds, AcquireEnds, RecordEnds,
     HandlerEnds, SpawnEnds, RescheduleEnds, FinishEnds DEF Next, Coroutine

\* Whatever services, ticks and crashes do, a task that is not over announced
\* nothing before its events, and its run row says what became of the task.
THEOREM EndsAreKnown == Spec => []Ends
<1>1. Init => Ends
  BY DEF Init, StoreInit, NoRow, NewRow, Ends, Ending, Status, OnLoop, Holding, Applying
<1>2. Inv /\ Ends /\ [Next]_vars => Ends'
  BY EndsKept
<1> QED
  BY <1>1, <1>2, InductiveInvariant, PTL DEF Spec

\* A task that ended with news for the user has published it exactly once,
\* through any number of crashes, shutdowns and store errors, unless the store
\* refused the event.
THEOREM EndsAreAlwaysAnnounced == Spec => []EndsAreAnnounced
<1>1. Inv /\ Ends => EndsAreAnnounced
  BY DEF Ends, Ending, EndsAreAnnounced, Inv, TypeOK
<1> QED
  BY <1>1, EndsAreKnown, InductiveInvariant, PTL

\* A run row never reports another result than its task's: finish comes first,
\* and a terminal row does not change before it is purged.
THEOREM RunsAlwaysAgree == Spec => []RunsAgree
<1>1. Ends => RunsAgree
  BY DEF Ends, Ending, RunsAgree
<1> QED
  BY <1>1, EndsAreKnown, PTL

-----------------------------------------------------------------------------
(* The semaphores.                                                         *)

KindHolders(k) == {t \in Tasks : HoldsKind(t) /\ task[t].kind = k}

GlobalHolders == {t \in Tasks : HoldsGlobal(t)}

\* A set within a limit; Tasks may be infinite.
Within(S, n) == IsFiniteSet(S) /\ Cardinality(S) <= n

Limits ==
  /\ Within(GlobalHolders, GlobalLimit)
  /\ \A k \in Kinds : Within(KindHolders(k), KindLimit[k])

\* A smaller set is within the same limit.
LEMMA WithinSubset ==
  ASSUME NEW S, NEW T \in SUBSET S, NEW n \in Nat, Within(S, n)
  PROVE  Within(T, n)
BY FS_Subset, FS_CardinalityType DEF Within

\* A set that grows by one stays within its limit if it was below.
LEMMA WithinOneMore ==
  ASSUME NEW S, NEW x, NEW T \in SUBSET (S \cup {x}), NEW n \in Nat,
         IsFiniteSet(S), Cardinality(S) < n
  PROVE  Within(T, n)
<1>1. Cardinality(S) \in Nat
  BY FS_CardinalityType
<1>2. IsFiniteSet(S \cup {x}) /\ Cardinality(S \cup {x}) <= Cardinality(S) + 1
  <2>1. IsFiniteSet(S \cup {x})
        /\ Cardinality(S \cup {x}) = IF x \in S THEN Cardinality(S) ELSE Cardinality(S) + 1
    BY FS_AddElement, Zenon
  <2> QED
    BY <1>1, <2>1
<1>3. Cardinality(S \cup {x}) \in Nat
  BY <1>2, FS_CardinalityType
<1>4. Within(S \cup {x}, n)
  BY <1>1, <1>2, <1>3 DEF Within
<1> QED
  BY <1>4, WithinSubset

\* The row of a task that holds a permit stays, and with it its kind.
LEMMA HoldersKeepRows ==
  ASSUME Inv, Ends, [Next]_vars, NEW u \in Tasks, HoldsKind(u)
  PROVE  task'[u].kind = task[u].kind
<1> USE DEF Inv, TypeOK, StoreTypeOK, Row
<1>1. Status(u) # "absent"
  <2>1. pc[u] # "none"
    BY DEF HoldsKind, Holding, Applying
  <2>2. CASE pc[u] = "closeRun"
    BY <2>2 DEF Ends, Ending, Verdict
  <2>3. CASE pc[u] # "closeRun"
    BY <2>1, <2>3 DEF InFlightIsRunning, InFlight
  <2> QED
    BY <2>2, <2>3
<1>2. ASSUME NEW t \in Tasks, NEW st, NEW k, NEW ra, NEW p, NEW d, NEW x,
             Insert(t, st, k, ra, p, d, x)
      PROVE  task'[u].kind = task[u].kind
  BY <1>1, <1>2 DEF Insert
<1>3. CASE TickPurge
  <2>1. PurgeTerminalTasks => u \notin Purgeable
    <3>1. pc[u] \notin OnLoop
      BY <1>3, LoopIsOurs, WorkerAssumption DEF TickPurge
    <3>2. Status(u) = "running"
      BY <3>1 DEF InFlightIsRunning, InFlight, HoldsKind, Holding, Applying, OnLoop
    <3> QED
      BY <3>2 DEF Purgeable, Terminal, TERMINAL_STATUSES
  <2> QED
    BY <1>3, <2>1 DEF TickPurge, PurgeTerminalTasks, storeVars
<1>4. CASE TickClaim
  <2>1. ASSUME NEW S, ClaimDue(S)
        PROVE  task'[u].kind = task[u].kind
    <3>1. task'[u] = IF u \in S THEN [task[u] EXCEPT !.status = "running", !.leased = TRUE]
                     ELSE task[u]
      BY <2>1 DEF ClaimDue
    <3> QED
      BY <3>1
  <2> QED
    BY <1>4, <2>1 DEF TickClaim, storeVars
<1>5. CASE Route
  <2>1. ASSUME NEW t \in Tasks,
               FailInitialization(t) \/ CancelPending(t) \/ UpdateDownloadMonitor(t)
        PROVE  task'[u].kind = task[u].kind
    BY <2>1 DEF FailInitialization, CancelPending, UpdateDownloadMonitor
  <2>3. ASSUME NEW t \in Tasks, NEW x, Activate(t, "null", x)
        PROVE  task'[u].kind = task[u].kind
    BY <2>3 DEF Activate
  <2>2. ASSUME NEW t \in Tasks, NEW d, NEW x, NEW ra,
               Prepare(t, "download_watch", d, None)
                 \/ Enqueue(t, "download_watch", ra, None, d, x)
        PROVE  task'[u].kind = task[u].kind
    BY <1>2, <2>2 DEF Prepare, Enqueue
  <2> QED
    BY <1>5, <2>1, <2>2, <2>3 DEF Route
<1>6. ASSUME NEW t \in Tasks, Reconcile(t) \/ Clock(t)
      PROVE  task'[u].kind = task[u].kind
  <2>1. CASE Reconcile(t)
    BY <2>1 DEF Reconcile, FailInitialization
  <2>2. CASE BecomeDue(t)
    BY <2>2 DEF BecomeDue
  <2>3. CASE GrowOld(t)
    BY <2>3 DEF GrowOld
  <2> QED
    BY <1>6, <2>1, <2>2, <2>3 DEF Clock
<1>7. ASSUME NEW t \in Tasks, SpawnChildren(t)
      PROVE  task'[u].kind = task[u].kind
  BY <1>7, <1>2 DEF SpawnChildren, Enqueue, storeVars
<1>8. ASSUME NEW t \in Tasks, HandlerSync(t) \/ ApplyReschedule(t) \/ ApplyFinish(t)
      PROVE  task'[u].kind = task[u].kind
  <2>1. CASE HandlerSync(t)
    <3>1. \/ UNCHANGED task
          \/ \E x \in ExclusiveKeys : BindDownloadMonitorIdentity(t, x)
      BY <2>1 DEF HandlerSync, storeVars
    <3>2. ASSUME NEW x, BindDownloadMonitorIdentity(t, x)
          PROVE  task'[u].kind = task[u].kind
      BY <3>2 DEF BindDownloadMonitorIdentity
    <3> QED
      BY <3>1, <3>2
  <2>2. CASE ApplyReschedule(t)
    BY <1>8, <2>2 DEF ApplyReschedule, Reschedule, LoseOutcome, storeVars
  <2>3. CASE ApplyFinish(t)
    BY <1>8, <2>3 DEF ApplyFinish, Finish, LoseOutcome, storeVars
  <2> QED
    BY <1>8, <2>1, <2>2, <2>3
<1>9. CASE UNCHANGED storeVars
  BY <1>9 DEF storeVars
<1>10. ASSUME \/ Start \/ Stop \/ ExitLoop \/ CancelAll \/ ProcessEnds \/ Crash
              \/ UNCHANGED vars
              \/ \E t \in Tasks : \/ AcquireKind(t) \/ AcquireGlobal(t) \/ RecordRun(t)
                                  \/ HandlerAsync(t) \/ HandlerReturns(t) \/ PublishEvents(t)
                                  \/ CloseRun(t)
       PROVE  UNCHANGED storeVars
  BY <1>10 DEF Start, Stop, ExitLoop, CancelAll, ProcessEnds, Crash, vars, AcquireKind,
     AcquireGlobal, RecordRun, HandlerAsync, HandlerReturns, PublishEvents, CloseRun
<1> QED
  BY <1>3, <1>4, <1>5, <1>6, <1>7, <1>8, <1>9, <1>10 DEF Next, Coroutine

\* Permits are taken one by one, by those who see one free.
LEMMA PermitsAreTaken ==
  ASSUME Inv, [Next]_vars
  PROVE  \/ \A u \in Tasks : /\ HoldsKind(u)' => HoldsKind(u)
                             /\ HoldsGlobal(u)' => HoldsGlobal(u)
         \/ \E t \in Tasks :
              /\ AcquireKind(t)
              /\ \A u \in Tasks \ {t} : HoldsKind(u)' => HoldsKind(u)
              /\ \A u \in Tasks : HoldsGlobal(u)' => HoldsGlobal(u)
         \/ \E t \in Tasks :
              /\ AcquireGlobal(t)
              /\ \A u \in Tasks : HoldsKind(u)' => HoldsKind(u)
              /\ \A u \in Tasks \ {t} : HoldsGlobal(u)' => HoldsGlobal(u)
<1> USE DEF Inv, TypeOK, HoldsKind, HoldsGlobal, Holding, Applying
<1>1. ASSUME NEW t \in Tasks, AcquireKind(t)
      PROVE  /\ \A u \in Tasks \ {t} : HoldsKind(u)' => HoldsKind(u)
             /\ \A u \in Tasks : HoldsGlobal(u)' => HoldsGlobal(u)
  BY <1>1 DEF AcquireKind
<1>2. ASSUME NEW t \in Tasks, AcquireGlobal(t)
      PROVE  /\ \A u \in Tasks : HoldsKind(u)' => HoldsKind(u)
             /\ \A u \in Tasks \ {t} : HoldsGlobal(u)' => HoldsGlobal(u)
  BY <1>2 DEF AcquireGlobal
<1> DEFINE NobodyTakes ==
             \A u \in Tasks : /\ HoldsKind(u)' => HoldsKind(u)
                              /\ HoldsGlobal(u)' => HoldsGlobal(u)
<1>3. ASSUME NEW t \in Tasks, Coroutine(t)
      PROVE  NobodyTakes
  <2>1. HoldsGlobal(t) /\ \A u \in Tasks \ {t} : pc'[u] = pc[u]
    BY <1>3 DEF Coroutine, RecordRun, HandlerSync, HandlerAsync, HandlerReturns, Decide,
       SpawnChildren, PublishEvents, ApplyReschedule, ApplyFinish, LoseOutcome, CloseRun,
       GoTo, Release
  <2> QED
    BY <2>1
<1>4. ASSUME TickClaim
      PROVE  NobodyTakes
  BY <1>4 DEF TickClaim
<1>5. ASSUME \/ Start \/ Stop \/ ExitLoop \/ CancelAll \/ ProcessEnds \/ Crash
             \/ TickPurge \/ Route \/ UNCHANGED vars
             \/ \E t \in Tasks : Reconcile(t) \/ Clock(t)
      PROVE  NobodyTakes
  BY <1>5 DEF Start, Stop, ExitLoop, CancelAll, ProcessEnds, Crash, TickPurge, Route, vars,
     Reconcile, Clock, coroutines
<1> HIDE DEF Inv, TypeOK, HoldsKind, HoldsGlobal, Holding, Applying
<1>6. NobodyTakes \/ \E t \in Tasks : AcquireKind(t) \/ AcquireGlobal(t)
  <2> HIDE DEF NobodyTakes
  <2> QED
    BY <1>3, <1>4, <1>5 DEF Next
<1>7. CASE NobodyTakes
  BY <1>7
<1>8. CASE \E t \in Tasks : AcquireKind(t)
  <2>1. PICK t \in Tasks : AcquireKind(t)
    BY <1>8
  <2> QED
    BY <1>1, <2>1
<1>9. CASE \E t \in Tasks : AcquireGlobal(t)
  <2>1. PICK t \in Tasks : AcquireGlobal(t)
    BY <1>9
  <2> QED
    BY <1>2, <2>1
<1> QED
  BY <1>6, <1>7, <1>8, <1>9

\* Every step keeps the numbers of holders within the limits.
LEMMA LimitsKept ==
  ASSUME Inv, Ends, Limits, [Next]_vars
  PROVE  Limits'
<1> USE WorkerAssumption
<1> DEFINE Global == {u \in Tasks : HoldsGlobal(u)'}
           Kind(k) == {u \in Tasks : HoldsKind(u)' /\ task'[u].kind = k}
<1>1. \A u \in Tasks : HoldsKind(u) => task'[u].kind = task[u].kind
  BY HoldersKeepRows
<1>2. \A u \in Tasks : HoldsGlobal(u) => HoldsKind(u)
  BY DEF HoldsGlobal, HoldsKind
<1>3. (\A u \in Tasks : HoldsGlobal(u)' => HoldsGlobal(u)) => Within(Global, GlobalLimit)
  BY WithinSubset DEF Limits, GlobalHolders
<1>4. (\A u \in Tasks : HoldsKind(u)' => HoldsKind(u))
        => \A k \in Kinds : Within(Kind(k), KindLimit[k])
  <2> SUFFICES ASSUME \A u \in Tasks : HoldsKind(u)' => HoldsKind(u), NEW k \in Kinds
               PROVE  Within(Kind(k), KindLimit[k])
    OBVIOUS
  <2>1. Kind(k) \subseteq KindHolders(k)
    BY <1>1 DEF KindHolders
  <2> QED
    BY <2>1, WithinSubset DEF Limits
<1>5. ASSUME NEW t \in Tasks, AcquireKind(t), \A u \in Tasks \ {t} : HoldsKind(u)' => HoldsKind(u)
      PROVE  \A k \in Kinds : Within(Kind(k), KindLimit[k])
  <2> TAKE k \in Kinds
  <2>1. task' = task
    BY <1>5 DEF AcquireKind, storeVars
  <2>2. CASE task[t].kind = k
    <3>1. {u \in Tasks : HoldsKind(u) /\ SameKind(t, u)} = KindHolders(k)
      BY <2>2 DEF SameKind, KindHolders
    <3>2. Cardinality(KindHolders(k)) < KindLimit[k]
      BY <1>5, <2>2, <3>1 DEF AcquireKind
    <3>3. Kind(k) \subseteq KindHolders(k) \cup {t}
      BY <1>5, <2>1 DEF KindHolders
    <3> QED
      BY <3>2, <3>3, WithinOneMore DEF Limits, Within
  <2>3. CASE task[t].kind # k
    <3>1. Kind(k) \subseteq KindHolders(k)
      BY <1>5, <2>1, <2>3 DEF KindHolders
    <3> QED
      BY <3>1, WithinSubset DEF Limits
  <2> QED
    BY <2>2, <2>3
<1>6. ASSUME NEW t \in Tasks, AcquireGlobal(t),
             \A u \in Tasks \ {t} : HoldsGlobal(u)' => HoldsGlobal(u)
      PROVE  Within(Global, GlobalLimit)
  <2>1. Cardinality(GlobalHolders) < GlobalLimit
    BY <1>6 DEF AcquireGlobal, GlobalHolders
  <2>2. Global \subseteq GlobalHolders \cup {t}
    BY <1>6 DEF GlobalHolders
  <2> QED
    BY <2>1, <2>2, WithinOneMore DEF Limits, Within
<1>7. Within(Global, GlobalLimit) /\ \A k \in Kinds : Within(Kind(k), KindLimit[k])
  BY <1>3, <1>4, <1>5, <1>6, PermitsAreTaken
<1> QED
  BY <1>7 DEF Limits, GlobalHolders, KindHolders, Within

\* Permits bound the handlers in flight, of a kind and altogether, for any
\* limits and however many tasks are claimed, crash or come back.
THEOREM HandlersStayWithinLimits == Spec => []HandlersWithinLimits
<1>1. Init => Limits
  <2> SUFFICES ASSUME Init PROVE Limits
    OBVIOUS
  <2>1. GlobalHolders = {} /\ \A k \in Kinds : KindHolders(k) = {}
    BY DEF Init, GlobalHolders, KindHolders, HoldsGlobal, HoldsKind, Holding, Applying
  <2> QED
    BY <2>1, FS_EmptySet, WorkerAssumption DEF Limits, Within
<1>2. Inv /\ Ends /\ Limits /\ [Next]_vars => Limits'
  BY LimitsKept
<1>3. Limits => HandlersWithinLimits
  BY DEF Limits, Within, GlobalHolders, KindHolders, HandlersWithinLimits
<1> QED
  BY <1>1, <1>2, <1>3, InductiveInvariant, EndsAreKnown, PTL DEF Spec
=============================================================================
