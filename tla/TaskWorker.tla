----------------------------- MODULE TaskWorker -----------------------------
(***************************************************************************)
(* The in-process worker, app/runtime/worker.py, and the runtime that      *)
(* starts and stops it, app/task_runtime.py, over the task store.          *)
(*                                                                         *)
(* All worker code runs on one asyncio event loop: `loop' says who has it, *)
(* and it changes hands only where the code awaits.  A download_watch      *)
(* handler never awaits; an organize_download handler awaits a thread.     *)
(* HTTP routes run on other threads, so their store calls come between any *)
(* two store calls of a coroutine.                                         *)
(***************************************************************************)
EXTENDS RuntimeTaskStore

CONSTANTS
  KindLimit,      \* per_kind_semaphores
  GlobalLimit,    \* max_concurrency
  MaxFailures,    \* max_failure_attempts
  MaxInterruptions, \* bound: shutdowns, crashes and store errors in a behaviour
  Endings,        \* bound: the outcomes of the handlers
  Requests        \* bound: what routes ask besides new tasks without a dedupe key

Outcomes == {"complete", "silent", "spawn", "reschedule", "retryable", "fatal"}

ASSUME WorkerAssumption ==
  /\ KindLimit \in [Kinds -> Nat \ {0}]
  /\ GlobalLimit \in Nat \ {0}
  /\ MaxFailures \in Nat \ {0}
  /\ MaxInterruptions \in Nat
  /\ Endings \subseteq Outcomes
  /\ Requests \subseteq {"keyed", "drop", "cancel", "update"}
  /\ Tasks \cap {"idle", "claiming"} = {}

VARIABLES
  worker,     \* the process and its main loop
  loop,       \* who has the event loop
  pc,         \* where the coroutine that executes a claimed task is
  waitFor,    \* the coroutines before this one at the semaphore it waits for
  outcome,    \* the handler's outcome, kept once it has ended the task
  run,        \* status of the WorkerRun row of the task's latest attempt
  events,     \* number of TaskEvents published when the task ends
  refused,    \* the tasks whose event or run row a store error lost (history)
  interruptions

coroutines == <<loop, pc, waitFor, outcome>>
records == <<run, events, refused>>
vars == <<storeVars, coroutines, records, worker, interruptions>>

WorkerStates == {"down", "running", "stopping", "exited", "cancelling"}

\* A coroutine waits for the kind's semaphore, then the global one, runs the
\* handler, and applies its outcome one store call at a time.
Applying == {"children", "reschedule", "events", "finish"}
Holding == {"begin", "handler", "await"} \cup Applying \cup {"closeRun"}
PCs == {"none", "kindSem", "globalSem"} \cup Holding

TypeOK ==
  /\ StoreTypeOK
  /\ worker \in WorkerStates
  /\ loop \in {"idle", "claiming"} \cup Tasks
  /\ pc \in [Tasks -> PCs]
  /\ waitFor \in [Tasks -> SUBSET Tasks]
  /\ outcome \in [Tasks -> Outcomes \cup {None}]
  /\ run \in [Tasks -> {"none", "running", "succeeded", "failed"}]
  /\ events \in [Tasks -> Nat]
  /\ refused \subseteq Tasks
  /\ interruptions \in Nat

Init ==
  /\ StoreInit
  /\ worker = "down"
  /\ loop = "idle"
  /\ pc = [t \in Tasks |-> "none"]
  /\ waitFor = [t \in Tasks |-> {}]
  /\ outcome = [t \in Tasks |-> None]
  /\ run = [t \in Tasks |-> "none"]
  /\ events = [t \in Tasks |-> 0]
  /\ refused = {}
  /\ interruptions = 0

-----------------------------------------------------------------------------
(* The service: startup, shutdown, crash.                                  *)

StaleInitializing ==
  {t \in Tasks : Status(t) = "initializing" /\ task[t].old}

\* reconcile_stale_initializing: before the worker starts, the reservations an
\* earlier process left behind fail one by one.
Reconcile(t) ==
  /\ worker = "down"
  /\ t \in StaleInitializing
  /\ FailInitialization(t)
  /\ UNCHANGED <<coroutines, records, worker, interruptions>>

\* No other status is looked at.  The worker starts whatever is left of them:
\* only the newest fifty rows are read, and an error is logged and passed over.
Start ==
  /\ worker = "down"
  /\ worker' = "running"
  /\ UNCHANGED <<storeVars, coroutines, records, interruptions>>

Interrupt == /\ interruptions < MaxInterruptions
             /\ interruptions' = interruptions + 1

\* TaskWorker.stop sets the stop event.
Stop ==
  /\ worker = "running" /\ loop = "idle"
  /\ Interrupt
  /\ worker' = "stopping"
  /\ UNCHANGED <<storeVars, coroutines, records>>

\* run() leaves its loop at the next wait, whatever coroutines are in flight.
ExitLoop ==
  /\ worker = "stopping" /\ loop = "idle"
  /\ worker' = "exited"
  /\ UNCHANGED <<storeVars, coroutines, records, interruptions>>

\* The event loop closes: asyncio cancels the coroutines that are left.  Those
\* at a semaphore end there; a handler that awaits its thread ends with Fail.
CancelAll ==
  /\ worker = "exited" /\ loop = "idle"
  /\ worker' = "cancelling"
  /\ pc' = [t \in Tasks |-> IF pc[t] \in {"kindSem", "globalSem"}
                            THEN "none" ELSE pc[t]]
  /\ waitFor' = [t \in Tasks |-> {}]
  /\ UNCHANGED <<storeVars, loop, outcome, records, interruptions>>

ProcessEnds ==
  /\ worker = "cancelling"
  /\ \A t \in Tasks : pc[t] = "none"
  /\ worker' = "down"
  /\ UNCHANGED <<storeVars, coroutines, records, interruptions>>

Crash ==
  /\ worker # "down"
  /\ Interrupt
  /\ worker' = "down"
  /\ loop' = "idle"
  /\ pc' = [t \in Tasks |-> "none"]
  /\ waitFor' = [t \in Tasks |-> {}]
  /\ UNCHANGED <<storeVars, outcome, records>>

-----------------------------------------------------------------------------
(* One tick of the main loop: purge, then claim and dispatch.              *)

TickPurge ==
  /\ worker = "running" /\ loop = "idle"
  /\ loop' = "claiming"
  /\ \/ /\ PurgeTerminalTasks
        /\ outcome' = [t \in Tasks |-> IF t \in Purgeable THEN None ELSE outcome[t]]
        /\ run' = [t \in Tasks |-> IF t \in Purgeable THEN "none" ELSE run[t]]
        /\ events' = [t \in Tasks |-> IF t \in Purgeable THEN 0 ELSE events[t]]
        /\ refused' = refused \ Purgeable
     \/ /\ ~CanPurge
        /\ UNCHANGED <<storeVars, outcome, records>>
  /\ UNCHANGED <<worker, interruptions, pc, waitFor>>

SameKind(t, u) == task[t].kind = task[u].kind

\* The coroutines of a claim queue up in claim order behind those that wait.
TickClaim ==
  /\ loop = "claiming"
  /\ loop' = "idle"
  /\ \/ \E S \in SUBSET Tasks :
          /\ ClaimDue(S)
          /\ pc' = [t \in Tasks |-> IF t \in S THEN "kindSem" ELSE pc[t]]
          /\ waitFor' =
               [t \in Tasks |->
                  IF t \in S
                  THEN {u \in Tasks : /\ SameKind(t, u)
                                      /\ \/ pc[u] = "kindSem"
                                         \/ u \in S \cap ahead[t]}
                  ELSE waitFor[t]]
     \/ /\ Due = {}
        /\ UNCHANGED <<storeVars, pc, waitFor>>
  /\ UNCHANGED <<worker, interruptions, outcome, records>>

-----------------------------------------------------------------------------
(* The coroutine of a claimed task.                                        *)

HoldsKind(t) == pc[t] \in Holding \cup {"globalSem"}

HoldsGlobal(t) == pc[t] \in Holding

\* Fault: a coroutine counts itself among the holders.
AcquireKindTwice(t) ==
  /\ loop = "idle"
  /\ pc[t] = "kindSem"
  /\ waitFor[t] = {}
  /\ Cardinality({u \in Tasks : pc[u] # "none" /\ SameKind(t, u)})
       < KindLimit[task[t].kind]
  /\ pc' = [pc EXCEPT ![t] = "globalSem"]
  /\ waitFor' = [u \in Tasks |-> waitFor[u] \ {t}]
  /\ UNCHANGED <<storeVars, loop, outcome, records, worker, interruptions>>

\* asyncio.Semaphore is first come, first served.
AcquireKind(t) ==
  /\ loop = "idle"
  /\ pc[t] = "kindSem"
  /\ waitFor[t] = {}
  /\ Cardinality({u \in Tasks : HoldsKind(u) /\ SameKind(t, u)})
       < KindLimit[task[t].kind]
  /\ pc' = [pc EXCEPT ![t] = "globalSem"]
  /\ waitFor' = [u \in Tasks |-> IF u = t
                                 THEN {v \in Tasks : pc[v] = "globalSem"}
                                 ELSE waitFor[u] \ {t}]
  /\ UNCHANGED <<storeVars, loop, outcome, records, worker, interruptions>>

\* Fault: the global semaphore is created once per kind.
AcquireGlobalPerKind(t) ==
  /\ loop = "idle"
  /\ pc[t] = "globalSem"
  /\ waitFor[t] = {}
  /\ Cardinality({u \in Tasks : HoldsGlobal(u) /\ SameKind(t, u)}) < GlobalLimit
  /\ loop' = t
  /\ pc' = [pc EXCEPT ![t] = "begin"]
  /\ waitFor' = [u \in Tasks |-> waitFor[u] \ {t}]
  /\ UNCHANGED <<storeVars, outcome, records, worker, interruptions>>

AcquireGlobal(t) ==
  /\ loop = "idle"
  /\ pc[t] = "globalSem"
  /\ waitFor[t] = {}
  /\ Cardinality({u \in Tasks : HoldsGlobal(u)}) < GlobalLimit
  /\ loop' = t
  /\ pc' = [pc EXCEPT ![t] = "begin"]
  /\ waitFor' = [u \in Tasks |-> waitFor[u] \ {t}]
  /\ UNCHANGED <<storeVars, outcome, records, worker, interruptions>>

\* A new uuid: no row has it and no coroutine knows it.
Fresh(t) == Status(t) = "absent" /\ pc[t] = "none"

\* Bound: the last free id is kept for the child a coroutine is about to create.
IdsLeft(t) == (\E u \in Tasks : pc[u] = "children") => \E c \in Tasks \ {t} : Fresh(c)

\* The step the coroutine of t takes next; "none" releases the semaphores.
GoTo(t, label) == pc' = [pc EXCEPT ![t] = label]

Release(t) == GoTo(t, "none") /\ loop' = "idle"

\* The store raises (a locked or full database) and the worker logs it.
Refused(t) == Interrupt /\ refused' = refused \cup {t}

\* record_run is best effort; without a row there is none to close later.
RecordRun(t) ==
  /\ loop = t /\ pc[t] = "begin"
  /\ GoTo(t, "handler")
  /\ \/ run' = [run EXCEPT ![t] = "running"] /\ UNCHANGED <<refused, interruptions>>
     \/ run' = [run EXCEPT ![t] = "none"] /\ Refused(t)
  /\ UNCHANGED <<storeVars, loop, waitFor, outcome, events, worker>>

WillRetry(t, o) == o = "retryable" /\ task[t].failures + 1 < MaxFailures

\* Fault: a task that ran out of retries is finished without its event.
DecideSilentFailure(t, o) ==
  /\ outcome' = [outcome EXCEPT ![t] = o]
  /\ GoTo(t, IF o = "spawn" THEN "children"
             ELSE IF o = "reschedule" \/ WillRetry(t, o) THEN "reschedule"
             ELSE IF o \in {"silent", "retryable"} THEN "finish"
             ELSE "events")

\* _apply_outcome picks the first store call.
Decide(t, o) ==
  /\ outcome' = [outcome EXCEPT ![t] = o]
  /\ GoTo(t, IF o = "spawn" THEN "children"
             ELSE IF o = "reschedule" \/ WillRetry(t, o) THEN "reschedule"
             ELSE IF o = "silent" THEN "finish"
             ELSE "events")

\* The handler runs to its outcome, or to its await.  A download_watch handler
\* may have bound the identity of the torrent it watches on its way; when the
\* key is taken, it fails.
HandlerSync(t) ==
  /\ loop = t /\ pc[t] = "handler"
  /\ task[t].kind = "download_watch"
  /\ \/ \E o \in Endings : /\ o = "spawn" => \E c \in Tasks : Fresh(c)
                         /\ Decide(t, o) /\ UNCHANGED storeVars
     \/ \E x \in ExclusiveKeys :
          \/ BindDownloadMonitorIdentity(t, x) /\ Decide(t, "reschedule")
          \/ ~Exclusive(t, x) /\ Decide(t, "fatal") /\ UNCHANGED storeVars
  /\ UNCHANGED <<loop, waitFor, records, worker, interruptions>>

ThreadEndings == Endings \cap {"complete", "retryable", "fatal"}

\* The checks before the await may already decide the outcome.
HandlerAsync(t) ==
  /\ loop = t /\ pc[t] = "handler"
  /\ task[t].kind = "organize_download"
  /\ \/ \E o \in ThreadEndings : Decide(t, o) /\ UNCHANGED loop
     \/ GoTo(t, "await") /\ loop' = "idle" /\ UNCHANGED outcome
  /\ UNCHANGED <<storeVars, waitFor, records, worker, interruptions>>

\* The thread is done, or, while the event loop closes, the await is
\* cancelled, which the worker turns into a Fail that is not retryable.
HandlerReturns(t) ==
  /\ loop = "idle" /\ pc[t] = "await"
  /\ loop' = t
  /\ \E o \in IF worker = "cancelling" THEN {"fatal"} ELSE ThreadEndings : Decide(t, o)
  /\ UNCHANGED <<storeVars, waitFor, records, worker, interruptions>>

\* A child whose dedupe key exists already, in whatever status, is not created
\* again; a store error loses it.
SpawnChildren(t) ==
  /\ loop = t /\ pc[t] = "children"
  /\ GoTo(t, "events")
  /\ \E d \in DedupeKeys :
       \/ /\ \E c \in Tasks :
               Fresh(c) /\ Enqueue(c, "organize_download", "null", t, d, None)
          /\ UNCHANGED interruptions
       \/ /\ \E u \in Tasks : task[u].dedupe = d
          /\ UNCHANGED <<storeVars, interruptions>>
       \/ Interrupt /\ UNCHANGED storeVars
  /\ UNCHANGED <<loop, waitFor, outcome, records, worker>>

\* _create_events is best effort and precedes finish.
PublishEvents(t) ==
  /\ loop = t /\ pc[t] = "events"
  /\ GoTo(t, "finish")
  /\ \/ /\ events' = [events EXCEPT ![t] = @ + 1]
        /\ UNCHANGED <<refused, interruptions>>
     \/ Refused(t) /\ UNCHANGED events
  /\ UNCHANGED <<storeVars, loop, waitFor, outcome, run, worker>>

\* A store error here is logged and the coroutine ends: the row stays RUNNING.
LoseOutcome(t) == Interrupt /\ Release(t) /\ UNCHANGED storeVars

Forget(t) == outcome' = [outcome EXCEPT ![t] = None]

\* A successful Reschedule leaves failure_count as it is.
ApplyReschedule(t) ==
  /\ loop = t /\ pc[t] = "reschedule"
  /\ \/ /\ Reschedule(t, task[t].failures + IF outcome[t] = "retryable" THEN 1 ELSE 0)
        /\ Release(t) /\ UNCHANGED interruptions
     \/ LoseOutcome(t)
  /\ Forget(t)
  /\ UNCHANGED <<waitFor, records, worker>>

\* Fault: only the outcomes with events count as success.
VerdictBySuccessEvent(t) ==
  IF outcome[t] \in {"complete", "spawn"} THEN "succeeded"
  ELSE IF outcome[t] = "silent" THEN "cancelled" ELSE "failed"

Verdict(t) ==
  IF outcome[t] \in {"complete", "silent", "spawn"} THEN "succeeded" ELSE "failed"

\* "now" was read before the handler ran: a handler that outlasts the retention
\* leaves a row that is old already.
ApplyFinish(t) ==
  /\ loop = t /\ pc[t] = "finish"
  /\ \/ /\ \E stamp \in {FALSE} \cup {task[t].kind = "organize_download"} :
             Finish(t, Verdict(t), task[t].failures + IF Verdict(t) = "failed" THEN 1 ELSE 0,
                    stamp)
        /\ GoTo(t, "closeRun") /\ UNCHANGED <<loop, interruptions>>
     \/ LoseOutcome(t)
  /\ UNCHANGED <<waitFor, outcome, records, worker>>

\* Fault: every run that reaches its end is recorded as a success.
CloseRunAsSuccess(t) ==
  /\ loop = t /\ pc[t] = "closeRun"
  /\ Release(t)
  /\ run' = [run EXCEPT ![t] = "succeeded"]
  /\ UNCHANGED <<storeVars, waitFor, outcome, events, refused, worker, interruptions>>

CloseRun(t) ==
  /\ loop = t /\ pc[t] = "closeRun"
  /\ Release(t)
  /\ \/ /\ run' = [run EXCEPT ![t] = IF @ = "running" THEN Verdict(t) ELSE @]
        /\ UNCHANGED <<refused, interruptions>>
     \/ Refused(t) /\ UNCHANGED run
  /\ UNCHANGED <<storeVars, waitFor, outcome, events, worker>>

Coroutine(t) ==
  \/ RecordRun(t) \/ HandlerSync(t) \/ HandlerAsync(t) \/ HandlerReturns(t)
  \/ SpawnChildren(t) \/ PublishEvents(t)
  \/ ApplyReschedule(t) \/ ApplyFinish(t) \/ CloseRun(t)

-----------------------------------------------------------------------------
(* Store calls of the route threads, and the clock.                        *)

Route ==
  /\ worker = "running"
  /\ \/ \E t \in Tasks, d \in {None} \cup {k \in DedupeKeys : "keyed" \in Requests} :
          /\ Fresh(t) /\ IdsLeft(t)
          /\ \/ Prepare(t, "download_watch", d, None)
             \/ \E x \in ExclusiveKeys, ra \in {"null", "future"} :
                  Enqueue(t, "download_watch", ra, None, d, x)
     \/ \E t \in Tasks, x \in ExclusiveKeys \cup {None} : Activate(t, "null", x)
     \/ \E t \in Tasks : /\ "drop" \in Requests /\ Status(t) = "initializing"
                         /\ FailInitialization(t)
     \/ \E t \in Tasks : "cancel" \in Requests /\ CancelPending(t)
     \/ \E t \in Tasks : "update" \in Requests /\ UpdateDownloadMonitor(t)
  /\ UNCHANGED <<coroutines, records, worker, interruptions>>

Clock(t) ==
  /\ BecomeDue(t) \/ GrowOld(t)
  /\ UNCHANGED <<coroutines, records, worker, interruptions>>

-----------------------------------------------------------------------------

Next ==
  \/ Start \/ Stop \/ ExitLoop \/ CancelAll \/ ProcessEnds \/ Crash
  \/ TickPurge \/ TickClaim \/ Route
  \/ \E t \in Tasks : \/ Reconcile(t) \/ AcquireKind(t) \/ AcquireGlobal(t)
                      \/ Coroutine(t) \/ Clock(t)

Spec == Init /\ [][Next]_vars

-----------------------------------------------------------------------------
(* Safety.                                                                 *)

\* From its claim until its outcome is stored a task stays RUNNING, so no
\* route cancels or edits it and no tick claims it while a coroutine works on
\* the copy it read at the claim.
InFlight(t) == pc[t] \notin {"none", "closeRun"}

InFlightIsRunning == \A t \in Tasks : InFlight(t) => Status(t) = "running"

\* The semaphores bound the handlers in flight, of a kind and altogether.
HandlersWithinLimits ==
  /\ Cardinality({t \in Tasks : HoldsGlobal(t)}) <= GlobalLimit
  /\ \A k \in Kinds :
       Cardinality({t \in Tasks : HoldsKind(t) /\ task[t].kind = k}) <= KindLimit[k]

\* A task that ended with news for the user has published it exactly once,
\* crashes included, unless the store refused the event.
EndsAreAnnounced ==
  /\ \A t \in Tasks : events[t] <= 1
  /\ \A t \in Tasks \ refused :
       Status(t) \in {"succeeded", "failed"} /\ outcome[t] \notin {None, "silent"}
         => events[t] = 1

\* A run row never reports another result than its task's.
RunsAgree ==
  \A t \in Tasks : run[t] \in {"succeeded", "failed"} => Status(t) = run[t]

-----------------------------------------------------------------------------
(* Liveness.  asyncio runs what is ready in the order it became ready, so  *)
(* the tick and a coroutine that can go on each get the loop again and     *)
(* again however often others hold it in between: strong fairness.  The    *)
(* threads of the handlers end, the clock advances, and a service that     *)
(* went down is started again.  Users, the operator and crashes are not    *)
(* fair.                                                                   *)

Fairness ==
  /\ WF_vars(Start) /\ WF_vars(ExitLoop) /\ WF_vars(CancelAll) /\ WF_vars(ProcessEnds)
  /\ SF_vars(TickPurge) /\ WF_vars(TickClaim)
  /\ \A t \in Tasks : /\ WF_vars(Reconcile(t))
                      /\ SF_vars(AcquireKind(t)) /\ SF_vars(AcquireGlobal(t))
                      /\ SF_vars(Coroutine(t)) /\ WF_vars(Clock(t))

FairSpec == Spec /\ Fairness

\* Tasks that keep coming back cannot overtake a due task for ever, because a
\* claim takes the oldest rows first.  New rows can: they sort before every
\* run_after, so the property assumes that they stop coming.
NoNewRows == \A t \in Tasks : Status(t) = "absent" => Status(t)' = "absent"

DueIsClaimed ==
  <>[][NoNewRows]_vars => \A t \in Tasks : t \in Due ~> t \notin Due

\* A claimed task gets its semaphores, its handler's outcome and a new status.
ClaimsEnd == \A t \in Tasks : Status(t) = "running" ~> Status(t) # "running"

\* Retention ends: a terminal row is deleted at last, although a parent whose
\* child is too young to go makes the one DELETE fail for the rows of others
\* too.  Families that keep coming can make it fail for ever, so this assumes
\* again that new rows stop.
TerminalIsPurged ==
  <>[][NoNewRows]_vars => \A t \in Tasks : Terminal(t) ~> Status(t) = "absent"

-----------------------------------------------------------------------------
(* What documentation says and the code does not do.                       *)

\* README.md:49: the intent of a task is persisted and execution continues
\* after a restart of the service.
RestartResumes == \A t \in Tasks : Status(t) = "running" ~> Status(t) # "running"

=============================================================================
