-------------------------- MODULE RuntimeTaskStore --------------------------
(***************************************************************************)
(* The SQLite store of durable tasks, app/runtime/store.py.  Every method  *)
(* is one BEGIN IMMEDIATE transaction, so every method is one operator     *)
(* here: its guard is the rows on which the method writes; where the       *)
(* method raises ValueError, or returns the row as it is, the operator is  *)
(* not enabled and the callers' modules say what the caller does then.     *)
(*                                                                         *)
(* Time enters as what a query can see of it: run_after is NULL, in the    *)
(* future or past (a write of a time already past is a write of a future   *)
(* one that BecomeDue follows at once), and "old" says that the timestamp  *)
(* a cutoff is compared with (created_at of a reservation, updated_at of a *)
(* terminal row) is behind that cutoff.  The order that ORDER BY run_after *)
(* NULLS FIRST, created_at gives is kept as ahead[t], the queued rows that *)
(* sort before t.  The payload column belongs to the handlers and is not   *)
(* kept here.                                                              *)
(***************************************************************************)
EXTENDS Integers, FiniteSets, TaskStatus

CONSTANTS
  Tasks,          \* task ids
  DedupeKeys,
  ExclusiveKeys,
  ClaimLimit,     \* the limit claim_due is called with
  None            \* SQL NULL

ASSUME StoreAssumption ==
  /\ ClaimLimit \in Nat \ {0}
  /\ None \notin Tasks \cup DedupeKeys \cup ExclusiveKeys

VARIABLES
  task,     \* the runtime_tasks table
  ahead     \* the claim order among the rows that are waiting for a claim

storeVars == <<task, ahead>>

\* The kinds app/main.py registers handlers for; claim_due asks for both.
Kinds == {"download_watch", "organize_download"}

RunAfter == {"null", "future", "past"}

Row == [status    : Statuses,
        kind      : Kinds \cup {None},
        runAfter  : RunAfter,
        failures  : Nat,
        leased    : BOOLEAN,          \* lease_owner is set
        dedupe    : DedupeKeys \cup {None},
        exclusive : ExclusiveKeys \cup {None},
        parent    : Tasks \cup {None},
        old       : BOOLEAN]

NewRow(st, k, ra, p, d, x) ==
  [status |-> st, kind |-> k, runAfter |-> ra, failures |-> 0,
   leased |-> FALSE, dedupe |-> d, exclusive |-> x, parent |-> p,
   old |-> FALSE]

NoRow == NewRow("absent", None, "null", None, None, None)

StoreTypeOK ==
  /\ task \in [Tasks -> Row]
  /\ ahead \in [Tasks -> SUBSET Tasks]

StoreInit ==
  /\ task = [t \in Tasks |-> NoRow]
  /\ ahead = [t \in Tasks |-> {}]

-----------------------------------------------------------------------------
(* What the queries select.                                                *)

Status(t) == task[t].status

Active(t) == Status(t) \in ActiveStatuses

Terminal(t) == Status(t) \in TERMINAL_STATUSES

\* The rows claim_due may select.
Due == {t \in Tasks : /\ Status(t) \in {"queued", "waiting"}
                      /\ task[t].runAfter # "future"}

\* Due rows, and reservations, which keep the created_at they will sort by.
Queue == Due \cup {t \in Tasks : Status(t) = "initializing"}

\* No other active row holds x: the unique index accepts x for row t.
Exclusive(t, x) ==
  x # None => \A u \in Tasks \ {t} : Active(u) => task[u].exclusive # x

\* The claim order once t sorts by ra (nowhere yet when that is in the
\* future): NULL sorts before every past time, and t comes last among its
\* equals.
Requeue(t, ra) ==
  [u \in Tasks |->
     IF u = t
     THEN {v \in Queue \ {t} : \/ ra = "past"
                               \/ ra = "null" /\ task[v].runAfter = "null"}
     ELSE IF ra = "null" /\ u \in Queue /\ task[u].runAfter = "past"
          THEN ahead[u] \cup {t}
          ELSE ahead[u] \ {t}]

\* The claim order once the rows of S have left the queue.
Leave(S) == [u \in Tasks |-> IF u \in S THEN {} ELSE ahead[u] \ S]

-----------------------------------------------------------------------------
(* Creating rows.                                                          *)

\* The body prepare and enqueue share.  An existing row with the dedupe key,
\* in whatever status, is returned unchanged; a held exclusive key raises.
Insert(t, st, k, ra, p, d, x) ==
  /\ Status(t) = "absent"
  /\ p # None => Status(p) # "absent"
  /\ d # None => \A u \in Tasks : task[u].dedupe # d
  /\ Exclusive(t, x)
  /\ task' = [task EXCEPT ![t] = NewRow(st, k, ra, p, d, x)]
  /\ ahead' = Requeue(t, ra)

Prepare(t, k, d, x) == Insert(t, "initializing", k, "null", None, d, x)

Enqueue(t, k, ra, p, d, x) == Insert(t, "queued", k, ra, p, d, x)

\* Fault: activation writes the key without the unique index.
ActivateUnchecked(t, ra, x) ==
  /\ CanTransition(Status(t), "queued")
  /\ task' = [task EXCEPT ![t].status = "queued", ![t].runAfter = ra,
                          ![t].exclusive = IF x = None THEN @ ELSE x]
  /\ ahead' = IF ra = "null" THEN ahead ELSE Leave({t})

\* exclusive_key = COALESCE(?, exclusive_key)
Activate(t, ra, x) ==
  LET key == IF x = None THEN task[t].exclusive ELSE x IN
  /\ CanTransition(Status(t), "queued")
  /\ Exclusive(t, key)
  /\ task' = [task EXCEPT ![t].status = "queued", ![t].runAfter = ra,
                          ![t].exclusive = key, ![t].old = FALSE]
  /\ ahead' = IF ra = "null" THEN ahead ELSE Leave({t})

FailInitialization(t) ==
  /\ ~Terminal(t)
  /\ CanTransition(Status(t), "failed")
  /\ task' = [task EXCEPT ![t].status = "failed", ![t].old = FALSE]
  /\ ahead' = Leave({t})

-----------------------------------------------------------------------------
(* The worker's calls.                                                     *)

\* Fault: the SELECT has no ORDER BY.
ClaimDueUnordered(S) ==
  /\ S # {} /\ S \subseteq Due
  /\ S = Due \/ Cardinality(S) = ClaimLimit
  /\ task' = [t \in Tasks |->
                IF t \in S
                THEN [task[t] EXCEPT !.status = "running", !.leased = TRUE]
                ELSE task[t]]
  /\ ahead' = Leave(S)

\* S is the first ClaimLimit rows of the claim order.
ClaimDue(S) ==
  /\ S # {} /\ S \subseteq Due
  /\ \/ S = Due /\ Cardinality(S) <= ClaimLimit
     \/ Cardinality(S) = ClaimLimit
  /\ \A t \in S : ahead[t] \cap Due \subseteq S
  /\ task' = [t \in Tasks |->
                IF t \in S
                THEN [task[t] EXCEPT !.status = "running", !.leased = TRUE]
                ELSE task[t]]
  /\ ahead' = Leave(S)

\* A task already WAITING is returned as it is.
Reschedule(t, failures) ==
  /\ Status(t) # "waiting"
  /\ CanTransition(Status(t), "waiting")
  /\ task' = [task EXCEPT ![t].status = "waiting", ![t].runAfter = "future",
                          ![t].failures = failures, ![t].leased = FALSE]
  /\ UNCHANGED ahead

\* stamp: the caller's "now" is already behind the purge cutoff.
Finish(t, st, failures, stamp) ==
  /\ ~Terminal(t)
  /\ CanTransition(Status(t), st)
  /\ task' = [task EXCEPT ![t].status = st, ![t].failures = failures,
                          ![t].leased = FALSE, ![t].old = stamp]
  /\ ahead' = Leave({t})

\* A late-resolved qB hash gives a monitor its exclusive key.
BindDownloadMonitorIdentity(t, x) ==
  /\ task[t].kind = "download_watch"
  /\ Status(t) \in {"queued", "running", "waiting"}
  /\ Exclusive(t, x)
  /\ task' = [task EXCEPT ![t].exclusive = x]
  /\ UNCHANGED ahead

-----------------------------------------------------------------------------
(* Requests of users and of the agent's tools.                             *)

\* Faults: the status is checked by an earlier read only, which let a claim
\* in; a terminal row is not rejected.
CancelRunningToo(t) ==
  /\ Status(t) \in {"queued", "waiting", "running"}
  /\ task' = [task EXCEPT ![t].status = "cancelled", ![t].old = FALSE]
  /\ ahead' = Leave({t})

CancelTerminalToo(t) ==
  /\ Status(t) \notin {"absent", "initializing", "running"}
  /\ task' = [task EXCEPT ![t].status = "cancelled", ![t].old = FALSE]
  /\ ahead' = Leave({t})

CancelPending(t) ==
  /\ Status(t) \in {"queued", "waiting"}
  /\ task' = [task EXCEPT ![t].status = "cancelled", ![t].old = FALSE]
  /\ ahead' = Leave({t})

\* The request moves the next check; a request that leaves run_after alone
\* changes the payload only.
UpdateDownloadMonitor(t) ==
  /\ task[t].kind = "download_watch"
  /\ Status(t) \in {"queued", "waiting"}
  /\ task' = [task EXCEPT ![t].runAfter = "future"]
  /\ ahead' = Leave({t})

-----------------------------------------------------------------------------
(* Retention.  A purge has nothing to delete, or is rolled back, when      *)
(* CanPurge fails.                                                         *)

References(c, t) == Status(c) # "absent" /\ task[c].parent = t

\* Old terminal rows without an active child.
Purgeable == {t \in Tasks : /\ Terminal(t) /\ task[t].old
                            /\ \A c \in Tasks : References(c, t) => ~Active(c)}

\* One DELETE for all of them: the foreign key rejects the whole statement
\* when a row that stays still references one of them.
\* Faults: the foreign key is off; parents are deleted one by one before
\* their children.
CanPurgeUnreferenced == Purgeable # {}

CanPurgeParentsFirst ==
  /\ Purgeable # {}
  /\ \A c \in Tasks : \A t \in Purgeable : ~References(c, t)

CanPurge ==
  /\ Purgeable # {}
  /\ \A c \in Tasks \ Purgeable : \A t \in Purgeable : ~References(c, t)

PurgeTerminalTasks ==
  /\ CanPurge
  /\ task' = [t \in Tasks |-> IF t \in Purgeable THEN NoRow ELSE task[t]]
  /\ ahead' = Leave(Purgeable)

-----------------------------------------------------------------------------
(* The passage of time, as the queries see it.                             *)

BecomeDue(t) ==
  /\ Status(t) \in {"queued", "waiting"}
  /\ task[t].runAfter = "future"
  /\ task' = [task EXCEPT ![t].runAfter = "past"]
  /\ ahead' = Requeue(t, "past")

GrowOld(t) ==
  /\ Terminal(t) \/ Status(t) = "initializing"
  /\ ~task[t].old
  /\ task' = [task EXCEPT ![t].old = TRUE]
  /\ UNCHANGED ahead

-----------------------------------------------------------------------------
(* What the table promises to every client.                                *)

\* No two active rows own the same exclusive key, and no two rows the same
\* dedupe key: what activation, late binding, creation and the reuse of a
\* key by a later row must preserve together.
KeysUnique ==
  \A t, u \in Tasks : t # u =>
    /\ Active(t) /\ Active(u) /\ task[t].exclusive # None
         => task[t].exclusive # task[u].exclusive
    /\ task[t].dedupe # None => task[t].dedupe # task[u].dedupe

\* A lease is held exactly while the task is RUNNING.
LeaseIffRunning ==
  \A t \in Tasks : task[t].leased <=> Status(t) = "running"

\* Every row's parent is still there: retention deletes a family together.
ParentsPresent ==
  \A t \in Tasks : task[t].parent # None => Status(task[t].parent) # "absent"

\* Whatever the interleaving, the statuses move as the lifecycle promises:
\* legal transitions only, and no row leaves a terminal status or disappears
\* before it has one.
Lifecycle == INSTANCE TaskLifecycle WITH status <- [t \in Tasks |-> Status(t)]
LifecycleSpec == Lifecycle!Spec

=============================================================================
