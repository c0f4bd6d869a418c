----------------------- MODULE RuntimeTaskStoreProofs -----------------------
(***************************************************************************)
(* What every store method preserves, for any set of tasks and keys: one   *)
(* lemma per method.                                                       *)
(***************************************************************************)
EXTENDS RuntimeTaskStore, TLAPS

\* An id without a row holds nothing, so it neither owns a key nor references
\* a parent.
AbsentIsBlank == \A t \in Tasks : Status(t) = "absent" => task[t] = NoRow

StoreInv ==
  /\ StoreTypeOK
  /\ KeysUnique
  /\ ParentsPresent
  /\ LeaseIffRunning
  /\ AbsentIsBlank

\* The statuses move as the lifecycle allows.
StatusesMove == \A t \in Tasks : Lifecycle!TaskStep(Status(t), Status(t)')

USE StoreAssumption DEF Statuses, ActiveStatuses, TERMINAL_STATUSES

\* The empty table satisfies the store's invariant.
LEMMA InitKeeps == StoreInit => StoreInv
BY DEF StoreInit, StoreInv, StoreTypeOK, NoRow, NewRow, Row, RunAfter, KeysUnique,
       ParentsPresent, LeaseIffRunning, AbsentIsBlank, Active, Status

\* Requeue and Leave yield claim orders again.
LEMMA RequeueType ==
  ASSUME StoreTypeOK, NEW t \in Tasks, NEW ra
  PROVE  Requeue(t, ra) \in [Tasks -> SUBSET Tasks]
BY DEF StoreTypeOK, Requeue, Queue, Due

\* Rows that are no longer due leave the claim order.
LEMMA LeaveType ==
  ASSUME StoreTypeOK, NEW S
  PROVE  Leave(S) \in [Tasks -> SUBSET Tasks]
BY DEF StoreTypeOK, Leave

\* prepare and enqueue insert a row under keys that no other row holds.
LEMMA InsertKeeps ==
  ASSUME StoreInv,
         NEW t \in Tasks, NEW k \in Kinds, NEW p \in Tasks \cup {None},
         NEW d \in DedupeKeys \cup {None}, NEW x \in ExclusiveKeys \cup {None},
         NEW ra \in RunAfter, NEW st \in {"initializing", "queued"},
         Insert(t, st, k, ra, p, d, x)
  PROVE  StoreInv' /\ StatusesMove
<1> DEFINE r == NewRow(st, k, ra, p, d, x)
<1>1. r \in Row
  BY DEF NewRow, Row
<1>2. task' = [task EXCEPT ![t] = r] /\ task \in [Tasks -> Row]
  BY DEF Insert, StoreInv, StoreTypeOK
<1>3. StoreTypeOK'
  BY <1>1, <1>2, RequeueType, LeaveType DEF Insert, StoreTypeOK, StoreInv
<1>4. \A u \in Tasks : task'[u] = IF u = t THEN r ELSE task[u]
  BY <1>2
<1>5. KeysUnique'
  BY <1>4 DEF KeysUnique, StoreInv, Insert, Exclusive, Active, Status, NewRow
<1>6. ParentsPresent'
  BY <1>2, <1>4 DEF ParentsPresent, StoreInv, Insert, Status, NewRow, Row
<1>7. LeaseIffRunning'
  BY <1>4 DEF LeaseIffRunning, StoreInv, Status, NewRow
<1>8. StatusesMove
  BY <1>4 DEF StatusesMove, Status, NewRow, Insert, Lifecycle!TaskStep, Lifecycle!Born
<1>9. AbsentIsBlank'
  BY <1>4 DEF AbsentIsBlank, StoreInv, Status, NewRow
<1> QED
  BY <1>3, <1>5, <1>6, <1>7, <1>8, <1>9 DEF StoreInv

\* A method that rewrites one row keeps its key columns, or takes a free key.
LEMMA UpdateKeeps ==
  ASSUME StoreInv,
         NEW t \in Tasks, NEW r \in Row,
         Status(t) # "absent",
         r.dedupe = task[t].dedupe, r.parent = task[t].parent,
         r.leased <=> r.status = "running",
         r.status \in ActiveStatuses =>
           /\ Active(t)
           /\ r.exclusive = task[t].exclusive \/ Exclusive(t, r.exclusive),
         r.status = task[t].status \/ Lifecycle!CanTransition(task[t].status, r.status),
         task' = [task EXCEPT ![t] = r],
         ahead' \in [Tasks -> SUBSET Tasks]
  PROVE  StoreInv' /\ StatusesMove
<1>1. task \in [Tasks -> Row]
  BY DEF StoreInv, StoreTypeOK
<1>2. \A u \in Tasks : task'[u] = IF u = t THEN r ELSE task[u]
  BY <1>1
<1>3. StoreTypeOK'
  BY <1>1 DEF StoreTypeOK
<1>4. r.status # "absent"
  BY DEF Lifecycle!CanTransition, Lifecycle!LEGAL_TRANSITIONS, Status
<1>5. KeysUnique'
  BY <1>2 DEF KeysUnique, StoreInv, Exclusive, Active, Status
<1>6. ParentsPresent'
  BY <1>1, <1>2, <1>4 DEF ParentsPresent, StoreInv, Status, Row
<1>7. LeaseIffRunning'
  BY <1>2 DEF LeaseIffRunning, StoreInv, Status
<1>8. StatusesMove
  BY <1>2 DEF StatusesMove, Status, Lifecycle!TaskStep
<1>9. AbsentIsBlank'
  BY <1>2, <1>4 DEF AbsentIsBlank, StoreInv, Status
<1> QED
  BY <1>3, <1>5, <1>6, <1>7, <1>8, <1>9 DEF StoreInv

\* The two copies of the transition table, the store's and the lifecycle's.
LEMMA SameTable ==
  ASSUME NEW old, NEW new
  PROVE  CanTransition(old, new) <=> Lifecycle!CanTransition(old, new)
BY DEF CanTransition, Lifecycle!CanTransition, LEGAL_TRANSITIONS,
       Lifecycle!LEGAL_TRANSITIONS

\* activate_initializing, for a row that still is INITIALIZING.
LEMMA ActivateKeeps ==
  ASSUME StoreInv, NEW t \in Tasks, NEW ra \in RunAfter,
         NEW x \in ExclusiveKeys \cup {None}, Activate(t, ra, x)
  PROVE  StoreInv' /\ StatusesMove
<1> DEFINE key == IF x = None THEN task[t].exclusive ELSE x
           r == [task[t] EXCEPT !.status = "queued", !.runAfter = ra,
                                !.exclusive = key, !.old = FALSE]
<1>1. task[t] \in Row /\ task \in [Tasks -> Row]
  BY DEF StoreInv, StoreTypeOK
<1>2. task' = [task EXCEPT ![t] = r]
  BY <1>1 DEF Activate
<1>3. r \in Row
  BY <1>1 DEF Row
<1>4. CanTransition(Status(t), "queued") /\ Exclusive(t, key)
  BY DEF Activate
<1>5. Status(t) = "initializing"
  BY <1>4 DEF CanTransition, LEGAL_TRANSITIONS
<1>6. ~task[t].leased
  BY <1>5 DEF StoreInv, LeaseIffRunning
<1>7. ahead' \in [Tasks -> SUBSET Tasks]
  BY RequeueType, LeaveType DEF Activate, StoreInv, StoreTypeOK
<1>8. /\ r.dedupe = task[t].dedupe /\ r.parent = task[t].parent
      /\ r.status = "queued" /\ r.exclusive = key /\ r.leased = task[t].leased
  BY <1>1 DEF Row
<1> HIDE DEF r
<1> QED
  BY <1>2, <1>3, <1>4, <1>5, <1>6, <1>7, <1>8, SameTable, UpdateKeeps DEF Status, Active

\* fail_initialization leaves the lease alone: fine for a row that has none.
LEMMA FailInitializationKeeps ==
  ASSUME StoreInv, NEW t \in Tasks, Status(t) = "initializing", FailInitialization(t)
  PROVE  StoreInv' /\ StatusesMove
<1> DEFINE r == [task[t] EXCEPT !.status = "failed", !.old = FALSE]
<1>1. task[t] \in Row /\ task \in [Tasks -> Row]
  BY DEF StoreInv, StoreTypeOK
<1>2. task' = [task EXCEPT ![t] = r]
  BY <1>1 DEF FailInitialization
<1>3. r \in Row
  BY <1>1 DEF Row, RunAfter
<1>4. Status(t) = "initializing"
  BY DEF FailInitialization, CanTransition, LEGAL_TRANSITIONS, Terminal, Status
<1>5. ahead' \in [Tasks -> SUBSET Tasks]
  BY RequeueType, LeaveType DEF FailInitialization, StoreInv, StoreTypeOK
<1>6. /\ r.dedupe = task[t].dedupe /\ r.parent = task[t].parent
      /\ r.status = "failed" /\ r.leased = task[t].leased
  BY <1>1 DEF Row
<1>7. task[t].leased <=> Status(t) = "running"
  BY DEF StoreInv, LeaseIffRunning
<1> HIDE DEF r
<1> QED
  BY <1>2, <1>3, <1>4, <1>5, <1>6, <1>7, UpdateKeeps
     DEF Status, Active, Lifecycle!CanTransition, Lifecycle!LEGAL_TRANSITIONS

\* reschedule gives the lease back with the row.
LEMMA RescheduleKeeps ==
  ASSUME StoreInv, NEW t \in Tasks, NEW f \in Nat, Reschedule(t, f)
  PROVE  StoreInv' /\ StatusesMove
<1> DEFINE r == [task[t] EXCEPT !.status = "waiting", !.runAfter = "future",
                                !.failures = f, !.leased = FALSE]
<1>1. task[t] \in Row /\ task \in [Tasks -> Row]
  BY DEF StoreInv, StoreTypeOK
<1>2. task' = [task EXCEPT ![t] = r]
  BY <1>1 DEF Reschedule
<1>3. r \in Row
  BY <1>1 DEF Row, RunAfter
<1>4. Status(t) = "running"
  BY DEF Reschedule, CanTransition, LEGAL_TRANSITIONS, Terminal, Status
<1>5. ahead' \in [Tasks -> SUBSET Tasks]
  BY RequeueType, LeaveType DEF Reschedule, StoreInv, StoreTypeOK
<1>6. /\ r.dedupe = task[t].dedupe /\ r.parent = task[t].parent
      /\ r.status = "waiting" /\ ~r.leased /\ r.exclusive = task[t].exclusive
  BY <1>1 DEF Row
<1>7. task[t].leased <=> Status(t) = "running"
  BY DEF StoreInv, LeaseIffRunning
<1> HIDE DEF r
<1> QED
  BY <1>2, <1>3, <1>4, <1>5, <1>6, <1>7, UpdateKeeps
     DEF Status, Active, Lifecycle!CanTransition, Lifecycle!LEGAL_TRANSITIONS

\* finish makes a running row terminal and drops its lease.
LEMMA FinishKeeps ==
  ASSUME StoreInv, NEW t \in Tasks, NEW st \in {"succeeded", "failed"}, NEW f \in Nat,
         NEW stamp \in BOOLEAN, Status(t) = "running", Finish(t, st, f, stamp)
  PROVE  StoreInv' /\ StatusesMove
<1> DEFINE r == [task[t] EXCEPT !.status = st, !.failures = f, !.leased = FALSE,
                                !.old = stamp]
<1>1. task[t] \in Row /\ task \in [Tasks -> Row]
  BY DEF StoreInv, StoreTypeOK
<1>2. task' = [task EXCEPT ![t] = r]
  BY <1>1 DEF Finish
<1>3. r \in Row
  BY <1>1 DEF Row, RunAfter
<1>4. Status(t) = "running"
  BY DEF Finish, CanTransition, LEGAL_TRANSITIONS, Terminal, Status
<1>5. ahead' \in [Tasks -> SUBSET Tasks]
  BY RequeueType, LeaveType DEF Finish, StoreInv, StoreTypeOK
<1>6. /\ r.dedupe = task[t].dedupe /\ r.parent = task[t].parent
      /\ r.status = st /\ ~r.leased
  BY <1>1 DEF Row
<1>7. task[t].leased <=> Status(t) = "running"
  BY DEF StoreInv, LeaseIffRunning
<1> HIDE DEF r
<1> QED
  BY <1>2, <1>3, <1>4, <1>5, <1>6, <1>7, UpdateKeeps
     DEF Status, Active, Lifecycle!CanTransition, Lifecycle!LEGAL_TRANSITIONS

\* bind_download_monitor_identity binds a free key only.
LEMMA BindKeeps ==
  ASSUME StoreInv, NEW t \in Tasks, NEW x \in ExclusiveKeys,
         BindDownloadMonitorIdentity(t, x)
  PROVE  StoreInv' /\ StatusesMove
<1> DEFINE r == [task[t] EXCEPT !.exclusive = x]
<1>1. task[t] \in Row /\ task \in [Tasks -> Row]
  BY DEF StoreInv, StoreTypeOK
<1>2. task' = [task EXCEPT ![t] = r]
  BY <1>1 DEF BindDownloadMonitorIdentity
<1>3. r \in Row
  BY <1>1 DEF Row, RunAfter
<1>4. Status(t) \in {"queued", "running", "waiting"} /\ Exclusive(t, x)
  BY DEF BindDownloadMonitorIdentity, CanTransition, LEGAL_TRANSITIONS, Terminal, Status
<1>5. ahead' \in [Tasks -> SUBSET Tasks]
  BY RequeueType, LeaveType DEF BindDownloadMonitorIdentity, StoreInv, StoreTypeOK
<1>6. /\ r.dedupe = task[t].dedupe /\ r.parent = task[t].parent
      /\ r.status = task[t].status /\ r.leased = task[t].leased /\ r.exclusive = x
  BY <1>1 DEF Row
<1>7. task[t].leased <=> Status(t) = "running"
  BY DEF StoreInv, LeaseIffRunning
<1> HIDE DEF r
<1> QED
  BY <1>2, <1>3, <1>4, <1>5, <1>6, <1>7, UpdateKeeps
     DEF Status, Active, Lifecycle!CanTransition, Lifecycle!LEGAL_TRANSITIONS

\* cancel_pending, which leaves RUNNING rows alone.
LEMMA CancelPendingKeeps ==
  ASSUME StoreInv, NEW t \in Tasks, CancelPending(t)
  PROVE  StoreInv' /\ StatusesMove
<1> DEFINE r == [task[t] EXCEPT !.status = "cancelled", !.old = FALSE]
<1>1. task[t] \in Row /\ task \in [Tasks -> Row]
  BY DEF StoreInv, StoreTypeOK
<1>2. task' = [task EXCEPT ![t] = r]
  BY <1>1 DEF CancelPending
<1>3. r \in Row
  BY <1>1 DEF Row, RunAfter
<1>4. Status(t) \in {"queued", "waiting"}
  BY DEF CancelPending, CanTransition, LEGAL_TRANSITIONS, Terminal, Status
<1>5. ahead' \in [Tasks -> SUBSET Tasks]
  BY RequeueType, LeaveType DEF CancelPending, StoreInv, StoreTypeOK
<1>6. /\ r.dedupe = task[t].dedupe /\ r.parent = task[t].parent
      /\ r.status = "cancelled" /\ r.leased = task[t].leased
  BY <1>1 DEF Row
<1>7. task[t].leased <=> Status(t) = "running"
  BY DEF StoreInv, LeaseIffRunning
<1> HIDE DEF r
<1> QED
  BY <1>2, <1>3, <1>4, <1>5, <1>6, <1>7, UpdateKeeps
     DEF Status, Active, Lifecycle!CanTransition, Lifecycle!LEGAL_TRANSITIONS

\* update_download_monitor moves a due time only.
LEMMA UpdateDownloadMonitorKeeps ==
  ASSUME StoreInv, NEW t \in Tasks, UpdateDownloadMonitor(t)
  PROVE  StoreInv' /\ StatusesMove
<1> DEFINE r == [task[t] EXCEPT !.runAfter = "future"]
<1>1. task[t] \in Row /\ task \in [Tasks -> Row]
  BY DEF StoreInv, StoreTypeOK
<1>2. task' = [task EXCEPT ![t] = r]
  BY <1>1 DEF UpdateDownloadMonitor
<1>3. r \in Row
  BY <1>1 DEF Row, RunAfter
<1>4. Status(t) \in {"queued", "waiting"}
  BY DEF UpdateDownloadMonitor, CanTransition, LEGAL_TRANSITIONS, Terminal, Status
<1>5. ahead' \in [Tasks -> SUBSET Tasks]
  BY RequeueType, LeaveType DEF UpdateDownloadMonitor, StoreInv, StoreTypeOK
<1>6. /\ r.dedupe = task[t].dedupe /\ r.parent = task[t].parent
      /\ r.status = task[t].status /\ r.leased = task[t].leased /\ r.exclusive = task[t].exclusive
  BY <1>1 DEF Row
<1>7. task[t].leased <=> Status(t) = "running"
  BY DEF StoreInv, LeaseIffRunning
<1> HIDE DEF r
<1> QED
  BY <1>2, <1>3, <1>4, <1>5, <1>6, <1>7, UpdateKeeps
     DEF Status, Active, Lifecycle!CanTransition, Lifecycle!LEGAL_TRANSITIONS

\* Time reaches run_after.
LEMMA BecomeDueKeeps ==
  ASSUME StoreInv, NEW t \in Tasks, BecomeDue(t)
  PROVE  StoreInv' /\ StatusesMove
<1> DEFINE r == [task[t] EXCEPT !.runAfter = "past"]
<1>1. task[t] \in Row /\ task \in [Tasks -> Row]
  BY DEF StoreInv, StoreTypeOK
<1>2. task' = [task EXCEPT ![t] = r]
  BY <1>1 DEF BecomeDue
<1>3. r \in Row
  BY <1>1 DEF Row, RunAfter
<1>4. Status(t) \in {"queued", "waiting"}
  BY DEF BecomeDue, CanTransition, LEGAL_TRANSITIONS, Terminal, Status
<1>5. ahead' \in [Tasks -> SUBSET Tasks]
  BY RequeueType, LeaveType DEF BecomeDue, StoreInv, StoreTypeOK
<1>6. /\ r.dedupe = task[t].dedupe /\ r.parent = task[t].parent
      /\ r.status = task[t].status /\ r.leased = task[t].leased /\ r.exclusive = task[t].exclusive
  BY <1>1 DEF Row
<1>7. task[t].leased <=> Status(t) = "running"
  BY DEF StoreInv, LeaseIffRunning
<1> HIDE DEF r
<1> QED
  BY <1>2, <1>3, <1>4, <1>5, <1>6, <1>7, UpdateKeeps
     DEF Status, Active, Lifecycle!CanTransition, Lifecycle!LEGAL_TRANSITIONS

\* Time passes a row's retention.
LEMMA GrowOldKeeps ==
  ASSUME StoreInv, NEW t \in Tasks, GrowOld(t)
  PROVE  StoreInv' /\ StatusesMove
<1> DEFINE r == [task[t] EXCEPT !.old = TRUE]
<1>1. task[t] \in Row /\ task \in [Tasks -> Row]
  BY DEF StoreInv, StoreTypeOK
<1>2. task' = [task EXCEPT ![t] = r]
  BY <1>1 DEF GrowOld
<1>3. r \in Row
  BY <1>1 DEF Row, RunAfter
<1>4. Status(t) \in {"succeeded", "failed", "cancelled", "initializing"}
  BY DEF GrowOld, CanTransition, LEGAL_TRANSITIONS, Terminal, Status
<1>5. ahead' \in [Tasks -> SUBSET Tasks]
  BY RequeueType, LeaveType DEF GrowOld, StoreInv, StoreTypeOK
<1>6. /\ r.dedupe = task[t].dedupe /\ r.parent = task[t].parent
      /\ r.status = task[t].status /\ r.leased = task[t].leased /\ r.exclusive = task[t].exclusive
  BY <1>1 DEF Row
<1>7. task[t].leased <=> Status(t) = "running"
  BY DEF StoreInv, LeaseIffRunning
<1> HIDE DEF r
<1> QED
  BY <1>2, <1>3, <1>4, <1>5, <1>6, <1>7, UpdateKeeps
     DEF Status, Active, Lifecycle!CanTransition, Lifecycle!LEGAL_TRANSITIONS

\* A claim moves several rows at once.
LEMMA ClaimDueKeeps ==
  ASSUME StoreInv, NEW S, ClaimDue(S)
  PROVE  StoreInv' /\ StatusesMove
<1> DEFINE r(t) == [task[t] EXCEPT !.status = "running", !.leased = TRUE]
<1>1. task \in [Tasks -> Row]
  BY DEF StoreInv, StoreTypeOK
<1>2. \A t \in Tasks : /\ r(t) \in Row
                       /\ r(t).status = "running" /\ r(t).leased
                       /\ r(t).exclusive = task[t].exclusive
                       /\ r(t).dedupe = task[t].dedupe /\ r(t).parent = task[t].parent
  BY <1>1 DEF Row
<1>3. \A t \in S : Status(t) \in {"queued", "waiting"}
  BY DEF ClaimDue, Due
<1>4. task' = [t \in Tasks |-> IF t \in S THEN r(t) ELSE task[t]]
  BY DEF ClaimDue
<1> HIDE DEF r
<1>a. ahead' \in [Tasks -> SUBSET Tasks]
  BY LeaveType DEF ClaimDue, StoreInv
<1>5. StoreTypeOK'
  BY <1>1, <1>2, <1>4, <1>a DEF StoreTypeOK
<1>6. KeysUnique'
  BY <1>2, <1>3, <1>4 DEF KeysUnique, StoreInv, Active, Status
<1>7. ParentsPresent'
  BY <1>1, <1>2, <1>4 DEF ParentsPresent, StoreInv, Status, Row
<1>8. LeaseIffRunning'
  BY <1>2, <1>4 DEF LeaseIffRunning, StoreInv, Status
<1>9. StatusesMove
  BY <1>2, <1>3, <1>4 DEF StatusesMove, Status, Lifecycle!TaskStep,
                          Lifecycle!CanTransition, Lifecycle!LEGAL_TRANSITIONS
<1>10. AbsentIsBlank'
  BY <1>2, <1>4 DEF AbsentIsBlank, StoreInv, Status
<1> QED
  BY <1>5, <1>6, <1>7, <1>8, <1>9, <1>10 DEF StoreInv

\* What stays references nothing that was purged: the foreign key.
LEMMA PurgeKeeps ==
  ASSUME StoreInv, PurgeTerminalTasks
  PROVE  StoreInv' /\ StatusesMove
<1>1. /\ NoRow \in Row /\ NoRow.status = "absent" /\ ~NoRow.leased
      /\ NoRow.dedupe = None /\ NoRow.parent = None
  BY DEF NoRow, NewRow, Row, RunAfter
<1>2. task' = [t \in Tasks |-> IF t \in Purgeable THEN NoRow ELSE task[t]]
  BY DEF PurgeTerminalTasks
<1>3. \A t \in Purgeable : t \in Tasks /\ Terminal(t)
  BY DEF Purgeable
<1>4. \A c \in Tasks \ Purgeable : \A t \in Purgeable :
        Status(c) # "absent" => task[c].parent # t
  BY DEF PurgeTerminalTasks, CanPurge, References
<1> HIDE DEF NoRow
<1>5. StoreTypeOK'
  BY <1>1, <1>2, LeaveType DEF StoreTypeOK, PurgeTerminalTasks, StoreInv
<1>6. KeysUnique'
  BY <1>1, <1>2 DEF KeysUnique, StoreInv, Active, Status
<1>7. ParentsPresent'
  BY <1>1, <1>2, <1>4 DEF ParentsPresent, AbsentIsBlank, StoreInv, StoreTypeOK,
                          Status, Row
<1>8. LeaseIffRunning'
  BY <1>1, <1>2 DEF LeaseIffRunning, StoreInv, Status
<1>9. StatusesMove
  BY <1>1, <1>2, <1>3 DEF StatusesMove, Status, Terminal, Lifecycle!TaskStep,
                          Lifecycle!Purged, Lifecycle!TERMINAL_STATUSES
<1>10. AbsentIsBlank'
  BY <1>2 DEF AbsentIsBlank, StoreInv, Status
<1> QED
  BY <1>5, <1>6, <1>7, <1>8, <1>9, <1>10 DEF StoreInv

=============================================================================
