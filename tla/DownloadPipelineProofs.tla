----------------------- MODULE DownloadPipelineProofs -----------------------
(***************************************************************************)
(* One submission, one monitor and one organizer for each torrent, for any *)
(* number of torrents, tasks, threads and policies, and any number of      *)
(* crashes.                                                                *)
(***************************************************************************)
EXTENDS DownloadPipeline, RuntimeTaskStoreProofs

-----------------------------------------------------------------------------
(* The inductive invariant.                                                *)

Payload == [action : Actions \cup {None}, hash : Hashes \cup {None}, path : Paths \cup {None},
            snapshot : Policies \cup {None}, attempts : Nat]

Stages == {"none", "claimed", "moving", "moved"} \cup OutcomeStages

Steps == {"reserved", "accepted", "refused"}

Request == [step : Steps \cup {"idle"}, task : Tasks \cup {None}, hash : Hashes \cup {None}]

Shapes ==
  /\ payload \in [Tasks -> Payload]
  /\ stage \in [Tasks -> Stages]
  /\ call \in [Calls -> Request]
  /\ file \in Policies \cup {None}
  /\ torrent \in [Hashes -> {"absent", "downloading", "complete"}]
  /\ tagged \in [Hashes -> SUBSET Tasks]
  /\ adds \in [Tasks -> Nat]
  /\ up \in BOOLEAN
  /\ crashes \in Nat

\* A monitor that knows its torrent holds the torrent's exclusive key; an
\* organize task has the dedupe key of its torrent, and the torrent's path.
Keyed(t) ==
  Active(t) =>
    /\ task[t].kind = "download_watch" /\ payload[t].hash # None =>
         task[t].exclusive = payload[t].hash
    /\ task[t].kind = "organize_download" =>
         /\ payload[t].hash \in Hashes
         /\ task[t].dedupe = payload[t].hash
         /\ payload[t].path = ContentPath[payload[t].hash]

\* What a coroutine works on stays RUNNING, and is of the kind its stage tells.
Staged(t) ==
  /\ stage[t] # "none" => Status(t) = "running"
  /\ stage[t] = "spawn" => task[t].kind = "download_watch" /\ payload[t].hash # None
  /\ stage[t] \in {"moving", "moved"} => task[t].kind = "organize_download"

\* An id without a row has no submission.
Added(t) ==
  /\ adds[t] <= 1
  /\ Status(t) = "absent" => adds[t] = 0

TaskOK(t) == Keyed(t) /\ Staged(t) /\ Added(t)

\* The reservation of a submission is its own until the call has ended it.
CallOK(c) ==
  \/ call[c] = IdleCall
  \/ /\ up /\ call[c].step \in Steps /\ call[c].task \in Tasks
     /\ Status(call[c].task) = "initializing"
     /\ task[call[c].task].kind = "download_watch"
     /\ call[c].step = "reserved" => adds[call[c].task] = 0

CallsApart ==
  \A c, d \in Calls : c # d /\ call[c].task = call[d].task => call[c].task = None

PipelineInv ==
  /\ StoreInv
  /\ Shapes
  /\ \A t \in Tasks : TaskOK(t)
  /\ \A c \in Calls : CallOK(c)
  /\ CallsApart

USE StoreAssumption, PipelineAssumption DEF Hashes, ActiveStatuses, TERMINAL_STATUSES, history

-----------------------------------------------------------------------------
(* What a step does to the rest.                                           *)

\* A task whose row may be claimed, changed or ended by others while no
\* coroutine has it.
TaskAside(u) ==
  /\ payload'[u] = payload[u] /\ stage'[u] = stage[u] /\ adds'[u] = adds[u]
  /\ task'[u].kind = task[u].kind
  /\ task'[u].dedupe = task[u].dedupe
  /\ task'[u].exclusive = task[u].exclusive
  /\ \/ Status(u)' = Status(u)
     \/ stage[u] = "none" /\ (Active(u)' => Active(u)) /\ Status(u)' # "absent"

\* A task that only changes its status, aside of any reservation, stays as it was bound.
LEMMA TaskAsideKeeps ==
  ASSUME PipelineInv, NEW u \in Tasks, TaskAside(u)
  PROVE  TaskOK(u)'
<1>1. TaskOK(u) /\ (Active(u)' => Active(u))
  BY DEF PipelineInv, TaskAside, Active
<1>2. Keyed(u)'
  BY <1>1 DEF TaskAside, TaskOK, Keyed
<1>3. Staged(u)' /\ Added(u)'
  BY <1>1 DEF TaskAside, TaskOK, Staged, Added
<1> QED
  BY <1>2, <1>3 DEF TaskOK

\* Reservations are left to the calls that made them.
LEMMA CallsAside ==
  ASSUME PipelineInv, UNCHANGED <<call, up>>,
         \A u \in Tasks : Status(u) = "initializing" =>
           /\ Status(u)' = "initializing" /\ task'[u].kind = task[u].kind
           /\ adds'[u] = adds[u]
  PROVE  (\A c \in Calls : CallOK(c)') /\ CallsApart'
<1>1. ASSUME NEW c \in Calls PROVE CallOK(c)'
  BY DEF PipelineInv, CallOK
<1> QED
  BY <1>1 DEF PipelineInv, CallsApart

\* A step on task t that leaves the calls alone.
LEMMA OneTaskKeeps ==
  ASSUME PipelineInv, StoreInv', Shapes', UNCHANGED <<call, up>>, NEW t \in Tasks,
         \A u \in Tasks \ {t} :
           /\ task'[u] = task[u] /\ payload'[u] = payload[u]
           /\ stage'[u] = stage[u] /\ adds'[u] = adds[u],
         TaskOK(t)',
         Status(t) = "initializing" =>
           /\ Status(t)' = "initializing" /\ task'[t].kind = task[t].kind
           /\ adds'[t] = adds[t]
  PROVE  PipelineInv'
<1>1. \A u \in Tasks : TaskOK(u)'
  <2>1. ASSUME NEW u \in Tasks \ {t} PROVE TaskOK(u)'
    <3>1. TaskAside(u)
      BY DEF TaskAside, Status
    <3> QED
      BY <3>1, TaskAsideKeeps
  <2> QED
    BY <2>1
<1>2. \A u \in Tasks : Status(u) = "initializing" =>
        /\ Status(u)' = "initializing" /\ task'[u].kind = task[u].kind
        /\ adds'[u] = adds[u]
  BY DEF Status
<1>3. (\A c \in Calls : CallOK(c)') /\ CallsApart'
  BY <1>2, CallsAside
<1> QED
  BY <1>1, <1>3 DEF PipelineInv

\* What call c does about its reservation t.
LEMMA OneCallKeeps ==
  ASSUME PipelineInv, StoreInv', Shapes', up' = up, NEW c \in Calls, NEW t \in Tasks,
         \A d \in Calls \ {c} : call'[d] = call[d] /\ call[d].task # t,
         \A u \in Tasks \ {t} :
           /\ task'[u] = task[u] /\ payload'[u] = payload[u]
           /\ stage'[u] = stage[u] /\ adds'[u] = adds[u],
         TaskOK(t)', CallOK(c)', call'[c].task \in {t, None}
  PROVE  PipelineInv'
<1>1. ASSUME NEW u \in Tasks \ {t} PROVE TaskOK(u)'
  <2>1. TaskAside(u)
    BY DEF TaskAside, Status
  <2> QED
    BY <2>1, TaskAsideKeeps
<1>2. ASSUME NEW d \in Calls \ {c} PROVE CallOK(d)'
  BY DEF PipelineInv, CallOK, Status
<1>3. CallsApart'
  BY DEF PipelineInv, CallsApart
<1> QED
  BY <1>1, <1>2, <1>3 DEF PipelineInv

\* A row keeps what the status and the failures do not say.
LEMMA StoreUnchanged ==
  ASSUME StoreInv, UNCHANGED storeVars
  PROVE  StoreInv' /\ StatusesMove
BY DEF storeVars, StoreInv, StoreTypeOK, KeysUnique, ParentsPresent, LeaseIffRunning,
       AbsentIsBlank, Active, Status, StatusesMove, Lifecycle!TaskStep

\* Policies are whole, or none.
LEMMA CapturesType ==
  ASSUME PipelineInv, NEW a, NEW p, NEW s \in Captures(a, p)
  PROVE  s \in Policies \cup {None}
BY DEF PipelineInv, Shapes, Captures, Load

-----------------------------------------------------------------------------
(* Tool calls.                                                             *)

\* What a call may be executing.
LEMMA RequestType ==
  ASSUME NEW s \in Steps \cup {"idle"}, NEW t \in Tasks \cup {None},
         NEW h \in Hashes \cup {None}
  PROVE  [step |-> s, task |-> t, hash |-> h] \in Request
BY DEF Request

\* A call changes what it is executing.
LEMMA CallMoves ==
  ASSUME PipelineInv, NEW c \in Calls, NEW r \in Request, call' = [call EXCEPT ![c] = r]
  PROVE  /\ call' \in [Calls -> Request] /\ call'[c] = r
         /\ \A d \in Calls \ {c} : call'[d] = call[d]
BY DEF PipelineInv, Shapes

\* A reservation gets a new id, which no call or coroutine knows.
LEMMA SubmitStep ==
  ASSUME PipelineInv, NEW c \in Calls, SubmitDownload(c)
  PROVE  PipelineInv' /\ StatusesMove
<1>. PICK k \in SubmitKeys \cup {None}, a \in Actions, p \in Paths, t \in Tasks :
       \E s \in Captures(a, p) :
         /\ Fresh(t)
         /\ Prepare(t, "download_watch", k, None)
         /\ payload' = [payload EXCEPT ![t] = NewPayload(a, None, p, s)]
         /\ call' = [call EXCEPT ![c].step = "reserved", ![c].task = t]
  BY DEF SubmitDownload
<1>. PICK s \in Captures(a, p) :
      /\ Fresh(t)
      /\ Insert(t, "initializing", "download_watch", "null", None, k, None)
      /\ payload' = [payload EXCEPT ![t] = NewPayload(a, None, p, s)]
      /\ call' = [call EXCEPT ![c].step = "reserved", ![c].task = t]
  BY DEF Prepare
<1>1. StoreInv' /\ StatusesMove
  BY InsertKeeps DEF PipelineInv, Kinds, RunAfter
<1>2. UNCHANGED <<stage, file, qb, adds, process>> /\ up /\ call[c] = IdleCall
  BY DEF SubmitDownload
<1>3. NewPayload(a, None, p, s) \in Payload /\ NewPayload(a, None, p, s).hash = None
  BY CapturesType DEF NewPayload, Payload
<1>4. /\ payload'[t] = NewPayload(a, None, p, s)
      /\ \A u \in Tasks \ {t} : payload'[u] = payload[u] /\ task'[u] = task[u]
      /\ task'[t] = NewRow("initializing", "download_watch", "null", None, k, None)
  BY DEF Insert, PipelineInv, Shapes, StoreInv, StoreTypeOK
<1>5. /\ call' \in [Calls -> Request]
      /\ call'[c].step = "reserved" /\ call'[c].task = t
      /\ \A d \in Calls \ {c} : call'[d] = call[d] /\ call[d].task # t
  <2> DEFINE r == [step |-> "reserved", task |-> t, hash |-> None]
  <2>1. r \in Request /\ r.step = "reserved" /\ r.task = t
    BY RequestType DEF Steps
  <2>2. call' = [call EXCEPT ![c] = r]
    BY <1>2 DEF IdleCall, PipelineInv, Shapes, Request
  <2> HIDE DEF r
  <2> QED
    BY <2>1, <2>2, CallMoves DEF Fresh
<1>6. Shapes'
  <2>1. payload' \in [Tasks -> Payload]
    BY <1>3 DEF PipelineInv, Shapes
  <2> QED
    BY <1>2, <1>5, <2>1 DEF PipelineInv, Shapes, qb, process
<1>7. /\ Status(t) = "absent" /\ stage[t] = "none" /\ adds[t] = 0
      /\ Status(t)' = "initializing" /\ task'[t].kind = "download_watch"
  BY <1>4 DEF Fresh, PipelineInv, TaskOK, Added, Status, NewRow
<1>8. TaskOK(t)'
  BY <1>2, <1>3, <1>4, <1>7 DEF TaskOK, Keyed, Staged, Added
<1>9. CallOK(c)'
  BY <1>2, <1>5, <1>7 DEF CallOK, Steps, process
<1> QED
  BY <1>1, <1>2, <1>4, <1>5, <1>6, <1>8, <1>9, OneCallKeeps DEF process

\* What qBittorrent keeps of a torrent.
LEMMA QbType ==
  ASSUME PipelineInv, NEW h \in Hashes, NEW tags \in SUBSET Tasks, QbAdds(h, tags)
  PROVE  /\ torrent' \in [Hashes -> {"absent", "downloading", "complete"}]
         /\ tagged' \in [Hashes -> SUBSET Tasks]
BY DEF PipelineInv, Shapes, QbAdds, qb

\* What call c has reserved, and whose it is.
LEMMA CallFacts ==
  ASSUME PipelineInv, NEW c \in Calls, call[c].step \in Steps
  PROVE  \E t \in Tasks, h \in Hashes \cup {None} :
           /\ call[c] = [step |-> call[c].step, task |-> t, hash |-> h]
           /\ call[c].task = t /\ call[c].hash = h
           /\ up /\ Status(t) = "initializing" /\ task[t].kind = "download_watch"
           /\ stage[t] = "none"
           /\ call[c].step = "reserved" => adds[t] = 0
           /\ \A d \in Calls \ {c} : call[d].task # t
<1> DEFINE t == call[c].task
           h == call[c].hash
<1>1. t \in Tasks /\ up /\ Status(t) = "initializing" /\ task[t].kind = "download_watch"
      /\ (call[c].step = "reserved" => adds[t] = 0)
  BY DEF PipelineInv, CallOK, IdleCall, Steps
<1>2. /\ h \in Hashes \cup {None}
      /\ call[c] = [step |-> call[c].step, task |-> t, hash |-> h]
  BY DEF PipelineInv, Shapes, Request
<1>3. \A d \in Calls \ {c} : call[d].task # t
  BY <1>1 DEF PipelineInv, CallsApart
<1>4. stage[t] = "none"
  BY <1>1 DEF PipelineInv, TaskOK, Staged
<1> HIDE DEF t, h
<1>5. call[c].task = t /\ call[c].hash = h
  BY DEF t, h
<1> QED
  BY <1>1, <1>2, <1>3, <1>4, <1>5

\* The call ends.
LEMMA HangsUp ==
  ASSUME PipelineInv, NEW c \in Calls, HangUp(c)
  PROVE  /\ call' \in [Calls -> Request] /\ call'[c] = IdleCall
         /\ \A d \in Calls \ {c} : call'[d] = call[d]
<1>1. IdleCall \in Request
  BY RequestType DEF IdleCall
<1> QED
  BY <1>1, CallMoves DEF HangUp

\* The call goes on with its reservation.
LEMMA TurnsTo ==
  ASSUME PipelineInv, NEW c \in Calls, call[c].step \in Steps,
         NEW s \in Steps, NEW h \in Hashes \cup {None}, Turn(c, s, h)
  PROVE  /\ call' \in [Calls -> Request]
         /\ call'[c].step = s /\ call'[c].task = call[c].task
         /\ \A d \in Calls \ {c} : call'[d] = call[d]
<1> DEFINE r == [call[c] EXCEPT !.step = s, !.hash = h]
<1>1. call \in [Calls -> Request] /\ call[c] \in Request
  BY DEF PipelineInv, Shapes
<1>2. r \in Request /\ r.step = s /\ r.task = call[c].task
  BY <1>1 DEF Request
<1>3. call' = [call EXCEPT ![c] = r]
  <2>1. DOMAIN call = Calls
    BY <1>1
  <2>2. DOMAIN call[c] = {"step", "task", "hash"}
    BY <1>1 DEF Request
  <2> QED
    BY <2>1, <2>2 DEF Turn
<1> HIDE DEF r
<1> QED
  BY <1>2, <1>3, CallMoves

\* The one submission of a reservation.
LEMMA SubmitToQbStep ==
  ASSUME PipelineInv, NEW c \in Calls, SubmitToQb(c)
  PROVE  PipelineInv' /\ StatusesMove
<1>1. StoreInv' /\ StatusesMove /\ task' = task
  BY StoreUnchanged DEF SubmitToQb, PipelineInv, storeVars
<1>2. UNCHANGED <<payload, stage, file, process>> /\ call[c].step = "reserved"
  BY DEF SubmitToQb
<1> PICK t \in Tasks, h \in Hashes \cup {None} :
      /\ call[c].task = t
      /\ up /\ Status(t) = "initializing" /\ task[t].kind = "download_watch"
      /\ stage[t] = "none" /\ adds[t] = 0
      /\ \A d \in Calls \ {c} : call[d].task # t
  BY <1>2, CallFacts DEF Steps
<1>4. \/ HangUp(c)
      \/ \E s \in {"accepted", "refused"}, g \in Hashes \cup {None} : Turn(c, s, g)
  BY DEF SubmitToQb
<1>5. /\ call' \in [Calls -> Request]
      /\ \A d \in Calls \ {c} : call'[d] = call[d]
      /\ \/ call'[c] = IdleCall
         \/ call'[c].task = t /\ call'[c].step \in {"accepted", "refused"}
  BY <1>2, <1>4, HangsUp, TurnsTo DEF Steps
<1>6. /\ adds' \in [Tasks -> Nat] /\ adds'[t] <= 1
      /\ \A u \in Tasks \ {t} : adds'[u] = adds[u]
  BY DEF SubmitToQb, PipelineInv, Shapes
<1>7. Shapes'
  <2>1. /\ torrent' \in [Hashes -> {"absent", "downloading", "complete"}]
        /\ tagged' \in [Hashes -> SUBSET Tasks]
    BY QbType DEF SubmitToQb, qb, PipelineInv, Shapes
  <2> QED
    BY <1>2, <1>5, <1>6, <2>1 DEF PipelineInv, Shapes, process
<1>8. Status(t)' = "initializing" /\ task'[t].kind = "download_watch" /\ TaskOK(t)
  BY <1>1 DEF Status, PipelineInv
<1>9. TaskOK(t)'
  BY <1>1, <1>2, <1>6, <1>8 DEF TaskOK, Keyed, Staged, Added, Active, Status
<1>10. CallOK(c)' /\ call'[c].task \in {t, None}
  BY <1>2, <1>5, <1>8 DEF CallOK, Steps, IdleCall, process
<1> QED
  BY <1>1, <1>2, <1>5, <1>6, <1>7, <1>9, <1>10, OneCallKeeps DEF process

\* The monitor gets the key with the hash, or does not start.
LEMMA ActivateStep ==
  ASSUME PipelineInv, NEW c \in Calls, ActivateReservation(c)
  PROVE  PipelineInv' /\ StatusesMove
<1>1. UNCHANGED <<stage, file, qb, adds, process>> /\ call[c].step = "accepted"
  BY DEF ActivateReservation
<1>2. PICK t \in Tasks, h \in Hashes \cup {None} :
      /\ call[c].task = t /\ call[c].hash = h
      /\ up /\ Status(t) = "initializing" /\ task[t].kind = "download_watch"
      /\ stage[t] = "none" /\ \A d \in Calls \ {c} : call[d].task # t
  BY <1>1, CallFacts DEF Steps
<1>3. CASE /\ Activate(t, "null", h)
           /\ payload' = [payload EXCEPT ![t].hash = h]
           /\ HangUp(c)
  <2>1. StoreInv' /\ StatusesMove
    BY <1>3, ActivateKeeps DEF PipelineInv, RunAfter
  <2>2. payload \in [Tasks -> Payload] /\ task \in [Tasks -> Row]
    BY DEF PipelineInv, Shapes, StoreInv, StoreTypeOK
  <2>3. /\ task'[t].kind = "download_watch" /\ task'[t].dedupe = task[t].dedupe
        /\ h # None => task'[t].exclusive = h
        /\ Status(t)' = "queued"
        /\ \A u \in Tasks \ {t} : task'[u] = task[u]
    BY <1>2, <1>3, <2>2 DEF Activate, Row, Status
  <2>4. payload[t] \in Payload
    BY <2>2
  <2>5. [payload[t] EXCEPT !.hash = h] \in Payload
    BY <2>4 DEF Payload
  <2>6. /\ payload' \in [Tasks -> Payload] /\ payload'[t].hash = h
        /\ \A u \in Tasks \ {t} : payload'[u] = payload[u]
    BY <1>3, <2>2, <2>4, <2>5 DEF Payload
  <2>7. /\ call' \in [Calls -> Request] /\ call'[c] = IdleCall
        /\ \A d \in Calls \ {c} : call'[d] = call[d]
    BY <1>3, HangsUp
  <2>8. Shapes'
    BY <1>1, <2>6, <2>7 DEF PipelineInv, Shapes, qb, process
  <2>9. TaskOK(t)
    BY DEF PipelineInv
  <2>10. TaskOK(t)'
    BY <1>1, <1>2, <2>3, <2>6, <2>9 DEF TaskOK, Keyed, Staged, Added
  <2>11. CallOK(c)' /\ call'[c].task = None
    BY <2>7 DEF CallOK, IdleCall
  <2> QED
    BY <1>1, <1>2, <2>1, <2>3, <2>6, <2>7, <2>8, <2>10, <2>11, OneCallKeeps DEF process
<1>4. CASE Turn(c, "refused", None) /\ UNCHANGED <<storeVars, payload>>
  <2>1. StoreInv' /\ StatusesMove /\ task' = task
    BY <1>4, StoreUnchanged DEF PipelineInv, storeVars
  <2>2. /\ call' \in [Calls -> Request]
        /\ call'[c].step = "refused" /\ call'[c].task = t
        /\ \A d \in Calls \ {c} : call'[d] = call[d]
    BY <1>1, <1>2, <1>4, TurnsTo DEF Steps
  <2>3. Shapes'
    BY <1>1, <1>4, <2>2 DEF PipelineInv, Shapes, qb, process
  <2>4. TaskOK(t)
    BY DEF PipelineInv
  <2>5. TaskOK(t)'
    BY <1>1, <1>4, <2>1, <2>4 DEF TaskOK, Keyed, Staged, Added, Active, Status
  <2>6. CallOK(c)'
    BY <1>1, <1>2, <2>1, <2>2 DEF CallOK, Steps, Status, process
  <2> QED
    BY <1>1, <1>2, <1>4, <2>1, <2>2, <2>3, <2>5, <2>6, OneCallKeeps DEF process
<1> QED
  BY <1>2, <1>3, <1>4 DEF ActivateReservation

\* An ended task's payload says nothing.
LEMMA Forgets ==
  ASSUME PipelineInv, NEW t \in Tasks, Forget(t)
  PROVE  /\ payload' \in [Tasks -> Payload]
         /\ \A u \in Tasks \ {t} : payload'[u] = payload[u]
<1>1. NoPayload \in Payload
  BY DEF NoPayload, NewPayload, Payload
<1> HIDE DEF NoPayload
<1> QED
  BY <1>1 DEF Forget, PipelineInv, Shapes

\* A refused submission fails its own reservation.
LEMMA DropStep ==
  ASSUME PipelineInv, NEW c \in Calls, DropReservation(c)
  PROVE  PipelineInv' /\ StatusesMove
<1>1. UNCHANGED <<stage, file, qb, adds, process>> /\ call[c].step = "refused"
  BY DEF DropReservation
<1>2. PICK t \in Tasks, h \in Hashes \cup {None} :
      /\ call[c].task = t
      /\ up /\ Status(t) = "initializing" /\ task[t].kind = "download_watch"
      /\ stage[t] = "none" /\ \A d \in Calls \ {c} : call[d].task # t
  BY <1>1, CallFacts DEF Steps
<1>3. FailInitialization(t) /\ Forget(t) /\ HangUp(c)
  BY <1>2 DEF DropReservation
<1>4. StoreInv' /\ StatusesMove
  BY <1>2, <1>3, FailInitializationKeeps DEF PipelineInv
<1>5. Status(t)' = "failed" /\ \A u \in Tasks \ {t} : task'[u] = task[u]
  BY <1>3 DEF FailInitialization, Status, PipelineInv, StoreInv, StoreTypeOK, Row
<1>6. /\ call' \in [Calls -> Request] /\ call'[c] = IdleCall
      /\ \A d \in Calls \ {c} : call'[d] = call[d]
  BY <1>3, HangsUp
<1>7. Shapes' /\ \A u \in Tasks \ {t} : payload'[u] = payload[u]
  BY <1>1, <1>3, <1>6, Forgets DEF PipelineInv, Shapes, qb, process
<1>8. TaskOK(t)
  BY DEF PipelineInv
<1>9. TaskOK(t)'
  BY <1>1, <1>2, <1>5, <1>8 DEF TaskOK, Keyed, Staged, Added, Active
<1>10. CallOK(c)' /\ call'[c].task = None
  BY <1>6 DEF CallOK, IdleCall
<1> QED
  BY <1>1, <1>2, <1>4, <1>5, <1>6, <1>7, <1>9, <1>10, OneCallKeeps DEF process

\* A monitor of a known torrent is created with the torrent's key.
LEMMA CreateMonitorStep ==
  ASSUME PipelineInv, NEW t \in Tasks, CreateMonitor(t)
  PROVE  PipelineInv' /\ StatusesMove
<1> PICK k \in MonitorKeys, a \in Actions, h \in Hashes, ra \in {"null", "future"} :
      \E s \in Captures(a, ContentPath[h]) :
        /\ Enqueue(t, "download_watch", ra, None, k, h)
        /\ payload' = [payload EXCEPT ![t] = NewPayload(a, h, ContentPath[h], s)]
  BY DEF CreateMonitor
<1> PICK s \in Captures(a, ContentPath[h]) :
      /\ Insert(t, "queued", "download_watch", ra, None, k, h)
      /\ payload' = [payload EXCEPT ![t] = NewPayload(a, h, ContentPath[h], s)]
  BY DEF Enqueue
<1>1. StoreInv' /\ StatusesMove
  BY InsertKeeps DEF PipelineInv, Kinds, RunAfter
<1>2. UNCHANGED <<stage, call, file, qb, adds, process>> /\ Fresh(t)
  BY DEF CreateMonitor
<1>3. /\ NewPayload(a, h, ContentPath[h], s) \in Payload
      /\ NewPayload(a, h, ContentPath[h], s).hash = h
  BY CapturesType DEF NewPayload, Payload
<1>4. /\ payload'[t] = NewPayload(a, h, ContentPath[h], s)
      /\ \A u \in Tasks \ {t} : payload'[u] = payload[u] /\ task'[u] = task[u]
      /\ task'[t] = NewRow("queued", "download_watch", ra, None, k, h)
  BY DEF Insert, PipelineInv, Shapes, StoreInv, StoreTypeOK
<1>5. Shapes'
  <2>1. payload' \in [Tasks -> Payload]
    BY <1>3 DEF PipelineInv, Shapes
  <2> QED
    BY <1>2, <2>1 DEF PipelineInv, Shapes, qb, process
<1>6. /\ Status(t) = "absent" /\ stage[t] = "none" /\ adds[t] = 0
      /\ Status(t)' = "queued" /\ task'[t].kind = "download_watch"
      /\ task'[t].exclusive = h
  BY <1>2, <1>4 DEF Fresh, PipelineInv, TaskOK, Added, Status, NewRow
<1>7. TaskOK(t)'
  BY <1>2, <1>3, <1>4, <1>6 DEF TaskOK, Keyed, Staged, Added
<1> QED
  BY <1>1, <1>2, <1>4, <1>5, <1>6, <1>7, OneTaskKeeps DEF process

\* An update of a monitor changes neither its torrent nor its key.
LEMMA UpdateMonitorStep ==
  ASSUME PipelineInv, NEW t \in Tasks, UpdateMonitor(t)
  PROVE  PipelineInv' /\ StatusesMove
<1> PICK a \in Actions \cup {None} : \E s \in Captures(a, payload[t].path) :
      payload' = [payload EXCEPT ![t] = Updated(t, a, s)]
  BY DEF UpdateMonitor
<1> PICK s \in Captures(a, payload[t].path) :
      payload' = [payload EXCEPT ![t] = Updated(t, a, s)]
  OBVIOUS
<1>1. /\ UNCHANGED <<stage, call, file, qb, adds, process>>
      /\ task[t].kind = "download_watch" /\ Status(t) \in {"queued", "waiting"}
      /\ UpdateDownloadMonitor(t) \/ UNCHANGED storeVars
  BY DEF UpdateMonitor
<1>2. StoreInv' /\ StatusesMove
  BY <1>1, UpdateDownloadMonitorKeeps, StoreUnchanged DEF PipelineInv
<1>3. payload[t] \in Payload /\ payload \in [Tasks -> Payload] /\ task \in [Tasks -> Row]
  BY DEF PipelineInv, Shapes, StoreInv, StoreTypeOK
<1>4. Updated(t, a, s) \in Payload /\ Updated(t, a, s).hash = payload[t].hash
  <2>1. s \in Policies \cup {None}
    BY CapturesType
  <2> QED
    BY <1>3, <2>1 DEF Updated, Payload
<1>5. /\ payload' \in [Tasks -> Payload] /\ payload'[t].hash = payload[t].hash
      /\ \A u \in Tasks \ {t} : payload'[u] = payload[u]
  BY <1>3, <1>4
<1>6. /\ Status(t)' = Status(t) /\ task'[t].kind = task[t].kind
      /\ task'[t].exclusive = task[t].exclusive
      /\ \A u \in Tasks \ {t} : task'[u] = task[u]
  BY <1>1, <1>3 DEF UpdateDownloadMonitor, Row, Status, storeVars
<1>7. Shapes'
  BY <1>1, <1>5 DEF PipelineInv, Shapes, qb, process
<1>8. TaskOK(t)
  BY DEF PipelineInv
<1>9. TaskOK(t)'
  BY <1>1, <1>5, <1>6, <1>8 DEF TaskOK, Keyed, Staged, Added, Active
<1> QED
  BY <1>1, <1>2, <1>5, <1>6, <1>7, <1>9, OneTaskKeeps DEF process

\* No coroutine has a task that is cancelled.
LEMMA CancelStep ==
  ASSUME PipelineInv, NEW t \in Tasks, Cancel(t)
  PROVE  PipelineInv' /\ StatusesMove
<1>1. UNCHANGED <<stage, call, file, qb, adds, process>> /\ CancelPending(t) /\ Forget(t)
  BY DEF Cancel
<1>2. StoreInv' /\ StatusesMove
  BY <1>1, CancelPendingKeeps DEF PipelineInv
<1>3. /\ Status(t) \in {"queued", "waiting"} /\ Status(t)' = "cancelled"
      /\ \A u \in Tasks \ {t} : task'[u] = task[u]
  BY <1>1 DEF CancelPending, Status, PipelineInv, StoreInv, StoreTypeOK, Row
<1>4. Shapes' /\ \A u \in Tasks \ {t} : payload'[u] = payload[u]
  BY <1>1, Forgets DEF PipelineInv, Shapes, qb, process
<1>5. TaskOK(t)
  BY DEF PipelineInv
<1>6. TaskOK(t)'
  BY <1>1, <1>3, <1>5 DEF TaskOK, Keyed, Staged, Added, Active
<1> QED
  BY <1>1, <1>2, <1>3, <1>4, <1>6, OneTaskKeeps DEF process

-----------------------------------------------------------------------------
(* The worker and the handlers.                                            *)

\* A claim takes queued and waiting rows only: no coroutine has them yet.
LEMMA ClaimStep ==
  ASSUME PipelineInv, Claim
  PROVE  PipelineInv' /\ StatusesMove
<1> PICK S \in SUBSET Tasks :
      /\ ClaimDue(S)
      /\ stage' = [t \in Tasks |-> IF t \in S THEN "claimed" ELSE stage[t]]
  BY DEF Claim
<1>1. UNCHANGED <<payload, call, file, qb, adds, process>>
  BY DEF Claim
<1>2. StoreInv' /\ StatusesMove
  BY ClaimDueKeeps DEF PipelineInv
<1>3. Shapes'
  BY <1>1 DEF PipelineInv, Shapes, Stages, qb, process
<1>4. ASSUME NEW u \in Tasks PROVE TaskOK(u)'
  <2>1. TaskOK(u) /\ task[u] \in Row
    BY DEF PipelineInv, StoreInv, StoreTypeOK
  <2>2. CASE u \in S
    <3>1. /\ Status(u) \in {"queued", "waiting"} /\ Status(u)' = "running"
          /\ task'[u].kind = task[u].kind /\ task'[u].dedupe = task[u].dedupe
          /\ task'[u].exclusive = task[u].exclusive /\ stage'[u] = "claimed"
      BY <2>1, <2>2 DEF ClaimDue, Due, Status, Row
    <3> QED
      BY <1>1, <2>1, <3>1 DEF TaskOK, Keyed, Staged, Added, Active
  <2>3. CASE u \notin S
    <3>1. task'[u] = task[u] /\ stage'[u] = stage[u]
      BY <2>3 DEF ClaimDue
    <3> QED
      BY <1>1, <2>1, <3>1 DEF TaskOK, Keyed, Staged, Added, Active, Status
  <2> QED
    BY <2>2, <2>3
<1>5. \A u \in Tasks : Status(u) = "initializing" =>
        /\ Status(u)' = "initializing" /\ task'[u].kind = task[u].kind
        /\ adds'[u] = adds[u]
  BY <1>1 DEF ClaimDue, Due, Status
<1>6. (\A c \in Calls : CallOK(c)') /\ CallsApart'
  BY <1>1, <1>5, CallsAside DEF process
<1> QED
  BY <1>2, <1>3, <1>4, <1>6 DEF PipelineInv

\* A coroutine's task is RUNNING, and only its own row changes.
LEMMA DecideStep ==
  ASSUME PipelineInv, NEW t \in Tasks, stage[t] # "none", NEW o \in Stages, Decide(t, o),
         o = "spawn" => task[t].kind = "download_watch" /\ payload[t].hash # None,
         o \in {"moving", "moved"} => task[t].kind = "organize_download",
         UNCHANGED <<storeVars, payload, call, file, qb, adds, process>>
  PROVE  PipelineInv' /\ StatusesMove
<1>1. StoreInv' /\ StatusesMove /\ task' = task
  BY StoreUnchanged DEF PipelineInv, storeVars
<1>2. /\ stage' \in [Tasks -> Stages] /\ stage'[t] = o
      /\ \A u \in Tasks \ {t} : stage'[u] = stage[u]
  BY DEF Decide, PipelineInv, Shapes
<1>3. Shapes'
  BY <1>2 DEF PipelineInv, Shapes, qb, process
<1>4. TaskOK(t) /\ Status(t) = "running"
  BY DEF PipelineInv, TaskOK, Staged
<1>5. TaskOK(t)'
  BY <1>1, <1>2, <1>4 DEF TaskOK, Keyed, Staged, Added, Active, Status
<1> QED
  BY <1>1, <1>2, <1>3, <1>4, <1>5, OneTaskKeeps DEF process

\* A resolved hash is bound as the task's key before it is written.
LEMMA ResolveHashStep ==
  ASSUME PipelineInv, NEW t \in Tasks, ResolveHash(t)
  PROVE  PipelineInv' /\ StatusesMove
<1>1. /\ UNCHANGED <<call, file, qb, adds, process>>
      /\ stage[t] = "claimed" /\ task[t].kind = "download_watch"
  BY DEF ResolveHash
<1>2. CASE \E o \in {"again", "fail"} : Decide(t, o) /\ UNCHANGED <<storeVars, payload>>
  BY <1>1, <1>2, DecideStep DEF Stages, OutcomeStages
<1>3. ASSUME NEW h \in Hashes, BindDownloadMonitorIdentity(t, h), Decide(t, "again"),
             payload' = [payload EXCEPT ![t].hash = h, ![t].path = ContentPath[h]]
      PROVE  PipelineInv' /\ StatusesMove
  <2>1. StoreInv' /\ StatusesMove
    BY <1>3, BindKeeps DEF PipelineInv
  <2>2. payload[t] \in Payload /\ payload \in [Tasks -> Payload] /\ task \in [Tasks -> Row]
    BY DEF PipelineInv, Shapes, StoreInv, StoreTypeOK
  <2> DEFINE r == [payload[t] EXCEPT !.hash = h, !.path = ContentPath[h]]
  <2>3. r \in Payload /\ r.hash = h
    BY <2>2 DEF Payload
  <2>4. payload' = [payload EXCEPT ![t] = r]
    <3>1. DOMAIN payload = Tasks
      BY <2>2
    <3>2. DOMAIN payload[t] = {"action", "hash", "path", "snapshot", "attempts"}
      BY <2>2 DEF Payload
    <3> QED
      BY <1>3, <3>1, <3>2
  <2> HIDE DEF r
  <2>5. /\ payload' \in [Tasks -> Payload] /\ payload'[t].hash = h
        /\ \A u \in Tasks \ {t} : payload'[u] = payload[u]
    BY <2>2, <2>3, <2>4
  <2>6. /\ Status(t)' = Status(t) /\ task'[t].kind = task[t].kind
        /\ task'[t].exclusive = h
        /\ \A u \in Tasks \ {t} : task'[u] = task[u]
    BY <1>3, <2>2 DEF BindDownloadMonitorIdentity, Row, Status
  <2>7. /\ stage' \in [Tasks -> Stages] /\ stage'[t] = "again"
        /\ \A u \in Tasks \ {t} : stage'[u] = stage[u]
    BY <1>3 DEF Decide, PipelineInv, Shapes, Stages, OutcomeStages
  <2>8. Shapes'
    BY <1>1, <2>5, <2>7 DEF PipelineInv, Shapes, qb, process
  <2>9. TaskOK(t) /\ Status(t) = "running"
    BY <1>1 DEF PipelineInv, TaskOK, Staged
  <2>10. TaskOK(t)'
    BY <1>1, <2>5, <2>6, <2>7, <2>9 DEF TaskOK, Keyed, Staged, Added, Active
  <2> QED
    BY <1>1, <2>1, <2>5, <2>6, <2>7, <2>8, <2>9, <2>10, OneTaskKeeps DEF process
<1>4. \/ \E o \in {"again", "fail"} : Decide(t, o) /\ UNCHANGED <<storeVars, payload>>
      \/ \E h \in Hashes :
           /\ BindDownloadMonitorIdentity(t, h) /\ Decide(t, "again")
           /\ payload' = [payload EXCEPT ![t].hash = h, ![t].path = ContentPath[h]]
  BY DEF ResolveHash
<1> QED
  BY <1>2, <1>3, <1>4

\* A completed torrent leads to an organize task of a monitor that knows it.
LEMMA PollTorrentStep ==
  ASSUME PipelineInv, NEW t \in Tasks, PollTorrent(t)
  PROVE  PipelineInv' /\ StatusesMove
<1>1. /\ UNCHANGED <<storeVars, payload, call, file, qb, adds, process>>
      /\ stage[t] = "claimed" /\ task[t].kind = "download_watch" /\ payload[t].hash # None
  BY DEF PollTorrent
<1>2. \E o \in OutcomeStages : Decide(t, o)
  BY DEF PollTorrent, FollowUps, OutcomeStages
<1> QED
  BY <1>1, <1>2, DecideStep DEF Stages, OutcomeStages

\* The child has the dedupe key and the path of its torrent, and a new id.
LEMMA SpawnOrganizeStep ==
  ASSUME PipelineInv, NEW t \in Tasks, SpawnOrganize(t)
  PROVE  PipelineInv' /\ StatusesMove
<1>1. UNCHANGED <<call, file, qb, adds, process>> /\ stage[t] = "spawn" /\ Decide(t, "succeed")
  BY DEF SpawnOrganize
<1>2. CASE UNCHANGED <<storeVars, payload>>
  BY <1>1, <1>2, DecideStep DEF Stages, OutcomeStages
<1>3. ASSUME NEW c \in Tasks, NEW h, h = payload[t].hash, Fresh(c),
             Enqueue(c, "organize_download", "null", t, h, None),
             payload' = [payload EXCEPT ![c] =
               NewPayload(None, h, ContentPath[h], payload[t].snapshot)]
      PROVE  PipelineInv' /\ StatusesMove
  <2>1. payload[t] \in Payload /\ payload \in [Tasks -> Payload] /\ task \in [Tasks -> Row]
    BY DEF PipelineInv, Shapes, StoreInv, StoreTypeOK
  <2>2. TaskOK(t) /\ TaskOK(c) /\ Status(t) = "running"
    BY <1>1 DEF PipelineInv, TaskOK, Staged
  <2>3. h \in Hashes
    BY <1>1, <1>3, <2>1, <2>2 DEF TaskOK, Staged, Payload
  <2>4. /\ NewPayload(None, h, ContentPath[h], payload[t].snapshot) \in Payload
        /\ NewPayload(None, h, ContentPath[h], payload[t].snapshot).hash = h
        /\ NewPayload(None, h, ContentPath[h], payload[t].snapshot).path = ContentPath[h]
    BY <2>1, <2>3 DEF NewPayload, Payload
  <2>5. /\ payload' \in [Tasks -> Payload]
        /\ payload'[c].hash = h /\ payload'[c].path = ContentPath[h]
        /\ \A u \in Tasks \ {c} : payload'[u] = payload[u]
    BY <1>3, <2>1, <2>4
  <2>6. StoreInv' /\ StatusesMove
    BY <1>3, <2>3, InsertKeeps DEF PipelineInv, Kinds, RunAfter, Enqueue
  <2>7. /\ Status(c) = "absent" /\ Status(c)' = "queued" /\ stage[c] = "none"
        /\ task'[c].kind = "organize_download" /\ task'[c].dedupe = h
        /\ \A u \in Tasks \ {c} : task'[u] = task[u]
    BY <1>3, <2>1 DEF Fresh, Enqueue, Insert, NewRow, Status
  <2>8. /\ c # t /\ stage' \in [Tasks -> Stages] /\ stage'[t] = "succeed"
        /\ \A u \in Tasks \ {t} : stage'[u] = stage[u]
    BY <1>1, <2>2, <2>7 DEF Decide, PipelineInv, Shapes, Stages, OutcomeStages
  <2>9. Shapes'
    BY <1>1, <2>5, <2>8 DEF PipelineInv, Shapes, qb, process
  <2>10. TaskOK(c)'
    BY <1>1, <2>2, <2>3, <2>5, <2>7, <2>8 DEF TaskOK, Keyed, Staged, Added
  <2>11. TaskOK(t)'
    BY <1>1, <2>2, <2>5, <2>7, <2>8 DEF TaskOK, Keyed, Staged, Added, Active, Status
  <2>12. ASSUME NEW u \in Tasks \ {t, c} PROVE TaskOK(u)'
    <3>1. TaskAside(u)
      BY <1>1, <2>5, <2>7, <2>8 DEF TaskAside, Status
    <3> QED
      BY <3>1, TaskAsideKeeps
  <2>13. \A u \in Tasks : Status(u) = "initializing" =>
          /\ Status(u)' = "initializing" /\ task'[u].kind = task[u].kind
          /\ adds'[u] = adds[u]
    BY <1>1, <2>7 DEF Status
  <2>14. (\A d \in Calls : CallOK(d)') /\ CallsApart'
    BY <1>1, <2>13, CallsAside DEF process
  <2> QED
    BY <2>6, <2>9, <2>10, <2>11, <2>12, <2>14 DEF PipelineInv
<1> QED
  BY <1>2, <1>3 DEF SpawnOrganize

\* Only an organize task moves files.
LEMMA OrganizeStep ==
  ASSUME PipelineInv, NEW t \in Tasks, Organize(t) \/ MoveFiles(t) \/ OrganizeReturns(t)
  PROVE  PipelineInv' /\ StatusesMove
<1>1. /\ UNCHANGED <<storeVars, payload, call, file, qb, adds, process>>
      /\ stage[t] \in {"claimed", "moving", "moved"} /\ task[t].kind = "organize_download"
      /\ \E o \in {"moving", "moved", "fail", "succeed", "retry"} : Decide(t, o)
  BY DEF Organize, MoveFiles, OrganizeReturns, Decided, PipelineInv, TaskOK, Staged
<1> QED
  BY <1>1, DecideStep DEF Stages, OutcomeStages

\* A rescheduled task keeps its torrent and its keys.
LEMMA StoreRescheduleStep ==
  ASSUME PipelineInv, NEW t \in Tasks, StoreReschedule(t)
  PROVE  PipelineInv' /\ StatusesMove
<1>1. /\ UNCHANGED <<call, file, qb, adds, process>> /\ stage[t] # "none"
      /\ Decide(t, "none")
  BY DEF StoreReschedule
<1>2. payload[t] \in Payload /\ payload \in [Tasks -> Payload]
      /\ task \in [Tasks -> Row] /\ task[t] \in Row /\ task[t].failures \in Nat
  BY DEF PipelineInv, Shapes, StoreInv, StoreTypeOK, Row
<1>3. \E f \in Nat : Reschedule(t, f)
  BY <1>2 DEF StoreReschedule
<1>4. StoreInv' /\ StatusesMove
  BY <1>3, RescheduleKeeps DEF PipelineInv
<1>5. /\ payload' \in [Tasks -> Payload] /\ payload'[t].hash = payload[t].hash
      /\ payload'[t].path = payload[t].path
      /\ \A u \in Tasks \ {t} : payload'[u] = payload[u]
  <2> DEFINE r(n) == [payload[t] EXCEPT !.attempts = n]
  <2>1. \A n \in Nat : r(n) \in Payload /\ r(n).hash = payload[t].hash /\ r(n).path = payload[t].path
    BY <1>2 DEF Payload
  <2>2. payload[t].attempts \in Nat
    BY <1>2 DEF Payload
  <2>3. payload' = payload \/ \E n \in Nat : payload' = [payload EXCEPT ![t] = r(n)]
    BY <2>2 DEF StoreReschedule
  <2> HIDE DEF r
  <2> QED
    BY <1>2, <2>1, <2>3
<1>6. /\ Status(t)' = "waiting" /\ task'[t].kind = task[t].kind
      /\ task'[t].dedupe = task[t].dedupe /\ task'[t].exclusive = task[t].exclusive
      /\ \A u \in Tasks \ {t} : task'[u] = task[u]
  BY <1>2, <1>3 DEF Reschedule, Status, Row
<1>7. /\ stage' \in [Tasks -> Stages] /\ stage'[t] = "none"
      /\ \A u \in Tasks \ {t} : stage'[u] = stage[u]
  BY <1>1 DEF Decide, PipelineInv, Shapes, Stages
<1>8. Shapes'
  BY <1>1, <1>5, <1>7 DEF PipelineInv, Shapes, qb, process
<1>9. TaskOK(t) /\ Status(t) = "running"
  BY <1>1 DEF PipelineInv, TaskOK, Staged
<1>10. TaskOK(t)'
  BY <1>1, <1>5, <1>6, <1>7, <1>9 DEF TaskOK, Keyed, Staged, Added, Active
<1> QED
  BY <1>1, <1>4, <1>5, <1>6, <1>7, <1>8, <1>9, <1>10, OneTaskKeeps DEF process

\* A finished task is terminal, and no coroutine has it.
LEMMA StoreFinishStep ==
  ASSUME PipelineInv, NEW t \in Tasks, StoreFinish(t)
  PROVE  PipelineInv' /\ StatusesMove
<1>1. /\ UNCHANGED <<call, file, qb, adds, process>> /\ stage[t] # "none"
      /\ Decide(t, "none") /\ Forget(t)
  BY DEF StoreFinish
<1>2. task \in [Tasks -> Row] /\ task[t].failures \in Nat
  BY DEF PipelineInv, StoreInv, StoreTypeOK, Row
<1>3. PICK st \in {"succeeded", "failed"}, f \in Nat : Finish(t, st, f, FALSE)
  <2>1. task[t].failures + 1 \in Nat
    BY <1>2
  <2>2. \/ Finish(t, "succeeded", task[t].failures, FALSE)
        \/ Finish(t, "failed", task[t].failures + 1, FALSE)
    BY DEF StoreFinish
  <2> QED
    BY <1>2, <2>1, <2>2
<1>4. TaskOK(t) /\ Status(t) = "running"
  BY <1>1 DEF PipelineInv, TaskOK, Staged
<1>5. StoreInv' /\ StatusesMove
  BY <1>3, <1>4, FinishKeeps DEF PipelineInv
<1>6. Status(t)' = st /\ \A u \in Tasks \ {t} : task'[u] = task[u]
  BY <1>2, <1>3 DEF Finish, Status, Row
<1>7. /\ stage' \in [Tasks -> Stages] /\ stage'[t] = "none"
      /\ \A u \in Tasks \ {t} : stage'[u] = stage[u]
  BY <1>1 DEF Decide, PipelineInv, Shapes, Stages
<1>8. Shapes' /\ \A u \in Tasks \ {t} : payload'[u] = payload[u]
  BY <1>1, <1>7, Forgets DEF PipelineInv, Shapes, qb, process
<1>9. TaskOK(t)'
  BY <1>1, <1>4, <1>6, <1>7 DEF TaskOK, Keyed, Staged, Added, Active
<1> QED
  BY <1>1, <1>4, <1>5, <1>6, <1>7, <1>8, <1>9, OneTaskKeeps DEF process

\* A purged id has no submission any more; its row was terminal.
LEMMA PurgeStep ==
  ASSUME PipelineInv, Purge
  PROVE  PipelineInv' /\ StatusesMove
<1>1. /\ UNCHANGED <<payload, stage, call, file, qb, process>> /\ PurgeTerminalTasks
      /\ adds' = [t \in Tasks |-> IF t \in Purgeable THEN 0 ELSE adds[t]]
  BY DEF Purge
<1>2. StoreInv' /\ StatusesMove
  BY <1>1, PurgeKeeps DEF PipelineInv
<1>3. Shapes'
  BY <1>1 DEF PipelineInv, Shapes, qb, process
<1>4. ASSUME NEW u \in Tasks
      PROVE  /\ u \in Purgeable => /\ Terminal(u) /\ Status(u)' = "absent" /\ adds'[u] = 0
             /\ u \notin Purgeable => task'[u] = task[u] /\ adds'[u] = adds[u]
  BY <1>1 DEF PurgeTerminalTasks, Purgeable, Status, NoRow, NewRow
<1>5. ASSUME NEW u \in Tasks PROVE TaskOK(u)'
  <2>1. TaskOK(u)
    BY DEF PipelineInv
  <2>2. CASE u \in Purgeable
    BY <1>1, <1>4, <2>1, <2>2 DEF TaskOK, Keyed, Staged, Added, Active, Terminal
  <2>3. CASE u \notin Purgeable
    BY <1>1, <1>4, <2>1, <2>3 DEF TaskOK, Keyed, Staged, Added, Active, Status
  <2> QED
    BY <2>2, <2>3
<1>6. \A u \in Tasks : Status(u) = "initializing" =>
        /\ Status(u)' = "initializing" /\ task'[u].kind = task[u].kind
        /\ adds'[u] = adds[u]
  BY <1>4 DEF Terminal, Status
<1>7. (\A c \in Calls : CallOK(c)') /\ CallsApart'
  BY <1>1, <1>6, CallsAside DEF process
<1> QED
  BY <1>2, <1>3, <1>5, <1>7 DEF PipelineInv

-----------------------------------------------------------------------------
(* Crash and restart, qBittorrent, the settings file and the clock.        *)

\* A crash ends every coroutine and every call, and the rows stay.
LEMMA CrashStep ==
  ASSUME PipelineInv, Crash
  PROVE  PipelineInv' /\ StatusesMove
<1>1. /\ UNCHANGED <<storeVars, payload, file, qb, adds>>
      /\ up' = FALSE /\ crashes' = crashes + 1
      /\ stage' = [t \in Tasks |-> "none"]
      /\ call' = [c \in Calls |-> IdleCall]
  BY DEF Crash
<1>2. StoreInv' /\ StatusesMove /\ task' = task
  BY <1>1, StoreUnchanged DEF PipelineInv, storeVars
<1>3. IdleCall \in Request
  BY RequestType DEF IdleCall
<1> HIDE DEF IdleCall
<1>4. Shapes'
  <2>1. crashes \in Nat
    BY DEF PipelineInv, Shapes
  <2>2. crashes' \in Nat
    BY <1>1, <2>1
  <2>3. up' \in BOOLEAN
    BY <1>1
  <2>4. stage' \in [Tasks -> Stages] /\ call' \in [Calls -> Request]
    BY <1>1, <1>3 DEF Stages
  <2> QED
    BY <1>1, <2>2, <2>3, <2>4 DEF PipelineInv, Shapes, qb
<1>5. ASSUME NEW u \in Tasks PROVE TaskOK(u)'
  BY <1>1, <1>2 DEF PipelineInv, TaskOK, Keyed, Staged, Added, Active, Status
<1>6. (\A c \in Calls : CallOK(c)') /\ CallsApart'
  BY <1>1 DEF CallOK, CallsApart, IdleCall
<1> QED
  BY <1>2, <1>4, <1>5, <1>6 DEF PipelineInv

\* Nothing is executing yet when the stale reservations are failed.
LEMMA RestartStep ==
  ASSUME PipelineInv, Restart
  PROVE  PipelineInv' /\ StatusesMove
<1>1. UNCHANGED <<stage, call, file, qb, adds, crashes>> /\ ~up /\ up' \in BOOLEAN
  BY DEF Restart, PipelineInv, Shapes
<1>2. \A c \in Calls : call[c] = IdleCall
  BY <1>1 DEF PipelineInv, CallOK
<1>3. (\A c \in Calls : CallOK(c)') /\ CallsApart'
  BY <1>1, <1>2 DEF CallOK, CallsApart, IdleCall
<1>4. CASE UNCHANGED <<storeVars, payload>>
  <2>1. StoreInv' /\ StatusesMove /\ task' = task
    BY <1>4, StoreUnchanged DEF PipelineInv, storeVars
  <2>2. Shapes'
    BY <1>1, <1>4 DEF PipelineInv, Shapes, qb
  <2>3. ASSUME NEW u \in Tasks PROVE TaskOK(u)'
    BY <1>1, <1>4, <2>1 DEF PipelineInv, TaskOK, Keyed, Staged, Added, Active, Status
  <2> QED
    BY <1>3, <2>1, <2>2, <2>3 DEF PipelineInv
<1>5. ASSUME NEW t \in Tasks, Status(t) = "initializing", FailInitialization(t), Forget(t)
      PROVE  PipelineInv' /\ StatusesMove
  <2>1. StoreInv' /\ StatusesMove
    BY <1>5, FailInitializationKeeps DEF PipelineInv
  <2>2. Status(t)' = "failed" /\ \A u \in Tasks \ {t} : task'[u] = task[u]
    BY <1>5 DEF FailInitialization, Status, PipelineInv, StoreInv, StoreTypeOK, Row
  <2>3. Shapes' /\ \A u \in Tasks \ {t} : payload'[u] = payload[u]
    BY <1>1, <1>5, Forgets DEF PipelineInv, Shapes, qb
  <2>4. TaskOK(t)
    BY DEF PipelineInv
  <2>5. TaskOK(t)'
    BY <1>1, <1>5, <2>2, <2>4 DEF TaskOK, Keyed, Staged, Added, Active
  <2>6. ASSUME NEW u \in Tasks \ {t} PROVE TaskOK(u)'
    <3>1. TaskAside(u)
      BY <1>1, <2>2, <2>3 DEF TaskAside, Status
    <3> QED
      BY <3>1, TaskAsideKeeps
  <2> QED
    BY <1>3, <2>1, <2>3, <2>5, <2>6 DEF PipelineInv
<1> QED
  BY <1>4, <1>5 DEF Restart, StaleInitializing

\* What happens to torrents, or to the settings file, leaves the tasks alone.
LEMMA OutsideStep ==
  ASSUME PipelineInv, SavePolicy \/ \E h \in Hashes : TorrentChanges(h)
  PROVE  PipelineInv' /\ StatusesMove
<1>1. UNCHANGED <<storeVars, payload, stage, call, adds, process>>
  BY DEF SavePolicy, TorrentChanges
<1>2. StoreInv' /\ StatusesMove /\ task' = task
  BY <1>1, StoreUnchanged DEF PipelineInv, storeVars
<1>3. file' \in Policies \cup {None}
  BY DEF SavePolicy, TorrentChanges, PipelineInv, Shapes
<1>4. /\ torrent' \in [Hashes -> {"absent", "downloading", "complete"}]
      /\ tagged' \in [Hashes -> SUBSET Tasks]
  BY QbType DEF SavePolicy, TorrentChanges, qb, PipelineInv, Shapes
<1>5. Shapes'
  BY <1>1, <1>3, <1>4 DEF PipelineInv, Shapes, process
<1>6. ASSUME NEW u \in Tasks PROVE TaskOK(u)'
  BY <1>1, <1>2 DEF PipelineInv, TaskOK, Keyed, Staged, Added, Active, Status
<1>7. (\A c \in Calls : CallOK(c)') /\ CallsApart'
  BY <1>1, <1>2, CallsAside DEF Status, process
<1> QED
  BY <1>2, <1>5, <1>6, <1>7 DEF PipelineInv

\* Time changes no status and no key.
LEMMA ClockStep ==
  ASSUME PipelineInv, NEW t \in Tasks, Clock(t)
  PROVE  PipelineInv' /\ StatusesMove
<1>1. /\ UNCHANGED <<payload, stage, call, file, qb, adds, process>>
      /\ BecomeDue(t) \/ GrowOld(t)
  BY DEF Clock
<1>2. StoreInv' /\ StatusesMove
  BY <1>1, BecomeDueKeeps, GrowOldKeeps DEF PipelineInv
<1>3. /\ Status(t)' = Status(t) /\ task'[t].kind = task[t].kind
      /\ task'[t].dedupe = task[t].dedupe /\ task'[t].exclusive = task[t].exclusive
      /\ \A u \in Tasks \ {t} : task'[u] = task[u]
  BY <1>1 DEF BecomeDue, GrowOld, Status, PipelineInv, StoreInv, StoreTypeOK, Row
<1>4. Shapes'
  BY <1>1 DEF PipelineInv, Shapes, qb, process
<1>5. TaskOK(t)
  BY DEF PipelineInv
<1>6. TaskOK(t)'
  BY <1>1, <1>3, <1>5 DEF TaskOK, Keyed, Staged, Added, Active
<1> QED
  BY <1>1, <1>2, <1>3, <1>4, <1>6, OneTaskKeeps DEF process

-----------------------------------------------------------------------------
(* The theorems.                                                           *)

\* Every step preserves the invariant and moves statuses legally.
LEMMA PipelineStep ==
  ASSUME PipelineInv, [Next]_vars
  PROVE  PipelineInv' /\ StatusesMove
<1>1. CASE UNCHANGED vars
  <2>1. UNCHANGED <<storeVars, payload, stage, call, file, qb, adds, process>>
    BY <1>1 DEF vars
  <2>2. StoreInv' /\ StatusesMove /\ task' = task
    BY <2>1, StoreUnchanged DEF PipelineInv, storeVars
  <2>3. Shapes'
    BY <2>1 DEF PipelineInv, Shapes, qb, process
  <2>4. ASSUME NEW u \in Tasks PROVE TaskOK(u)'
    BY <2>1, <2>2 DEF PipelineInv, TaskOK, Keyed, Staged, Added, Active, Status
  <2>5. (\A c \in Calls : CallOK(c)') /\ CallsApart'
    BY <2>1, <2>2, CallsAside DEF Status, process
  <2> QED
    BY <2>2, <2>3, <2>4, <2>5 DEF PipelineInv
<1>2. CASE Claim \/ Purge \/ Crash \/ Restart
  BY <1>2, ClaimStep, PurgeStep, CrashStep, RestartStep
<1>3. CASE SavePolicy \/ \E h \in Hashes : TorrentChanges(h)
  BY <1>3, OutsideStep
<1>4. CASE \E c \in Calls : ToolCall(c)
  BY <1>4, SubmitStep, SubmitToQbStep, ActivateStep, DropStep DEF ToolCall
<1>5. ASSUME NEW t \in Tasks, Handler(t)
      PROVE  PipelineInv' /\ StatusesMove
  BY <1>5, ResolveHashStep, PollTorrentStep, SpawnOrganizeStep, OrganizeStep,
     StoreRescheduleStep, StoreFinishStep DEF Handler
<1>6. ASSUME NEW t \in Tasks, CreateMonitor(t) \/ UpdateMonitor(t) \/ Cancel(t) \/ Clock(t)
      PROVE  PipelineInv' /\ StatusesMove
  BY <1>6, CreateMonitorStep, UpdateMonitorStep, CancelStep, ClockStep
<1> QED
  BY <1>1, <1>2, <1>3, <1>4, <1>5, <1>6 DEF Next

\* The process starts on an empty table.
LEMMA PipelineStarts == Init => PipelineInv
<1> SUFFICES ASSUME Init PROVE PipelineInv
  OBVIOUS
<1>1. StoreInv
  BY InitKeeps DEF Init
<1>2. NoPayload \in Payload /\ IdleCall \in Request
  BY RequestType DEF NoPayload, NewPayload, Payload, IdleCall
<1>3. \A t \in Tasks : Status(t) = "absent"
  BY DEF Init, StoreInit, NoRow, NewRow, Status
<1>4. \A t \in Tasks : TaskOK(t)
  BY <1>3 DEF Init, TaskOK, Keyed, Staged, Added, Active
<1>5. (\A c \in Calls : CallOK(c)) /\ CallsApart
  BY DEF Init, CallOK, CallsApart, IdleCall
<1> HIDE DEF NoPayload, IdleCall
<1>6. Shapes
  <2>1. up \in BOOLEAN /\ file \in Policies \cup {None}
    BY DEF Init
  <2> QED
    BY <1>2, <2>1 DEF Init, Shapes, Stages
<1> QED
  BY <1>1, <1>4, <1>5, <1>6 DEF PipelineInv

\* The invariant holds however submissions, handlers, crashes and changes of
\* the settings follow one another.
THEOREM PipelineInvariant == Spec => []PipelineInv
<1>1. PipelineInv /\ [Next]_vars => PipelineInv'
  BY PipelineStep
<1> QED
  BY <1>1, PipelineStarts, PTL DEF Spec

\* A torrent never has two monitors, and a monitor that knows its torrent
\* holds the torrent's exclusive key: create_download_watch, the activation of
\* a reservation and the late resolution of a hash all bind the key first.
THEOREM OneMonitor == Spec => []OneMonitorPerTorrent
<1>1. PipelineInv => OneMonitorPerTorrent
  <2> SUFFICES ASSUME PipelineInv, NEW h \in Hashes, NEW t \in Tasks, NEW u \in Tasks,
                      Watching(t, h)
               PROVE  task[t].exclusive = h /\ (Watching(u, h) => t = u)
    BY DEF OneMonitorPerTorrent
  <2>1. h # None
    OBVIOUS
  <2>2. \A v \in Tasks : Watching(v, h) => Active(v) /\ task[v].exclusive = h
    BY <2>1 DEF PipelineInv, TaskOK, Keyed, Watching
  <2> QED
    BY <2>1, <2>2 DEF PipelineInv, StoreInv, KeysUnique
<1> QED
  BY <1>1, PipelineInvariant, PTL

\* An approved submission reaches qBittorrent once: the reservation's nonce
\* stops a repeated execution, and its own call submits before it activates.
THEOREM OneSubmission == Spec => []SubmittedOnce
<1>1. PipelineInv => SubmittedOnce
  BY DEF PipelineInv, TaskOK, Added, StoreInv, KeysUnique, SubmittedOnce
<1> QED
  BY <1>1, PipelineInvariant, PTL

\* One thread at most moves the files of a torrent: an organize task has its
\* torrent's dedupe key, and no two rows share one.
THEOREM OneOrganizer == Spec => []OneOrganizerPerTorrent
<1>1. PipelineInv => OneOrganizerPerTorrent
  <2> SUFFICES ASSUME PipelineInv, NEW t \in Tasks, NEW u \in Tasks, stage[t] \in {"moving", "moved"},
                      stage[u] \in {"moving", "moved"}, payload[t].hash = payload[u].hash
               PROVE  t = u
    BY DEF OneOrganizerPerTorrent
  <2>1. \A v \in Tasks : stage[v] \in {"moving", "moved"} =>
          payload[v].hash \in Hashes /\ task[v].dedupe = payload[v].hash
    BY DEF PipelineInv, TaskOK, Staged, Keyed, Active
  <2> QED
    BY <2>1 DEF PipelineInv, StoreInv, KeysUnique
<1> QED
  BY <1>1, PipelineInvariant, PTL

-----------------------------------------------------------------------------
(* What files are moved under.                                             *)

\* A monitor's snapshot was granted to it, an organize task's to the monitor
\* it is the child of; a thread that moves files was allowed to by a whole
\* settings file of its own run.
Backed(t) ==
  /\ Active(t) /\ task[t].kind = "download_watch" =>
       payload[t].snapshot \in granted[t] \cup {None}
  /\ Active(t) /\ task[t].kind = "organize_download" =>
       /\ task[t].parent \in Tasks
       /\ payload[t].snapshot \in granted[task[t].parent] \cup {None}
  /\ stage[t] \in {"moving", "moved"} =>
       /\ payload[t].snapshot # None
       /\ \E p \in inForce[t] : Allows(p, payload[t].snapshot, payload[t].path)
  /\ Organizing(t) => Whole(file) \subseteq inForce[t]

Histories ==
  /\ granted \in [Tasks -> SUBSET Policies]
  /\ inForce \in [Tasks -> SUBSET Policies]

AuthorizedInv == PipelineInv /\ Histories /\ \A t \in Tasks : Backed(t)

\* A row that stays what it was, or is no longer active.
RowStays(u) ==
  Active(u)' => /\ Active(u)
                /\ task'[u].kind = task[u].kind /\ task'[u].parent = task[u].parent

\* The operators of the store that create and delete no row.
LEMMA RowsStay ==
  ASSUME StoreInv, NEW t \in Tasks,
         \/ UNCHANGED storeVars
         \/ \E ra, x : Activate(t, ra, x)
         \/ FailInitialization(t)
         \/ \E S \in SUBSET Tasks : ClaimDue(S)
         \/ \E f : Reschedule(t, f)
         \/ \E st \in {"succeeded", "failed"}, f \in Nat : Finish(t, st, f, FALSE)
         \/ \E x : BindDownloadMonitorIdentity(t, x)
         \/ CancelPending(t) \/ UpdateDownloadMonitor(t) \/ BecomeDue(t) \/ GrowOld(t)
  PROVE  \A u \in Tasks : RowStays(u)
<1> SUFFICES ASSUME NEW u \in Tasks PROVE RowStays(u)
  OBVIOUS
<1>1. task \in [Tasks -> Row] /\ task[u] \in Row /\ task[t] \in Row
  BY DEF StoreInv, StoreTypeOK
<1>2. CASE UNCHANGED storeVars
  BY <1>2 DEF RowStays, Active, Status, storeVars
<1>3. ASSUME NEW ra, NEW x, Activate(t, ra, x) PROVE RowStays(u)
  BY <1>1, <1>3 DEF Activate, CanTransition, LEGAL_TRANSITIONS, RowStays, Active, Status, Row
<1>4. CASE FailInitialization(t)
  BY <1>1, <1>4 DEF FailInitialization, RowStays, Active, Status, Row
<1>5. ASSUME NEW S \in SUBSET Tasks, ClaimDue(S) PROVE RowStays(u)
  BY <1>1, <1>5 DEF ClaimDue, Due, RowStays, Active, Status, Row
<1>6. ASSUME NEW f, Reschedule(t, f) PROVE RowStays(u)
  BY <1>1, <1>6 DEF Reschedule, CanTransition, LEGAL_TRANSITIONS, RowStays, Active, Status, Row
<1>7. ASSUME NEW st \in {"succeeded", "failed"}, NEW f \in Nat, Finish(t, st, f, FALSE)
      PROVE  RowStays(u)
  BY <1>1, <1>7 DEF Finish, RowStays, Active, Status, Row
<1>8. ASSUME NEW x, BindDownloadMonitorIdentity(t, x) PROVE RowStays(u)
  BY <1>1, <1>8 DEF BindDownloadMonitorIdentity, RowStays, Active, Status, Row
<1>9. CASE CancelPending(t)
  BY <1>1, <1>9 DEF CancelPending, RowStays, Active, Status, Row
<1>10. CASE UpdateDownloadMonitor(t)
  BY <1>1, <1>10 DEF UpdateDownloadMonitor, RowStays, Active, Status, Row
<1>11. CASE BecomeDue(t) \/ GrowOld(t)
  BY <1>1, <1>11 DEF BecomeDue, GrowOld, RowStays, Active, Status, Row
<1> QED
  BY <1>2, <1>3, <1>4, <1>5, <1>6, <1>7, <1>8, <1>9, <1>10, <1>11

\* What a grant or a look at the settings only adds to.
LEMMA BackedStays ==
  ASSUME NEW u \in Tasks, Backed(u), RowStays(u), Histories, PipelineInv', file' = file,
         \A v \in Tasks : granted[v] \subseteq granted'[v],
         Active(u)' => payload'[u].snapshot = payload[u].snapshot,
         stage'[u] \in {"moving", "moved"} =>
           /\ stage[u] \in {"moving", "moved"} /\ inForce[u] \subseteq inForce'[u]
           /\ payload'[u] = payload[u],
         stage'[u] = "claimed" => stage[u] = "claimed" /\ inForce[u] \subseteq inForce'[u]
  PROVE  Backed(u)'
<1>1. Active(u)' /\ task'[u].kind = "download_watch" =>
        payload'[u].snapshot \in granted'[u] \cup {None}
  BY DEF Backed, RowStays
<1>2. Active(u)' /\ task'[u].kind = "organize_download" =>
        /\ task'[u].parent \in Tasks
        /\ payload'[u].snapshot \in granted'[task'[u].parent] \cup {None}
  BY DEF Backed, RowStays
<1>3. stage'[u] \in {"moving", "moved"} =>
        /\ payload'[u].snapshot # None
        /\ \E p \in inForce'[u] : Allows(p, payload'[u].snapshot, payload'[u].path)
  BY DEF Backed
<1>4. \A p : Allows(p, payload'[u].snapshot, payload'[u].path)
               <=> Allows(p, payload[u].snapshot, payload[u].path)'
  BY DEF Allows
<1>5. Organizing(u)' => Whole(file') \subseteq inForce'[u]
  <2>1. Organizing(u)' => Active(u)'
    BY DEF Organizing, PipelineInv, TaskOK, Staged, Active
  <2> QED
    BY <2>1 DEF Backed, Organizing, RowStays
<1> QED
  BY <1>1, <1>2, <1>3, <1>5 DEF Backed, Allows

\* A step that creates no row, for all tasks at once.
LEMMA QuietStep ==
  ASSUME AuthorizedInv, PipelineInv', Histories', file' = file,
         \A u \in Tasks :
           /\ RowStays(u) /\ granted[u] \subseteq granted'[u]
           /\ Active(u)' => payload'[u].snapshot = payload[u].snapshot
           /\ stage'[u] \in {"moving", "moved"} =>
                /\ stage[u] \in {"moving", "moved"} /\ inForce[u] \subseteq inForce'[u]
                /\ payload'[u] = payload[u]
           /\ stage'[u] = "claimed" =>
                stage[u] = "claimed" /\ inForce[u] \subseteq inForce'[u]
  PROVE  AuthorizedInv'
BY BackedStays DEF AuthorizedInv

\* What a decision about t says of every task.
LEMMA DecideFacts ==
  ASSUME PipelineInv, NEW t \in Tasks, NEW o, Decide(t, o)
  PROVE  stage'[t] = o /\ \A u \in Tasks \ {t} : stage'[u] = stage[u]
BY DEF PipelineInv, Shapes, Decide

\* What a call has reserved, no coroutine has.
LEMMA ReservedTask ==
  ASSUME AuthorizedInv, NEW c \in Calls, call[c].step \in Steps
  PROVE  \E t \in Tasks, h \in Hashes \cup {None} :
           call[c].task = t /\ call[c].hash = h /\ stage[t] = "none"
<1>1. PipelineInv
  BY DEF AuthorizedInv
<1>2. PICK t \in Tasks, h \in Hashes \cup {None} :
        /\ call[c] = [step |-> call[c].step, task |-> t, hash |-> h]
        /\ call[c].task = t /\ call[c].hash = h
        /\ up /\ Status(t) = "initializing" /\ task[t].kind = "download_watch"
        /\ stage[t] = "none"
        /\ call[c].step = "reserved" => adds[t] = 0
        /\ \A d \in Calls \ {c} : call[d].task # t
  BY <1>1, CallFacts
<1> QED
  BY <1>2

\* Tool calls of a reservation after it is made, and the end of one.
LEMMA CallsAuthorized ==
  ASSUME AuthorizedInv, PipelineInv', NEW c \in Calls,
         SubmitToQb(c) \/ ActivateReservation(c) \/ DropReservation(c)
  PROVE  AuthorizedInv'
<1>1. PipelineInv /\ StoreInv /\ Histories /\ payload \in [Tasks -> Payload]
  BY DEF AuthorizedInv, PipelineInv, Shapes
<1>2. UNCHANGED <<stage, file, granted, inForce>> /\ Histories'
  BY <1>1 DEF SubmitToQb, ActivateReservation, DropReservation, Histories
<1>3. CASE UNCHANGED <<storeVars, payload>>
  <2>1. \A u \in Tasks : RowStays(u)
    BY <1>3 DEF RowStays, Active, Status, storeVars
  <2> QED
    BY <1>2, <1>3, <2>1, QuietStep
<1>4. CASE ActivateReservation(c) /\ ~UNCHANGED <<storeVars, payload>>
  <2>0. call[c].step \in Steps
    BY <1>4 DEF ActivateReservation, Steps
  <2> PICK t \in Tasks, h \in Hashes \cup {None} :
        call[c].task = t /\ call[c].hash = h /\ stage[t] = "none"
    BY <2>0, ReservedTask
  <2>1. Activate(t, "null", h) /\ payload' = [payload EXCEPT ![t].hash = h]
    BY <1>4 DEF ActivateReservation
  <2>2. \A u \in Tasks : RowStays(u)
    BY <1>1, <2>1, RowsStay
  <2>3. \A u \in Tasks : payload'[u].snapshot = payload[u].snapshot
                         /\ (u # t => payload'[u] = payload[u])
    BY <1>1, <2>1 DEF Payload
  <2> QED
    BY <1>2, <2>1, <2>2, <2>3, QuietStep
<1>5. CASE DropReservation(c)
  <2>0. call[c].step \in Steps
    BY <1>5 DEF DropReservation, Steps
  <2> PICK t \in Tasks, h \in Hashes \cup {None} :
        call[c].task = t /\ call[c].hash = h /\ stage[t] = "none"
    BY <2>0, ReservedTask
  <2>1. FailInitialization(t) /\ Forget(t)
    BY <1>5 DEF DropReservation
  <2>2. \A u \in Tasks : RowStays(u)
    BY <1>1, <2>1, RowsStay
  <2>3. ~Active(t)' /\ \A u \in Tasks \ {t} : payload'[u] = payload[u]
    BY <1>1, <2>1, Forgets DEF FailInitialization, Active, Status, StoreInv, StoreTypeOK, Row
  <2> QED
    BY <1>2, <2>1, <2>2, <2>3, QuietStep
<1> QED
  BY <1>3, <1>4, <1>5 DEF SubmitToQb, ActivateReservation

\* A new monitor, approved with the policy in force.
LEMMA NewMonitorAuthorized ==
  ASSUME AuthorizedInv, PipelineInv', Histories', NEW t \in Tasks, NEW s \in Policies \cup {None},
         Fresh(t), NEW r, task' = [task EXCEPT ![t] = r],
         r.kind = "download_watch", payload'[t].snapshot = s,
         \A u \in Tasks \ {t} : payload'[u] = payload[u],
         granted' = [granted EXCEPT ![t] = Whole(s)], UNCHANGED <<stage, inForce, file>>
  PROVE  AuthorizedInv'
<1>1. /\ task \in [Tasks -> Row] /\ granted \in [Tasks -> SUBSET Policies]
      /\ StoreInv' /\ ParentsPresent /\ Status(t) = "absent" /\ stage[t] = "none"
  BY DEF AuthorizedInv, PipelineInv, StoreInv, StoreTypeOK, Histories, Fresh
<1>2. Backed(t)'
  <2>1. task'[t].kind = "download_watch" /\ stage'[t] = "none"
        /\ payload'[t].snapshot \in granted'[t] \cup {None}
    BY <1>1 DEF Whole
  <2> QED
    BY <2>1 DEF Backed, Organizing
<1>3. ASSUME NEW u \in Tasks \ {t} PROVE Backed(u)'
  <2>1. /\ Backed(u) /\ task'[u] = task[u] /\ payload'[u] = payload[u]
        /\ stage'[u] = stage[u] /\ inForce'[u] = inForce[u] /\ granted'[u] = granted[u]
    BY <1>1 DEF AuthorizedInv
  <2>2. task[u].parent # t
    BY <1>1 DEF ParentsPresent, Status
  <2>3. task[u].parent \in Tasks => granted'[task[u].parent] = granted[task[u].parent]
    BY <1>1, <2>2
  <2> QED
    BY <2>1, <2>3 DEF Backed, Active, Status, Allows, Organizing
<1> QED
  BY <1>2, <1>3 DEF AuthorizedInv

LEMMA RequestsAuthorized ==
  ASSUME AuthorizedInv, PipelineInv',
         (\E c \in Calls : SubmitDownload(c)) \/ (\E t \in Tasks : CreateMonitor(t))
  PROVE  AuthorizedInv'
<1>1. /\ PipelineInv /\ payload \in [Tasks -> Payload]
      /\ granted \in [Tasks -> SUBSET Policies] /\ inForce \in [Tasks -> SUBSET Policies]
  BY DEF AuthorizedInv, Histories, PipelineInv, Shapes
<1>2. CASE \E c \in Calls : SubmitDownload(c)
  <2> PICK c \in Calls, k \in SubmitKeys \cup {None}, a \in Actions, p \in Paths, t \in Tasks :
        \E s \in Captures(a, p) :
          /\ Fresh(t)
          /\ Prepare(t, "download_watch", k, None)
          /\ payload' = [payload EXCEPT ![t] = NewPayload(a, None, p, s)]
          /\ granted' = [granted EXCEPT ![t] = Whole(s)]
          /\ UNCHANGED <<stage, inForce, file>>
    BY <1>2 DEF SubmitDownload
  <2> PICK s \in Captures(a, p) :
          /\ Fresh(t)
          /\ Prepare(t, "download_watch", k, None)
          /\ payload' = [payload EXCEPT ![t] = NewPayload(a, None, p, s)]
          /\ granted' = [granted EXCEPT ![t] = Whole(s)]
          /\ UNCHANGED <<stage, inForce, file>>
    OBVIOUS
  <2> DEFINE r == NewRow("initializing", "download_watch", "null", None, k, None)
  <2>1. s \in Policies \cup {None}
    BY <1>1, CapturesType
  <2>2. task' = [task EXCEPT ![t] = r] /\ r.kind = "download_watch"
    BY DEF Prepare, Insert, NewRow
  <2>3. payload'[t].snapshot = s /\ \A u \in Tasks \ {t} : payload'[u] = payload[u]
    BY <1>1 DEF NewPayload
  <2>4. Histories'
    BY <1>1, <2>1 DEF Histories, Whole
  <2> HIDE DEF r
  <2> QED
    BY <2>1, <2>2, <2>3, <2>4, NewMonitorAuthorized
<1>3. CASE \E t \in Tasks : CreateMonitor(t)
  <2> PICK t \in Tasks : CreateMonitor(t)
    BY <1>3
  <2> PICK k \in MonitorKeys, a \in Actions, h \in Hashes, ra \in {"null", "future"} :
        \E s \in Captures(a, ContentPath[h]) :
          /\ Fresh(t)
          /\ Enqueue(t, "download_watch", ra, None, k, h)
          /\ payload' = [payload EXCEPT ![t] = NewPayload(a, h, ContentPath[h], s)]
          /\ granted' = [granted EXCEPT ![t] = Whole(s)]
          /\ UNCHANGED <<stage, inForce, file>>
    BY DEF CreateMonitor
  <2> PICK s \in Captures(a, ContentPath[h]) :
          /\ Fresh(t)
          /\ Enqueue(t, "download_watch", ra, None, k, h)
          /\ payload' = [payload EXCEPT ![t] = NewPayload(a, h, ContentPath[h], s)]
          /\ granted' = [granted EXCEPT ![t] = Whole(s)]
          /\ UNCHANGED <<stage, inForce, file>>
    OBVIOUS
  <2> DEFINE r == NewRow("queued", "download_watch", ra, None, k, h)
  <2>1. s \in Policies \cup {None}
    BY <1>1, CapturesType
  <2>2. task' = [task EXCEPT ![t] = r] /\ r.kind = "download_watch"
    BY DEF Enqueue, Insert, NewRow
  <2>3. payload'[t].snapshot = s /\ \A u \in Tasks \ {t} : payload'[u] = payload[u]
    BY <1>1 DEF NewPayload
  <2>4. Histories'
    BY <1>1, <2>1 DEF Histories, Whole
  <2> HIDE DEF r
  <2> QED
    BY <2>1, <2>2, <2>3, <2>4, NewMonitorAuthorized
<1> QED
  BY <1>2, <1>3

\* An update keeps the snapshot, drops it, or takes one granted to it now.
LEMMA UpdateAuthorized ==
  ASSUME AuthorizedInv, PipelineInv', NEW t \in Tasks, UpdateMonitor(t)
  PROVE  AuthorizedInv'
<1>1. /\ PipelineInv /\ StoreInv /\ payload \in [Tasks -> Payload] /\ payload[t] \in Payload
      /\ granted \in [Tasks -> SUBSET Policies] /\ inForce \in [Tasks -> SUBSET Policies]
  BY DEF AuthorizedInv, Histories, PipelineInv, Shapes
<1> PICK a \in Actions \cup {None} : \E s \in Captures(a, payload[t].path) :
      /\ payload' = [payload EXCEPT ![t] = Updated(t, a, s)]
      /\ granted' = [granted EXCEPT ![t] = @ \cup Whole(s)]
  BY DEF UpdateMonitor
<1> PICK s \in Captures(a, payload[t].path) :
      /\ payload' = [payload EXCEPT ![t] = Updated(t, a, s)]
      /\ granted' = [granted EXCEPT ![t] = @ \cup Whole(s)]
  OBVIOUS
<1>2. /\ UNCHANGED <<stage, inForce, file>> /\ task[t].kind = "download_watch"
      /\ Status(t) \in {"queued", "waiting"}
      /\ UpdateDownloadMonitor(t) \/ UNCHANGED storeVars
  BY DEF UpdateMonitor
<1>3. s \in Policies \cup {None}
  BY <1>1, CapturesType
<1>4. Histories' /\ \A v \in Tasks : granted[v] \subseteq granted'[v]
  BY <1>1, <1>2, <1>3 DEF Histories, Whole
<1>5. \A u \in Tasks : RowStays(u)
  BY <1>1, <1>2, RowsStay
<1>6. stage[t] = "none"
  BY <1>1, <1>2 DEF PipelineInv, TaskOK, Staged
<1>7. ASSUME NEW u \in Tasks \ {t} PROVE Backed(u)'
  <2>1. payload'[u] = payload[u] /\ Backed(u) /\ Histories
    BY <1>1 DEF AuthorizedInv
  <2> QED
    BY <1>2, <1>4, <1>5, <2>1, BackedStays
<1>8. Backed(t)'
  <2>1. payload[t].snapshot \in granted[t] \cup {None}
    BY <1>2 DEF AuthorizedInv, Backed, Active
  <2>2. Updated(t, a, s).snapshot \in {None, s, payload[t].snapshot}
    BY <1>1 DEF Updated, Payload
  <2>3. payload'[t].snapshot \in granted'[t] \cup {None}
    BY <1>1, <1>3, <2>1, <2>2 DEF Whole
  <2>4. task'[t].kind = "download_watch"
    BY <1>1, <1>2 DEF UpdateDownloadMonitor, StoreInv, StoreTypeOK, Row, storeVars
  <2> QED
    BY <1>2, <1>6, <2>3, <2>4 DEF Backed, Organizing
<1> QED
  BY <1>4, <1>7, <1>8 DEF AuthorizedInv

\* A child that is spawned takes the snapshot of its monitor.
LEMMA SpawnAuthorized ==
  ASSUME AuthorizedInv, PipelineInv', NEW t \in Tasks, SpawnOrganize(t)
  PROVE  AuthorizedInv'
<1>1. /\ PipelineInv /\ Histories /\ StoreInv /\ payload \in [Tasks -> Payload]
      /\ task \in [Tasks -> Row]
  BY DEF AuthorizedInv, PipelineInv, Shapes, StoreInv, StoreTypeOK
<1>2. /\ UNCHANGED <<file, granted, inForce>> /\ stage[t] = "spawn" /\ Histories'
      /\ stage'[t] = "succeed" /\ \A u \in Tasks \ {t} : stage'[u] = stage[u]
  BY <1>1, DecideFacts DEF SpawnOrganize, Histories
<1>3. CASE UNCHANGED <<storeVars, payload>>
  <2>1. \A u \in Tasks : RowStays(u)
    BY <1>3 DEF RowStays, Active, Status, storeVars
  <2> QED
    BY <1>2, <1>3, <2>1, QuietStep
<1>4. ASSUME NEW c \in Tasks, NEW h, Fresh(c),
             Enqueue(c, "organize_download", "null", t, h, None),
             payload' = [payload EXCEPT ![c] =
               NewPayload(None, h, ContentPath[h], payload[t].snapshot)]
      PROVE  AuthorizedInv'
  <2>1. /\ task'[c].kind = "organize_download" /\ task'[c].parent = t
        /\ \A u \in Tasks \ {c} : task'[u] = task[u] /\ payload'[u] = payload[u]
        /\ payload'[c].snapshot = payload[t].snapshot /\ stage[c] = "none"
    BY <1>1, <1>4 DEF Enqueue, Insert, NewRow, NewPayload, Fresh
  <2>2. payload[t].snapshot \in granted[t] \cup {None}
    BY <1>1, <1>2 DEF AuthorizedInv, Backed, TaskOK, Staged, Active, PipelineInv
  <2>3. Backed(c)'
    BY <1>2, <2>1, <2>2 DEF Backed, Organizing
  <2>4. ASSUME NEW u \in Tasks \ {c} PROVE Backed(u)'
    <3>1. RowStays(u) /\ Backed(u)
      BY <2>1 DEF RowStays, Active, Status, AuthorizedInv
    <3> QED
      BY <1>1, <1>2, <2>1, <3>1, BackedStays
  <2> QED
    BY <1>2, <2>3, <2>4 DEF AuthorizedInv
<1> QED
  BY <1>3, <1>4 DEF SpawnOrganize

\* What a step of the worker or a handler does to the task it is about.
LEMMA AboutOneTask ==
  ASSUME AuthorizedInv, PipelineInv', Histories', NEW t \in Tasks, UNCHANGED <<file, granted>>,
         \A u \in Tasks : RowStays(u),
         \A u \in Tasks \ {t} : /\ payload'[u] = payload[u] /\ stage'[u] = stage[u]
                               /\ inForce'[u] = inForce[u],
         stage'[t] \in {"moving", "moved"} =>
           /\ stage[t] \in {"moving", "moved"} /\ inForce'[t] = inForce[t]
           /\ payload'[t] = payload[t],
         stage'[t] # "claimed" \/ (stage[t] = "claimed" /\ inForce'[t] = inForce[t]),
         Active(t)' => payload'[t].snapshot = payload[t].snapshot
  PROVE  AuthorizedInv'
BY QuietStep

\* The check lets a thread start under the policy of its moment; the claim
\* has kept that policy, and so has every change of the settings since.
LEMMA HandlersAuthorized ==
  ASSUME AuthorizedInv, PipelineInv', NEW t \in Tasks, Handler(t) \/ Cancel(t) \/ Clock(t)
  PROVE  AuthorizedInv'
<1>1. /\ PipelineInv /\ Histories /\ StoreInv /\ payload \in [Tasks -> Payload]
      /\ payload[t] \in Payload /\ task \in [Tasks -> Row] /\ task[t] \in Row
  BY DEF AuthorizedInv, PipelineInv, Shapes, StoreInv, StoreTypeOK
<1>2. CASE ResolveHash(t)
  <2>1. /\ UNCHANGED <<file, granted, inForce>> /\ Histories' /\ stage[t] = "claimed"
        /\ \E o \in {"again", "fail"} : Decide(t, o)
    BY <1>1, <1>2 DEF ResolveHash, Histories
  <2>2. UNCHANGED storeVars \/ \E h \in Hashes : BindDownloadMonitorIdentity(t, h)
    BY <1>2 DEF ResolveHash
  <2>3. \A u \in Tasks : RowStays(u)
    BY <1>1, <2>2, RowsStay
  <2>4. /\ \A u \in Tasks \ {t} : payload'[u] = payload[u]
        /\ payload'[t].snapshot = payload[t].snapshot
    <3>1. DOMAIN payload = Tasks
          /\ DOMAIN payload[t] = {"action", "hash", "path", "snapshot", "attempts"}
      BY <1>1 DEF Payload
    <3>2. ASSUME NEW h \in Hashes,
                 payload' = [payload EXCEPT ![t].hash = h, ![t].path = ContentPath[h]]
          PROVE  /\ \A u \in Tasks \ {t} : payload'[u] = payload[u]
                 /\ payload'[t].snapshot = payload[t].snapshot
      <4>1. payload' = [payload EXCEPT ![t] =
                          [payload[t] EXCEPT !.hash = h, !.path = ContentPath[h]]]
        BY <3>1, <3>2
      <4> QED
        BY <3>1, <4>1
    <3> QED
      BY <1>2, <3>2 DEF ResolveHash
  <2>5. /\ \A u \in Tasks \ {t} : stage'[u] = stage[u]
        /\ stage'[t] \in {"again", "fail"}
    BY <1>1, <2>1, DecideFacts
  <2> QED
    BY <2>1, <2>3, <2>4, <2>5, AboutOneTask
<1>3. CASE PollTorrent(t)
  <2>1. /\ UNCHANGED <<storeVars, payload, file, granted, inForce>> /\ Histories'
        /\ \E o \in OutcomeStages : Decide(t, o)
    BY <1>1, <1>3 DEF PollTorrent, FollowUps, OutcomeStages, Histories
  <2>2. \A u \in Tasks : RowStays(u)
    BY <1>1, <2>1, RowsStay
  <2>3. /\ \A u \in Tasks \ {t} : stage'[u] = stage[u]
        /\ stage'[t] \in OutcomeStages
    BY <1>1, <2>1, DecideFacts
  <2> QED
    BY <2>1, <2>2, <2>3, AboutOneTask DEF OutcomeStages
<1>4. CASE SpawnOrganize(t)
  BY <1>4, SpawnAuthorized
<1>5. CASE Organize(t) /\ Authorizes(t)
  <2>1. /\ UNCHANGED <<storeVars, payload, file, granted, inForce, task>> /\ Histories'
        /\ Decide(t, "moving") /\ Organizing(t)
    BY <1>1, <1>5 DEF Organize, Decided, Organizing, Histories, storeVars
  <2>2. file # None /\ file \in inForce[t]
    BY <1>5, <2>1 DEF Authorizes, Allows, Load, AuthorizedInv, Backed, Whole
  <2>3. /\ stage'[t] = "moving" /\ \A u \in Tasks \ {t} : stage'[u] = stage[u]
    BY <1>1, <2>1, DecideFacts
  <2>4. Backed(t)'
    <3>1. Backed(t) /\ payload[t].snapshot # None
          /\ \E p \in inForce[t] : Allows(p, payload[t].snapshot, payload[t].path)
      BY <1>5, <2>2 DEF Authorizes, Load, AuthorizedInv
    <3> QED
      BY <2>1, <3>1 DEF Backed, Active, Status, Allows, Organizing
  <2>5. ASSUME NEW u \in Tasks \ {t} PROVE Backed(u)'
    BY <2>1, <2>3 DEF AuthorizedInv, Backed, Active, Status, Allows, Organizing
  <2> QED
    BY <2>1, <2>4, <2>5 DEF AuthorizedInv
<1>6. CASE (Organize(t) /\ ~Authorizes(t)) \/ OrganizeReturns(t)
  <2>1. /\ UNCHANGED <<storeVars, payload, file, granted>>
        /\ \E o \in {"fail", "succeed", "retry"} : Decide(t, o)
        /\ inForce' = [inForce EXCEPT ![t] = {}]
    BY <1>6 DEF Organize, OrganizeReturns, Decided
  <2>2. Histories' /\ \A u \in Tasks \ {t} : inForce'[u] = inForce[u]
    BY <1>1, <2>1 DEF Histories
  <2>3. \A u \in Tasks : RowStays(u)
    BY <1>1, <2>1, RowsStay
  <2>4. /\ \A u \in Tasks \ {t} : stage'[u] = stage[u]
        /\ stage'[t] \in {"fail", "succeed", "retry"}
    BY <1>1, <2>1, DecideFacts
  <2> QED
    BY <2>1, <2>2, <2>3, <2>4, AboutOneTask
<1>7. CASE MoveFiles(t)
  <2>1. /\ UNCHANGED <<storeVars, payload, file, granted, inForce>> /\ Histories'
        /\ Decide(t, "moved") /\ stage[t] = "moving"
    BY <1>1, <1>7 DEF MoveFiles, Histories
  <2>2. \A u \in Tasks : RowStays(u)
    BY <1>1, <2>1, RowsStay
  <2>3. stage'[t] = "moved" /\ \A u \in Tasks \ {t} : stage'[u] = stage[u]
    BY <1>1, <2>1, DecideFacts
  <2> QED
    BY <2>1, <2>2, <2>3, AboutOneTask
<1>8. CASE StoreReschedule(t)
  <2>1. /\ UNCHANGED <<file, granted, inForce>> /\ Histories' /\ Decide(t, "none")
        /\ \E f : Reschedule(t, f)
    BY <1>1, <1>8 DEF StoreReschedule, Histories
  <2>2. \A u \in Tasks : RowStays(u)
    BY <1>1, <2>1, RowsStay
  <2>3. stage'[t] = "none" /\ \A u \in Tasks \ {t} : stage'[u] = stage[u]
    BY <1>1, <2>1, DecideFacts
  <2>4. /\ \A u \in Tasks \ {t} : payload'[u] = payload[u]
        /\ payload'[t].snapshot = payload[t].snapshot
    BY <1>1, <1>8 DEF StoreReschedule, Payload
  <2> QED
    BY <2>1, <2>2, <2>3, <2>4, AboutOneTask
<1>9. CASE StoreFinish(t)
  <2>1. /\ UNCHANGED <<file, granted, inForce>> /\ Histories' /\ Decide(t, "none") /\ Forget(t)
    BY <1>1, <1>9 DEF StoreFinish, Histories
  <2>2. \E st \in {"succeeded", "failed"}, f \in Nat : Finish(t, st, f, FALSE)
    <3>1. task[t].failures \in Nat /\ task[t].failures + 1 \in Nat
      BY <1>1 DEF Row
    <3>2. \/ Finish(t, "succeeded", task[t].failures, FALSE)
          \/ Finish(t, "failed", task[t].failures + 1, FALSE)
      BY <1>9 DEF StoreFinish
    <3> QED
      BY <3>1, <3>2
  <2>3. \A u \in Tasks : RowStays(u)
    BY <1>1, <2>2, RowsStay
  <2>4. ~Active(t)'
    BY <1>1, <2>2 DEF Finish, Active, Status, Row
  <2>5. stage'[t] = "none" /\ \A u \in Tasks \ {t} : stage'[u] = stage[u]
    BY <1>1, <2>1, DecideFacts
  <2>6. \A u \in Tasks \ {t} : payload'[u] = payload[u]
    BY <1>1, <2>1, Forgets
  <2> QED
    BY <2>1, <2>3, <2>4, <2>5, <2>6, AboutOneTask
<1>10. CASE Cancel(t)
  <2>1. UNCHANGED <<stage, file, granted, inForce>> /\ Histories' /\ CancelPending(t) /\ Forget(t)
    BY <1>1, <1>10 DEF Cancel, Histories
  <2>2. \A u \in Tasks : RowStays(u)
    BY <1>1, <2>1, RowsStay
  <2>3. ~Active(t)' /\ stage[t] = "none"
    BY <1>1, <2>1 DEF CancelPending, Active, Status, Row, PipelineInv, TaskOK, Staged
  <2>4. \A u \in Tasks \ {t} : payload'[u] = payload[u]
    BY <1>1, <2>1, Forgets
  <2> QED
    BY <2>1, <2>2, <2>3, <2>4, AboutOneTask
<1>11. CASE Clock(t)
  <2>1. /\ UNCHANGED <<payload, stage, file, granted, inForce>> /\ Histories'
        /\ BecomeDue(t) \/ GrowOld(t)
    BY <1>1, <1>11 DEF Clock, Histories
  <2>2. \A u \in Tasks : RowStays(u)
    BY <1>1, <2>1, RowsStay
  <2> QED
    BY <2>1, <2>2, AboutOneTask
<1> QED
  BY <1>2, <1>3, <1>4, <1>5, <1>6, <1>7, <1>8, <1>9, <1>10, <1>11 DEF Handler

\* A claim starts to look at the settings; the file's rewriting is seen.
LEMMA ClaimAuthorized ==
  ASSUME AuthorizedInv, PipelineInv', Claim
  PROVE  AuthorizedInv'
<1>1. /\ PipelineInv /\ Histories /\ StoreInv
      /\ file \in Policies \cup {None} /\ inForce \in [Tasks -> SUBSET Policies]
  BY DEF AuthorizedInv, Histories, PipelineInv, Shapes
<1> PICK S \in SUBSET Tasks :
      /\ ClaimDue(S)
      /\ stage' = [t \in Tasks |-> IF t \in S THEN "claimed" ELSE stage[t]]
      /\ inForce' = [t \in Tasks |->
                       IF t \in S /\ task[t].kind = "organize_download"
                       THEN Whole(file) ELSE inForce[t]]
  BY DEF Claim
<1>2. UNCHANGED <<payload, file, granted>> /\ Histories'
  BY <1>1 DEF Claim, Histories, Whole
<1>3. ASSUME NEW u \in S PROVE Backed(u)'
  <2>1. task[u] \in Row
    BY <1>1 DEF StoreInv, StoreTypeOK
  <2>2. Active(u) /\ task'[u].kind = task[u].kind /\ task'[u].parent = task[u].parent
    BY <1>3, <2>1 DEF ClaimDue, Due, Active, Status, Row
  <2>3. stage'[u] = "claimed" /\ u \in Tasks
    BY <1>3
  <2> QED
    BY <1>2, <1>3, <2>2, <2>3 DEF AuthorizedInv, Backed, Organizing
<1>4. ASSUME NEW u \in Tasks \ S PROVE Backed(u)'
  <2>1. task'[u] = task[u] /\ stage'[u] = stage[u] /\ inForce'[u] = inForce[u] /\ Backed(u)
    BY <1>4 DEF ClaimDue, AuthorizedInv
  <2> QED
    BY <1>2, <2>1 DEF Backed, Active, Status, Allows, Organizing
<1> QED
  BY <1>2, <1>3, <1>4 DEF AuthorizedInv

LEMMA SettingsAuthorized ==
  ASSUME AuthorizedInv, PipelineInv', SavePolicy
  PROVE  AuthorizedInv'
<1>1. UNCHANGED <<task, payload, stage, granted>> /\ Histories
  BY DEF SavePolicy, storeVars, AuthorizedInv
<1>2. Whole(file') \subseteq Policies
  BY DEF SavePolicy, Whole
<1>3. Histories'
  BY <1>1, <1>2 DEF SavePolicy, Histories
<1>4. ASSUME NEW u \in Tasks PROVE Backed(u)'
  <2>1. /\ Backed(u) /\ inForce[u] \subseteq inForce'[u]
        /\ Organizing(u) => Whole(file') \subseteq inForce'[u]
    BY <1>1 DEF SavePolicy, AuthorizedInv, Histories
  <2> QED
    BY <1>1, <2>1 DEF Backed, Active, Status, Allows, Organizing
<1> QED
  BY <1>3, <1>4 DEF AuthorizedInv

\* A deleted row's id grants nothing, and no active row is the child of one.
LEMMA PurgeAuthorized ==
  ASSUME AuthorizedInv, PipelineInv', Purge
  PROVE  AuthorizedInv'
<1>1. /\ PipelineInv /\ Histories /\ UNCHANGED <<payload, stage, file, inForce>>
      /\ task' = [t \in Tasks |-> IF t \in Purgeable THEN NoRow ELSE task[t]]
      /\ granted' = [t \in Tasks |-> IF t \in Purgeable THEN {} ELSE granted[t]]
  BY DEF Purge, PurgeTerminalTasks, AuthorizedInv
<1>2. Histories'
  BY <1>1 DEF Histories
<1>3. ASSUME NEW u \in Purgeable PROVE Backed(u)'
  <2>1. u \in Tasks /\ ~Active(u)' /\ stage[u] = "none"
    BY <1>1 DEF Purgeable, Terminal, Active, Status, NoRow, NewRow, PipelineInv, TaskOK, Staged
  <2> QED
    BY <1>1, <2>1 DEF Backed, Organizing
<1>4. ASSUME NEW u \in Tasks \ Purgeable PROVE Backed(u)'
  <2>1. Backed(u) /\ task'[u] = task[u] /\ granted'[u] = granted[u]
    BY <1>1 DEF AuthorizedInv
  <2>2. Active(u) /\ task[u].parent \in Tasks => task[u].parent \notin Purgeable
    BY DEF Purgeable, References, Active, Status
  <2>3. Active(u) /\ task[u].parent \in Tasks =>
          granted'[task[u].parent] = granted[task[u].parent]
    BY <1>1, <2>2
  <2> QED
    BY <1>1, <2>1, <2>3 DEF Backed, Active, Status, Allows, Organizing
<1> QED
  BY <1>2, <1>3, <1>4 DEF AuthorizedInv

LEMMA RestAuthorized ==
  ASSUME AuthorizedInv, PipelineInv',
         \/ Crash \/ Restart \/ UNCHANGED vars
         \/ \E h \in Hashes : TorrentChanges(h)
  PROVE  AuthorizedInv'
<1>1. /\ PipelineInv /\ Histories /\ StoreInv
      /\ payload \in [Tasks -> Payload]
  BY DEF AuthorizedInv, PipelineInv, Shapes
<1>2. CASE Crash
  <2>1. /\ UNCHANGED <<storeVars, payload, file, granted>> /\ Histories'
        /\ \A u \in Tasks : stage'[u] = "none"
    BY <1>1, <1>2 DEF Crash, Histories
  <2>2. \A u \in Tasks : RowStays(u)
    BY <2>1 DEF RowStays, Active, Status, storeVars
  <2> QED
    BY <2>1, <2>2, QuietStep
<1>3. CASE Restart /\ ~UNCHANGED <<storeVars, payload>>
  <2>1. PICK t \in Tasks : Status(t) = "initializing" /\ FailInitialization(t) /\ Forget(t)
    BY <1>3 DEF Restart, StaleInitializing
  <2>2. UNCHANGED <<stage, file, granted, inForce>> /\ Histories'
    BY <1>1, <1>3 DEF Restart, Histories
  <2>3. \A u \in Tasks : RowStays(u)
    BY <1>1, <2>1, RowsStay
  <2>4. /\ ~Active(t)' /\ stage[t] = "none"
        /\ \A u \in Tasks \ {t} : payload'[u] = payload[u]
    BY <1>1, <2>1, Forgets
    DEF FailInitialization, Active, Status, StoreInv, StoreTypeOK, Row, PipelineInv, TaskOK, Staged
  <2> QED
    BY <2>2, <2>3, <2>4, QuietStep
<1>4. CASE UNCHANGED <<storeVars, payload, stage, file, granted, inForce>>
  <2>1. Histories' /\ \A u \in Tasks : RowStays(u)
    BY <1>1, <1>4 DEF Histories, RowStays, Active, Status, storeVars
  <2> QED
    BY <1>4, <2>1, QuietStep
<1> QED
  BY <1>2, <1>3, <1>4 DEF Restart, TorrentChanges, vars

LEMMA AuthorizedStep ==
  ASSUME AuthorizedInv, [Next]_vars
  PROVE  AuthorizedInv'
<1>1. PipelineInv'
  BY PipelineStep DEF AuthorizedInv
<1>2. CASE Claim \/ Purge \/ SavePolicy
  BY <1>1, <1>2, ClaimAuthorized, PurgeAuthorized, SettingsAuthorized
<1>3. CASE Crash \/ Restart \/ UNCHANGED vars \/ \E h \in Hashes : TorrentChanges(h)
  BY <1>1, <1>3, RestAuthorized
<1>4. CASE \E c \in Calls : ToolCall(c)
  BY <1>1, <1>4, CallsAuthorized, RequestsAuthorized DEF ToolCall
<1>5. ASSUME NEW t \in Tasks, CreateMonitor(t) \/ UpdateMonitor(t)
      PROVE  AuthorizedInv'
  BY <1>1, <1>5, RequestsAuthorized, UpdateAuthorized
<1>6. ASSUME NEW t \in Tasks, Handler(t) \/ Cancel(t) \/ Clock(t)
      PROVE  AuthorizedInv'
  BY <1>1, <1>6, HandlersAuthorized
<1> QED
  BY <1>2, <1>3, <1>4, <1>5, <1>6 DEF Next

\* Files move only as the user's request for their torrent's monitor was
\* granted and as a whole settings file of this run of the task allowed: the
\* snapshot is inherited by the child and kept through updates, retries,
\* crashes and retention, and the check before the thread reads a file that
\* the run has seen whole.
THEOREM OnlyAuthorizedMoves == Spec => []MovesAreAuthorized
<1>1. Init => AuthorizedInv
  <2> SUFFICES ASSUME Init PROVE AuthorizedInv
    OBVIOUS
  <2>1. PipelineInv
    BY PipelineStarts
  <2>2. \A t \in Tasks : ~Active(t) /\ stage[t] = "none"
    BY DEF Init, StoreInit, NoRow, NewRow, Status, Active
  <2>3. Histories
    BY DEF Init, Histories
  <2> QED
    BY <2>1, <2>2, <2>3 DEF AuthorizedInv, Backed, Organizing
<1>2. AuthorizedInv /\ [Next]_vars => AuthorizedInv'
  BY AuthorizedStep
<1>3. AuthorizedInv => MovesAreAuthorized
  <2> SUFFICES ASSUME AuthorizedInv, NEW t \in Tasks, stage[t] = "moved"
               PROVE  /\ payload[t].snapshot \in granted[task[t].parent]
                      /\ \E p \in inForce[t] :
                           Allows(p, payload[t].snapshot, ContentPath[payload[t].hash])
    BY DEF MovesAreAuthorized
  <2>1. Active(t) /\ task[t].kind = "organize_download" /\ Backed(t)
        /\ payload[t].path = ContentPath[payload[t].hash]
    BY DEF AuthorizedInv, PipelineInv, TaskOK, Staged, Keyed, Active
  <2> QED
    BY <2>1 DEF Backed
<1> QED
  BY <1>1, <1>2, <1>3, PTL DEF Spec

\* The tool calls, the handlers and the restart together implement the
\* lifecycle of app/domain/runtime_tasks.py, as the worker's own model does.
THEOREM PipelineImplementsLifecycle == Spec => LifecycleSpec
<1> DEFINE st == [t \in Tasks |-> Status(t)]
<1>1. Init => Lifecycle!Init
  BY DEF Init, StoreInit, Status, NoRow, NewRow, Lifecycle!Init
<1>2. PipelineInv /\ [Next]_vars => [Lifecycle!Next]_st
  <2> SUFFICES ASSUME PipelineInv, [Next]_vars PROVE Lifecycle!Next
    OBVIOUS
  <2>1. PipelineInv' /\ StatusesMove
    BY PipelineStep
  <2>2. \A t \in Tasks : st[t] = Status(t) /\ st'[t] = Status(t)'
    OBVIOUS
  <2>3. st' \in [Tasks -> Lifecycle!Statuses]
    BY <2>1 DEF PipelineInv, StoreInv, StoreTypeOK, Row, Status, Statuses,
                Lifecycle!Statuses, Lifecycle!ActiveStatuses, Lifecycle!TERMINAL_STATUSES
  <2> QED
    BY <2>1, <2>2, <2>3 DEF StatusesMove, Lifecycle!Next
<1> QED
  BY <1>1, <1>2, PipelineInvariant, PTL DEF Spec, LifecycleSpec, Lifecycle!Spec

=============================================================================
