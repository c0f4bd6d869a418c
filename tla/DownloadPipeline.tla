-------------------------- MODULE DownloadPipeline --------------------------
(***************************************************************************)
(* From a download request to organized files: the approved tool calls of  *)
(* app/services/download_automation.py, the two task handlers of           *)
(* app/runtime/handlers, and the settings file with the organization       *)
(* policy, over the task store.  qBittorrent is external, seen through     *)
(* app/adapters/qbittorrent.py.                                            *)
(*                                                                         *)
(* TaskWorker has the details of claims, semaphores, events and shutdown;  *)
(* here a coroutine is the stage its task is at.  The exclusive key of the *)
(* torrent with hash h, and the dedupe key of its organize task, are h.    *)
(***************************************************************************)
EXTENDS RuntimeTaskStore

CONSTANTS
  SubmitKeys,            \* dedupe keys of approved submissions
  MonitorKeys,           \* dedupe keys of approved monitor requests
  Calls,                 \* threads that execute tool calls
  Paths,                 \* source paths
  Policies,              \* contents of the settings file
  DefaultPolicy,         \* what a missing or unreadable file stands for
  ContentPath,           \* where each torrent's files are
  MaxResolutionAttempts, \* HASH_RESOLUTION_MAX_ATTEMPTS
  MaxFailures,           \* max_failure_attempts
  MaxCrashes             \* bound: crashes in a behaviour

Hashes == ExclusiveKeys

Policy == [allowed : BOOLEAN, sources : SUBSET Paths, dest : {"d1", "d2"}]

ASSUME PipelineAssumption ==
  /\ DedupeKeys = SubmitKeys \cup MonitorKeys \cup Hashes
  /\ SubmitKeys \cap MonitorKeys = {} /\ SubmitKeys \cap Hashes = {}
  /\ MonitorKeys \cap Hashes = {}
  /\ DefaultPolicy \in Policies /\ Policies \subseteq Policy
  /\ ~DefaultPolicy.allowed
  /\ None \notin Policies /\ None \notin Paths /\ None \notin {"notify", "organize"}
  /\ ContentPath \in [Hashes -> Paths]
  /\ MaxResolutionAttempts \in Nat \ {0}
  /\ MaxFailures \in Nat \ {0}
  /\ MaxCrashes \in Nat

VARIABLES
  payload,   \* the payload column of each task that has not ended
  stage,     \* where the coroutine of a claimed task is, or its outcome
  call,      \* the submission each thread is executing
  file,      \* the policy file; None while it is half written
  torrent,   \* qBittorrent: state of each torrent, "absent" also while its
             \* metadata is fetched and it is not reported
  tagged,    \* qBittorrent: correlation tags of each torrent
  adds,      \* submissions made for each task (history)
  granted,   \* policies users had when they asked for each monitor (history)
  inForce,   \* whole contents of the file since each organize task was
             \* claimed (history)
  up,        \* the process runs
  crashes

qb == <<torrent, tagged>>
history == <<adds, granted, inForce>>
process == <<up, crashes>>
vars == <<storeVars, payload, stage, call, file, qb, history, process>>

Actions == {"notify", "organize"}

\* What a monitor, or an organize task, keeps: an action, the hash and the path
\* of its torrent, a policy and the attempts to resolve the hash.
NewPayload(a, h, p, s) ==
  [action |-> a, hash |-> h, path |-> p, snapshot |-> s,
   attempts |-> 0]

NoPayload == NewPayload(None, None, None, None)

\* A handler's outcome waits for the worker to store it.
OutcomeStages == {"again", "retry", "spawn", "succeed", "fail"}

IdleCall == [step |-> "idle", task |-> None, hash |-> None]

Init ==
  /\ StoreInit
  /\ payload = [t \in Tasks |-> NoPayload]
  /\ stage = [t \in Tasks |-> "none"]
  /\ call = [c \in Calls |-> IdleCall]
  /\ file \in Policies
  /\ torrent = [h \in Hashes |-> "absent"]
  /\ tagged = [h \in Hashes |-> {}]
  /\ adds = [t \in Tasks |-> 0]
  /\ granted = [t \in Tasks |-> {}]
  /\ inForce = [t \in Tasks |-> {}]
  /\ up = TRUE
  /\ crashes = 0

-----------------------------------------------------------------------------
(* The policy file.                                                        *)

\* load: fail-closed when the file cannot be parsed.
Load == IF file = None THEN DefaultPolicy ELSE file

\* A claimed organize task, from its claim to the end of its thread.
Organizing(t) ==
  task[t].kind = "organize_download" /\ stage[t] \in {"claimed", "moving", "moved"}

\* The contents of the file, when it is whole.
Whole(f) == {f} \ {None}

\* save rewrites the file in place: a reader, or a crash, may come when it is
\* half written.
SavePolicy ==
  /\ up
  /\ \/ file # None /\ file' = None
     \/ file = None /\ file' \in Policies
  /\ inForce' = [t \in Tasks |-> IF Organizing(t) THEN inForce[t] \cup Whole(file')
                                 ELSE inForce[t]]
  /\ UNCHANGED <<storeVars, payload, stage, call, qb, adds, granted, process>>

\* The authorization snapshot a request may carry: none for notify, the policy
\* in force for organize, provided it authorizes the source path.
Captures(a, p) ==
  IF a # "organize" THEN {None}
  ELSE {s \in {Load} : s.allowed /\ p \in s.sources}

-----------------------------------------------------------------------------
(* Tool calls.                                                             *)

\* A new uuid: no row has it, no coroutine, call or torrent knows it.
Fresh(t) == /\ Status(t) = "absent" /\ stage[t] = "none"
            /\ \A c \in Calls : call[c].task # t
            /\ \A h \in Hashes : t \notin tagged[h]

Found(d) == {t \in Tasks : d # None /\ task[t].dedupe = d}

Turn(c, s, h) == call' = [call EXCEPT ![c].step = s, ![c].hash = h]

HangUp(c) == call' = [call EXCEPT ![c] = IdleCall]

\* Fault: the nonce of the row that prepare returns is not compared.
SubmitDownloadAnyRow(c) ==
  /\ up /\ call[c] = IdleCall
  /\ \E k \in SubmitKeys \cup {None}, a \in Actions, p \in Paths, t \in Tasks :
       \E s \in Captures(a, p) :
         /\ \/ t \in Found(k) /\ UNCHANGED <<storeVars, payload>>
            \/ /\ Fresh(t) /\ Prepare(t, "download_watch", k, None)
               /\ payload' = [payload EXCEPT ![t] = NewPayload(a, None, p, s)]
         /\ call' = [call EXCEPT ![c].step = "reserved", ![c].task = t]
  /\ UNCHANGED <<stage, file, qb, history, process>>

\* prepare returns the row of an earlier attempt with the same key: the nonce
\* tells, and the call reports that row instead of going on.
SubmitDownload(c) ==
  /\ up /\ call[c] = IdleCall
  /\ \E k \in SubmitKeys \cup {None}, a \in Actions, p \in Paths, t \in Tasks :
       \E s \in Captures(a, p) :
         /\ Fresh(t)
         /\ Prepare(t, "download_watch", k, None)
         /\ payload' = [payload EXCEPT ![t] = NewPayload(a, None, p, s)]
         /\ granted' = [granted EXCEPT ![t] = Whole(s)]
         /\ call' = [call EXCEPT ![c].step = "reserved", ![c].task = t]
  /\ UNCHANGED <<stage, file, qb, adds, inForce, process>>

\* qBittorrent takes a new torrent; one it has already it leaves as it is,
\* without the tag.
QbAdds(h, tags) ==
  IF torrent[h] = "absent"
  THEN /\ torrent' = [torrent EXCEPT ![h] = "downloading"]
       /\ tagged' = [tagged EXCEPT ![h] = tags]
  ELSE UNCHANGED qb

\* submit: refused before or by qBittorrent, refused because its answer was
\* lost, accepted with or without the hash, or an exception that leaves the
\* reservation behind.
SubmitToQb(c) ==
  /\ call[c].step = "reserved"
  /\ \/ /\ Turn(c, "refused", None) \/ HangUp(c)
        /\ UNCHANGED <<qb, adds>>
     \/ \E h \in Hashes :
          /\ QbAdds(h, {call[c].task})
          /\ adds' = [adds EXCEPT ![call[c].task] = @ + 1]
          /\ \/ Turn(c, "refused", None)
             \/ Turn(c, "accepted", None)
             \/ torrent[h] = "absent" /\ Turn(c, "accepted", h)
  /\ UNCHANGED <<storeVars, payload, stage, file, granted, inForce, process>>

\* Fault: the key is left to be bound with the hash.
ActivateWithoutKey(c) ==
  /\ call[c].step = "accepted"
  /\ Activate(call[c].task, "null", None)
  /\ payload' = [payload EXCEPT ![call[c].task].hash = call[c].hash]
  /\ HangUp(c)
  /\ UNCHANGED <<stage, file, qb, history, process>>

\* A torrent that is watched already refuses the activation.
ActivateReservation(c) ==
  LET t == call[c].task
      h == call[c].hash IN
  /\ call[c].step = "accepted"
  /\ \/ /\ Activate(t, "null", h)
        /\ payload' = [payload EXCEPT ![t].hash = h]
        /\ HangUp(c)
     \/ /\ ~Exclusive(t, h)
        /\ Turn(c, "refused", None)
        /\ UNCHANGED <<storeVars, payload>>
  /\ UNCHANGED <<stage, file, qb, history, process>>

\* What an ended task's payload said is not kept: nothing reads it any more.
Forget(t) == payload' = [payload EXCEPT ![t] = NoPayload]

DropReservation(c) ==
  /\ call[c].step = "refused"
  /\ FailInitialization(call[c].task)
  /\ Forget(call[c].task)
  /\ HangUp(c)
  /\ UNCHANGED <<stage, file, qb, history, process>>

\* get_torrent must find the torrent.  A replay gets the row of the earlier
\* attempt, and a watched torrent is refused.
CreateMonitor(t) ==
  /\ up /\ Fresh(t)
  /\ \E k \in MonitorKeys, a \in Actions, h \in Hashes,
        ra \in {"null", "future"} :
       \E s \in Captures(a, ContentPath[h]) :
         /\ torrent[h] # "absent"
         /\ Enqueue(t, "download_watch", ra, None, k, h)
         /\ payload' = [payload EXCEPT ![t] = NewPayload(a, h, ContentPath[h], s)]
         /\ granted' = [granted EXCEPT ![t] = Whole(s)]
  /\ UNCHANGED <<stage, call, file, qb, adds, inForce, process>>

\* The new payload of a monitor, None standing for a field the request leaves
\* out: notify drops the snapshot, organize takes the captured one or keeps
\* its own.
Updated(t, a, s) ==
  LET action == IF a = None THEN payload[t].action ELSE a IN
  [payload[t] EXCEPT !.action = action,
                     !.snapshot = IF action = "notify" THEN None
                                  ELSE IF s # None THEN s ELSE @]

\* A claimed, ended or deleted task rejects the update.
UpdateMonitor(t) ==
  /\ up
  /\ task[t].kind = "download_watch" /\ Status(t) \in {"queued", "waiting"}
  /\ \E a \in Actions \cup {None} :
       \E s \in Captures(a, payload[t].path) :
         /\ payload' = [payload EXCEPT ![t] = Updated(t, a, s)]
         /\ granted' = [granted EXCEPT ![t] = @ \cup Whole(s)]
  /\ UpdateDownloadMonitor(t) \/ UNCHANGED storeVars
  /\ UNCHANGED <<stage, call, file, qb, adds, inForce, process>>

Cancel(t) ==
  /\ up /\ CancelPending(t)
  /\ Forget(t)
  /\ UNCHANGED <<stage, call, file, qb, history, process>>

-----------------------------------------------------------------------------
(* The worker and the handlers.                                            *)

Claim ==
  /\ up
  /\ \E S \in SUBSET Tasks :
       /\ ClaimDue(S)
       /\ stage' = [t \in Tasks |-> IF t \in S THEN "claimed" ELSE stage[t]]
       /\ inForce' = [t \in Tasks |->
                        IF t \in S /\ task[t].kind = "organize_download"
                        THEN Whole(file) ELSE inForce[t]]
  /\ UNCHANGED <<payload, call, file, qb, adds, granted, process>>

\* The event loop runs one handler and the storing of its outcome at a time;
\* only a thread that moves files runs beside it.
LoopIsFree == \A t \in Tasks : stage[t] \notin OutcomeStages

Decide(t, o) == stage' = [stage EXCEPT ![t] = o]

\* list_torrents answers with no torrent when qBittorrent fails, except for a
\* failing login, which raises; so does get_torrent.
ResolveHash(t) ==
  LET found == {h \in Hashes : torrent[h] # "absent" /\ t \in tagged[h]} IN
  /\ stage[t] = "claimed" /\ LoopIsFree
  /\ task[t].kind = "download_watch" /\ payload[t].hash = None
  /\ \/ Decide(t, "again") /\ UNCHANGED <<storeVars, payload>>
     \/ /\ payload[t].attempts + 1 >= MaxResolutionAttempts
        /\ Decide(t, "fail") /\ UNCHANGED <<storeVars, payload>>
     \/ \E h \in found :
          \/ /\ BindDownloadMonitorIdentity(t, h)
             /\ payload' = [payload EXCEPT ![t].hash = h, ![t].path = ContentPath[h]]
             /\ Decide(t, "again")
          \/ /\ ~Exclusive(t, h)
             /\ Decide(t, "fail") /\ UNCHANGED <<storeVars, payload>>
  /\ UNCHANGED <<call, file, qb, history, process>>

\* What a completed download leads to; qBittorrent may not report a path, and
\* that ends the monitor too.
FollowUps(t) == {"succeed"} \cup IF payload[t].action = "organize" THEN {"spawn"} ELSE {}

\* A found torrent that is still incomplete is polled again, or, in mode
\* "once", ends the monitor.  One missing answer fails it: no misses are
\* counted.
PollTorrent(t) ==
  LET h == payload[t].hash IN
  /\ stage[t] = "claimed" /\ LoopIsFree
  /\ task[t].kind = "download_watch" /\ h # None
  /\ \/ Decide(t, "retry")
     \/ Decide(t, "fail")
     \/ /\ torrent[h] = "downloading"
        /\ Decide(t, "again") \/ Decide(t, "succeed")
     \/ /\ torrent[h] = "complete"
        /\ \E o \in FollowUps(t) : Decide(t, o)
  /\ UNCHANGED <<storeVars, payload, call, file, qb, history, process>>

\* Fault: the child has no dedupe key.
SpawnOrganizeEachTime(t) ==
  /\ stage[t] = "spawn"
  /\ Decide(t, "succeed")
  /\ \E c \in Tasks :
       /\ Fresh(c)
       /\ Enqueue(c, "organize_download", "null", t, None, None)
       /\ payload' = [payload EXCEPT ![c] =
            NewPayload(None, payload[t].hash, payload[t].path, payload[t].snapshot)]
  /\ UNCHANGED <<call, file, qb, history, process>>

\* Fault: the child gets the policy in force now in place of the snapshot.
SpawnOrganizeAsAllowedNow(t) ==
  LET h == payload[t].hash IN
  /\ stage[t] = "spawn"
  /\ Decide(t, "succeed")
  /\ \/ Found(h) # {} /\ UNCHANGED <<storeVars, payload>>
     \/ \E c \in Tasks :
          /\ Fresh(c)
          /\ Enqueue(c, "organize_download", "null", t, h, None)
          /\ payload' = [payload EXCEPT ![c] =
               NewPayload(None, h, ContentPath[h], Load)]
  /\ UNCHANGED <<call, file, qb, history, process>>

\* The child inherits the snapshot.  A task with the same dedupe key, whatever
\* its status, takes the place of the child.
SpawnOrganize(t) ==
  LET h == payload[t].hash IN
  /\ stage[t] = "spawn"
  /\ Decide(t, "succeed")
  /\ \/ Found(h) # {} /\ UNCHANGED <<storeVars, payload>>
     \/ \E c \in Tasks :
          /\ Fresh(c)
          /\ Enqueue(c, "organize_download", "null", t, h, None)
          /\ payload' = [payload EXCEPT ![c] =
               NewPayload(None, h, ContentPath[h], payload[t].snapshot)]
  /\ UNCHANGED <<call, file, qb, history, process>>

\* The snapshot allows the move, and so does the policy p, to the same place.
Allows(p, own, path) ==
  /\ p.allowed
  /\ path \in own.sources \cap p.sources
  /\ p.dest = own.dest

\* The snapshot and the policy of this moment must both allow the move: this
\* is the last look at the settings.
Authorizes(t) ==
  payload[t].snapshot # None /\ Allows(Load, payload[t].snapshot, payload[t].path)

\* What a task's run has seen of the settings is of no use after it.
Decided(t, o) ==
  /\ Decide(t, o)
  /\ inForce' = IF o = "moving" THEN inForce ELSE [inForce EXCEPT ![t] = {}]

Organize(t) ==
  /\ stage[t] = "claimed" /\ LoopIsFree
  /\ task[t].kind = "organize_download"
  /\ Decided(t, IF Authorizes(t) THEN "moving" ELSE "fail")
  /\ UNCHANGED <<storeVars, payload, call, file, qb, adds, granted, process>>

\* The thread's agent moves files, some time after the check and beside
\* whatever else goes on.
MoveFiles(t) ==
  /\ stage[t] = "moving"
  /\ Decide(t, "moved")
  /\ UNCHANGED <<storeVars, payload, call, file, qb, history, process>>

\* The thread's agent reports success, failure or an error; files may have
\* been moved in each case.
OrganizeReturns(t) ==
  /\ stage[t] \in {"moving", "moved"} /\ LoopIsFree
  /\ \E o \in {"succeed", "retry"} : Decided(t, o)
  /\ UNCHANGED <<storeVars, payload, call, file, qb, adds, granted, process>>

WillRetry(t) == task[t].failures + 1 < MaxFailures

\* A resolution attempt is counted in the payload.
StoreReschedule(t) ==
  /\ \/ /\ stage[t] = "again"
        /\ Reschedule(t, task[t].failures)
        /\ payload' = [payload EXCEPT ![t].attempts =
                         IF payload[t].hash = None /\ @ < MaxResolutionAttempts
                         THEN @ + 1 ELSE @]
     \/ /\ stage[t] = "retry" /\ WillRetry(t)
        /\ Reschedule(t, task[t].failures + 1)
        /\ UNCHANGED payload
  /\ Decide(t, "none")
  /\ UNCHANGED <<call, file, qb, history, process>>

StoreFinish(t) ==
  /\ \/ stage[t] = "succeed" /\ Finish(t, "succeeded", task[t].failures, FALSE)
     \/ /\ stage[t] = "fail" \/ (stage[t] = "retry" /\ ~WillRetry(t))
        /\ Finish(t, "failed", task[t].failures + 1, FALSE)
  /\ Decide(t, "none")
  /\ Forget(t)
  /\ UNCHANGED <<call, file, qb, history, process>>

Purge ==
  /\ up /\ PurgeTerminalTasks
  /\ adds' = [t \in Tasks |-> IF t \in Purgeable THEN 0 ELSE adds[t]]
  /\ granted' = [t \in Tasks |-> IF t \in Purgeable THEN {} ELSE granted[t]]
  /\ UNCHANGED <<payload, stage, call, file, qb, inForce, process>>

-----------------------------------------------------------------------------
(* Crash and restart, qBittorrent's own life, and the clock.               *)

Crash ==
  /\ up /\ crashes < MaxCrashes
  /\ up' = FALSE /\ crashes' = crashes + 1
  /\ stage' = [t \in Tasks |-> "none"]
  /\ call' = [c \in Calls |-> IdleCall]
  /\ inForce' = [t \in Tasks |-> {}]
  /\ UNCHANGED <<storeVars, payload, file, qb, adds, granted>>

StaleInitializing ==
  {t \in Tasks : Status(t) = "initializing" /\ task[t].old}

\* Stale reservations are failed before anything else runs: of the newest 50
\* rows, and not of a row whose update fails.
Restart ==
  /\ ~up
  /\ \/ /\ \E t \in StaleInitializing : FailInitialization(t) /\ Forget(t)
        /\ UNCHANGED up
     \/ up' = TRUE /\ UNCHANGED <<storeVars, payload>>
  /\ UNCHANGED <<stage, call, file, qb, history, crashes>>

\* A torrent added without a monitor, by completion_action "none" or in
\* qBittorrent itself, progresses, and may be removed there.
TorrentChanges(h) ==
  /\ \/ /\ torrent[h] = "absent"
        /\ QbAdds(h, {})
     \/ /\ torrent[h] = "downloading"
        /\ torrent' = [torrent EXCEPT ![h] = "complete"]
        /\ UNCHANGED tagged
     \/ /\ torrent[h] # "absent"
        /\ torrent' = [torrent EXCEPT ![h] = "absent"]
        /\ tagged' = [tagged EXCEPT ![h] = {}]
  /\ UNCHANGED <<storeVars, payload, stage, call, file, history, process>>

Clock(t) ==
  /\ BecomeDue(t) \/ GrowOld(t)
  /\ UNCHANGED <<payload, stage, call, file, qb, history, process>>

-----------------------------------------------------------------------------

ToolCall(c) ==
  \/ SubmitDownload(c) \/ SubmitToQb(c)
  \/ ActivateReservation(c) \/ DropReservation(c)

Handler(t) ==
  \/ ResolveHash(t) \/ PollTorrent(t) \/ SpawnOrganize(t)
  \/ Organize(t) \/ MoveFiles(t) \/ OrganizeReturns(t)
  \/ StoreReschedule(t) \/ StoreFinish(t)

Next ==
  \/ Claim \/ Purge \/ Crash \/ Restart \/ SavePolicy
  \/ \E c \in Calls : ToolCall(c)
  \/ \E t \in Tasks : \/ CreateMonitor(t) \/ UpdateMonitor(t) \/ Cancel(t)
                      \/ Handler(t) \/ Clock(t)
  \/ \E h \in Hashes : TorrentChanges(h)

Spec == Init /\ [][Next]_vars

-----------------------------------------------------------------------------
(* Safety.                                                                 *)

Watching(t, h) ==
  Active(t) /\ task[t].kind = "download_watch" /\ payload[t].hash = h

\* A torrent has one monitor at most, whether its hash was known when the
\* monitor was created, came with qBittorrent's answer or was resolved later:
\* a monitor that knows its torrent holds the exclusive key.
OneMonitorPerTorrent ==
  \A h \in Hashes, t, u \in Tasks :
    Watching(t, h) => /\ task[t].exclusive = h
                      /\ Watching(u, h) => t = u

\* An approved submission reaches qBittorrent once, however often the approval
\* is executed again while its task is kept: after an exception, a crash, or
\* beside an execution still going on.
SubmittedOnce ==
  /\ \A t \in Tasks : adds[t] <= 1
  /\ \A t, u \in Tasks :
       /\ adds[t] = 1 /\ adds[u] = 1
       /\ task[t].dedupe # None /\ task[t].dedupe = task[u].dedupe
       => t = u

\* Two threads never move the files of one torrent.
OneOrganizerPerTorrent ==
  \A t, u \in Tasks :
    /\ stage[t] \in {"moving", "moved"} /\ stage[u] \in {"moving", "moved"}
    /\ payload[t].hash = payload[u].hash
    => t = u

\* Files move from where, and to where, a policy allowed when the user asked
\* the monitor of their torrent to organize them, and a whole settings file of
\* this run of the task allowed it again: however the settings were changed,
\* the monitor updated and its task repeated in between, a policy that is
\* wider now gives nothing the user's did not, and one withdrawn before the
\* run gives nothing at all.  (One withdrawn after the check does not stop the
\* thread.)
MovesAreAuthorized ==
  \A t \in Tasks : stage[t] = "moved" =>
    LET own == payload[t].snapshot IN
    /\ own \in granted[task[t].parent]
    /\ \E p \in inForce[t] : Allows(p, own, ContentPath[payload[t].hash])

-----------------------------------------------------------------------------
(* What documentation says and the code does not do.                       *)

\* download_watch.py:807: the event of a spawn says that the torrent is
\* complete and about to be organized automatically.
AnnouncedIsOrganized ==
  [][\A t \in Tasks :
       stage[t] = "spawn" /\ stage[t]' = "succeed" =>
         \E c \in Tasks : /\ task'[c].kind = "organize_download"
                          /\ task'[c].dedupe = payload[t].hash
                          /\ task'[c].status \in ActiveStatuses \cup {"succeeded"}]_vars

=============================================================================
