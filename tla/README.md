# NasClawBot: models, checks and proofs

NasClawBot is a home media assistant: a tool-calling language-model agent behind
a FastAPI service that searches trackers, submits downloads to qBittorrent,
watches them with persistent background tasks and organizes the finished files.
Answers of the model are unpredictable, so what must be right is what the
program does around it: which tool calls wait for the user's approval, what
happens when a turn dies half way, and how tasks that live for days survive
everything that happens to them. This directory holds TLA+ models of those
parts, their TLC runs and their machine-checked proofs. Paths below are relative
to the repository, `src/` left out.

## 1. Inventory

| Component | State | Operations | Talks to | What is hard | What makes it correct |
| --- | --- | --- | --- | --- | --- |
| Runtime task store `app/runtime/store.py`, `app/storage/db.py` | SQLite tables of tasks, runs, events | one `BEGIN IMMEDIATE` transaction per method | worker, routes, tools | callers on many threads between two calls of a worker | keys unique, legal status moves, references intact, leases exact |
| Worker and runtime `app/runtime/worker.py`, `app/task_runtime.py` | coroutines, semaphores | tick, claim, run handler, apply outcome, start, stop | store, handlers | crash or shutdown between any two calls, two semaphores | claimed tasks end, ends announced once, limits kept |
| Task handlers `app/runtime/handlers/` | task payloads | resolve a hash, poll, spawn, organize | qBittorrent, organize worker, policy file | days pass between two steps | one monitor and one organizer per torrent, authorized moves only |
| Download automation `app/services/download_*.py` | reservations | submit, activate, create or update a monitor | M-Team, qBittorrent, store | lost answers, repeated approvals | one submission per approval |
| Organization policy `app/services/organization_policy_store.py` | a JSON file, rewritten in place | load, save | handlers, tools, route | read while it is written | an unreadable policy allows nothing |
| Approval session `app/agent/runner.py`, `app/agent/approvals.py`, `app/domain/authorization.py` | checkpoint file, session lock, session grants | run, approve, deny, compact, rename, delete | loop, tools, inbox, stores | exceptions between effect and save, unlocked writers, expiry | an approval acts once, decisions stand and are true, grants bound |
| Tool-calling loop `hello_agents/loop/tool_calling_loop.py` | messages of the turn, plan of a round | plan, refuse, execute, pause, resume, replan, finalize | model, registry, gate, history | several calls in a round, one of them paused for days | every call has its result, in order and true; turns end |
| Gate and filter `hello_agents/tools/gate.py`, `filter.py` | rule tables | check | loop | rules that depend on state, over a batch | side effects are asked for, moves follow the rules |
| Registry, circuit breaker `hello_agents/tools/` | failure counts, open times | execute, open, close lazily | loop | counts and time-outs | a failing tool rests, then is tried again |
| Context window, history `hello_agents/context/` | history, archives | compress, restore | loop, agent | cuts between a call and its result | nothing said is lost, doubled or moved |
| Base agent and presets `hello_agents/core/agent.py`, `hello_agents/agents/` | history, token count, session files, a turn | run, arun, arun_stream, run_as_subagent, save, load | model, tools, consumer of a stream | calls executed together, failing models, interrupts, subtasks | every call answered, events in order, the promised answer, no round and no tool lost over subtasks |
| Member memory, curator `app/services/markdown_memory_store.py`, `curator.py`, `app/api/memory_routes.py` | an inbox and documents in Markdown | remember, suggest, apply | tools, routes | files emptied before they are written, applications beside appends and beside each other, crashes in between | which notes can be lost, and no other |
| Experience authentication `app/services/experience_auth.py` | failed logins, sessions in memory and on disk | log in, validate, log out | routes | windows, expiry, failed saves, restarts | limited failures in every window since a success or a start, logged out is out |
| Event inbox (the store's events) | times of creation, injection, acknowledgement | create, list, inject, acknowledge, purge | worker, runner, routes | all of them between two pages of a list | told at least once, lists complete |
| Organize worker `app/agent/organize_worker.py` | an attempt: batch, skill, observations | think, act, report | MCP pool, model, handler | late calls, several attempts, a gate over a batch | moves follow the rules, what counts as a move was handled |
| MCP pool `app/mcp_pool.py`, `hello_agents/tools/mcp/` | calls on their way, answers | connect, call, wait, stop | file server | waits that end before the call does | an answer belongs to its call |
| Adapters `app/adapters/`, LLM `hello_agents/core/llm*.py` | | requests | outside services | time-outs | errors are told from empty answers |
| Traces, settings, frontend, evaluations | none that others rely on | display, logging, scoring | | | |

How they interact. A message (HTTP thread) takes the lock of its session, loads
the checkpoint and runs the loop; the loop stops at the first tool call that
needs approval and the checkpoint keeps it. The decision arrives as another
request, possibly much later, runs the tool, resumes the loop and saves. The
tools `qb_add_torrent` and `monitor_download` reserve or create tasks in the
store. The worker, one asyncio loop in its own thread, claims due tasks and runs
their handlers; the organize handler runs an agent of its own whose file tools
go through the MCP pool to a server process. Ends of tasks are written as
events, which the next turn of the session is told of and the user may list.

## 2. Modules

| Module | Models | Composed from |
| --- | --- | --- |
| `TaskStatus` | the status enum, its transition table | |
| `TaskLifecycle` | abstract: every task moves by that table, nothing else | `TaskStatus` |
| `RuntimeTaskStore` | the tasks table; one action per store method | `TaskStatus`, instance of `TaskLifecycle` |
| `TaskWorker` | worker, runtime, routes, clock, shutdown and crash | `RuntimeTaskStore` |
| `DownloadPipeline` | submissions, monitors, handlers, policy file, qBittorrent | `RuntimeTaskStore` |
| `ApprovalSession` | one conversation as its requests see it: checkpoint, lock, grant, inbox | |
| `ToolLoop` | the same conversation message by message: loop, gate, breaker, window, checkpoint | |
| `AgentSession` | base agent between turns: history, compression, session files, subtasks | |
| `AgentRun` | a turn of any agent: calls, events, ends | `AgentSession` |
| `ReActAgent`, `PresetAgents` | the four classes of agents | `AgentRun` |
| `TeachingAgents` | an agent of any class over its life | `ReActAgent`, `PresetAgents` |
| `ExperienceAuth`, `MemberMemory`, `EventInbox` | logins, notes, announcements | |
| `McpPool`, `OrganizeWorker` | file calls, and the agent that makes them | `OrganizeWorker` extends `McpPool` |
| `Services` | the four services above, one per behaviour | those modules |
| `MCTaskWorker`, `MCDownloadPipeline`, `MCApprovalSession` | instances: symmetry sets, limits, policies | |
| `Positions` | the elements of a list a test selects, in order | used by `ToolLoop`, `MemberMemory`, `ExperienceAuth`, `AgentSession` |
| `RuntimeTaskStoreProofs`, `TaskWorkerProofs`, `DownloadPipelineProofs`, `ApprovalSessionProofs`, `ToolLoopProofs`, `ServicesProofs`, `PositionProofs`, `TeachingAgentsProofs` | theorems | the module they name |

### RuntimeTaskStore
`task[t]` is a row with the columns that decide something: status, kind,
run_after as `null`, `past` or `future`, lease, parent, dedupe and exclusive
key, failure count, and whether retention has passed. `ahead` is the order in
which a claim takes due rows. Each method is one action, because each runs in
one write transaction. Two details that matter: a claim takes at most
`ClaimLimit` rows, those without `run_after` first; and the purge is one DELETE
whose foreign key can refuse the whole batch.

### TaskWorker
`pc[t]` is where the coroutine of a claimed task stands, `loop` who has the
event loop. It changes hands only where the code awaits: semaphores and the
thread of an organize handler. The store calls of other threads come in between
any two store calls of a coroutine, which is why the end of a task is four
actions (children, events, finish, run row). `Stop`, `ExitLoop`, `CancelAll` and
`ProcessEnds` follow `TaskRuntime.stop` and the end of `asyncio.run`; `Crash`
may come between any two actions, and a store call may fail (`LoseOutcome`,
`Refused`). A start of the process reconciles stale INITIALIZING rows, and the
worker starts whatever is left of them: only the newest 50 rows are read, and a
failed update is logged and passed over. `Endings` and `Requests` bound what
handlers return and routes ask in a run; the proofs hold for any of them.

### DownloadPipeline
`payload[t]` is what the payload column says (torrent, action, snapshot,
attempts), `stage[t]` the position of the coroutine, `call[c]` the submission a
thread is executing. `file` is the policy file, `None` while it is half written.
qBittorrent is external: `torrent` and `tagged`, changed also behind the
program's back. Answers may be lost or late. The organize handler looks at the
settings once (`Organize`) and then awaits a thread, whose agent moves files at
any later time (`MoveFiles`) while the settings are rewritten; nothing stops
it. `granted` and `inForce` are history: the policies users had when they asked
for a monitor, and the whole settings files there were since the task was
claimed. `Restart` may leave stale reservations, as in `TaskWorker`.

### ApprovalSession
`file` is the checkpoint on disk: pending approval, paused loop, decisions, use
of the active grant. `calls[c]` is what a server thread works on, with the copy
it loaded. `lock` is held by run, approve and deny from load to save; compact
and rename load and save without it, and delete just deletes. The language model
is the free choice of the next action: plan a round under the grant, pause at a
question, answer, or raise. `executed`, `cut`, `consents`, `items` and `told`
are history: they say what happened in the world, and no action reads them
except to count. In `Execute` the tool's effect is one step before the save,
as in the code; `ExecuteWithoutGrant` is the exception raised when settings
change while the tool runs.

### ToolLoop
`messages` is what the model is sent, `history` and `archive` what the agent
keeps, `plan` the calls of the round that are still to be done, each with the
verdict of the gate, `saved` the checkpoint. A step is one call of the model or
one call of a tool. The model's answer is a free choice: an answer, any round of
up to `MaxRound` calls, or an exception (`Raise`), after which the checkpoint is
still the one before. `Pause` ends the turn with the question in the checkpoint;
`Resume` begins with the result of the decided call and reports the others as
skipped; a second question in a resumed turn makes the model plan again
(`Replan`). `Compress` follows the window manager, over a threshold that is a
free choice; `Expire` and `Compact` change the checkpoint between turns. A
message has an identity instead of a text, and a result says what it reports:
that is what the properties tell apart. `CallIdsAreUnique` is an assumption
about the provider (the comment at `Fresh`): the code takes the ids of the calls
as the model gives them and never compares them. A provider that numbers the
calls of each response anew would make `Expire`, which goes by ids
(`app/agent/runner.py:1279`), drop finished rounds as well; nothing here covers
that.

### AgentSession, AgentRun, ReActAgent, PresetAgents, TeachingAgents
`history` with its cached count `counted`, the session `files` (two names: the
automatic one and another) and `caller`, what `run_as_subagent` put aside, are
the state between turns. `pc` walks through a turn: `round` are the calls of the
last response, each with a tool and arguments that parse or not, `done` those
that have a result, in the order the results came, `busy` those under way
together. `events` is what the consumer of a stream saw. ReActAgent executes
calls in order in `run` and together in `arun` and `arun_stream`; the other
classes are fixed sequences of requests, each with its own tool iterations.
`SessionOperation` saves, loads, clears or restarts between turns; `Interrupt`
is a keyboard interrupt or a consumer that goes away. After a subtask the
`finally` of `run_as_subagent` collects metadata and a summary before it puts
anything back: either it gets to the end (`Return`) or an exception or a second
interrupt in that part skips the rest (`ReturnCutShort`), and the agent goes on
with the history of the subtask, its step limit and the tools its filter left.
An interrupt between two of the restoring statements themselves is not modelled.

### Services
The four services share no variable, so a product of them has no behaviour that
one of them alone has not; `Services` therefore lets each behaviour be one of
them. In `ExperienceAuth` the sessions on disk (`stored`) differ from those in
memory (`persistent`) exactly after a failed save. In `MemberMemory` a request
for curation reads the inbox, carries out its decisions one by one and rewrites
the inbox from what it read. Every file is rewritten in place: a document is
read, emptied and written in three actions (`ReadDocument`, `EmptyDocument`,
`WriteDocument`), the inbox is emptied and written in two (`EmptyInbox`,
`RewriteInbox`), and readers, other requests and `CutOff` come in between. A
`keep` whose text the user has emptied drops its note (`Pass`), as a discard
does. `exposed` are the notes of which the code takes no care: those of an inbox that
was decided on by the page of another one of the same length, those that came
into a file between its reading and its writing, and those in the hand of a
request that is cut off between emptying and writing. `EventInbox` has a reader
who goes through pages by `created_at`; the worker dates an event with the time
it read before the task ran, so one may appear below others. In
`OrganizeWorker` the gate judges a batch when it is planned, `RequestMove` sends
a call into `McpPool`, and its wait may end before the server has come to it
(`MoveUnanswered`); the server serves, refuses or ends whenever it likes.

## 3. Runs

| Run | Instance | Shows |
| --- | --- | --- |
| `task_worker` | 2 tasks, 1 dedupe key, 1 exclusive key, 2 failures, 1 shutdown, crash or store error | `KeysUnique`, `ParentsPresent`, `InFlightIsRunning`, `EndsAreAnnounced`, `RunsAgree`, and that the whole implements `TaskLifecycle` (`LifecycleSpec`) |
| `task_worker_wide` | 3 tasks, 1 per claim, 2 + 1 permits under a global limit of 1; handlers complete or spawn | `HandlersWithinLimits`, `TerminalIsPurged` |
| `task_worker_live` | 2 tasks, 1 per claim | `DueIsClaimed`, `ClaimsEnd` |
| `download_pipeline` | 2 tasks, 2 threads, 1 torrent, 1 crash | `OneMonitorPerTorrent`, `SubmittedOnce` |
| `organize_download` | 4 tasks, two monitors of one torrent in turn, 3 policies | `OneOrganizerPerTorrent`, `MovesAreAuthorized` |
| `approval_session` | 2 threads, 2 approvals, 1 announcement, grant of 1 item, 1 fault, 1 overwrite | `PendingHasItsLoop`, `ExecutedOnceButForFaults`, `DecisionsAreTrue`, `DecisionsStand`, `ItemsWithinGrants`, `InjectedEventsWereTold` |
| `tool_loop` | 7 messages and calls, rounds of 2, 2 steps, 4 tools: visible, hidden, denied, confirmed | `ModelInputIsWellFormed`, `CheckpointIsResumable`, `ReportsAreTrue`, `RestsAfterFailures`, `TranscriptOnlyGrows`, `TurnsEnd` |
| `teaching_agents` | 4 classes, 2 turns, rounds of 2, 2 steps, plans of 2, a window of 3 messages | `EveryCallAnswered`, `EventsWellFormed`, `AnswersAreFinal`, `RecentRoundsKept`, `NoToolIsLost`, `TurnEnds` |
| `services` | 2 clients, 2 tokens, windows of 2; 2 notes, 2 requests, 1 document; 2 events, pages of 1; 2 files, 2 attempts, batches of 2 | `FailuresAreLimited`, `LoggedOutStaysOut`, `NotesAreKept`, `PagesShowAll`, `MovesFollowRules`, `CountedAreSettled` |
| `worker_restart`, `organize_announced`, `denied_executed` | small | a documented statement the code does not keep, see section 5 |

The type invariants of `TaskWorker` and `ApprovalSession` are checked with them,
since proofs rest on them. Deadlock is not checked: each system may come to
rest, with no task left to create, no message left to send, no fault left to
spend, or the process down.

Why the bounds are enough. Conflicts in the store are between two rows (the same
key, parent and child), so two tasks show them; a family that blocks the purge
of another row needs three, and two monitors of one torrent with their organize
tasks four. In `task_worker_wide` nothing is asked of the routes and every task
completes or spawns, because what matters there is who holds which permit, and
who is old when, and in whose batch. A limit shows with one more task than
permits. In `organize_download` a failed task is not tried again; that a second
run of it needs a settings file of its own is left to the proof of
`OnlyAuthorizedMoves`. The
session's conflicts are between the one holder of the lock and one writer
without it; a second approval shows that decisions do not mix, and one fault
plus one overwrite show each way an execution can be lost. Grants are exceeded,
if ever, at the first item over the limit, so a limit of one will do. Seven
identities in `tool_loop` are a question, a round of two calls, its answer,
another question and round: enough to pause, resume, replan, expire and compress
a conversation with a finished round before it. Two turns of a teaching agent
with one retained round are four messages over a window of three, so that the
second compresses the first, at its answer or, with the count that loading a
session leaves behind, at its question, and lets a turn or a second subtask follow a subtask that was cut short; no property speaks of the
step limit of a subtask, which is that of the agent in this run. Rounds of two
calls show results that come in either order. Two failures in a
window of two and four units of time slide the window past a failure while the
other counts. Two notes are one that is decided and one that arrives meanwhile,
or one in the file and one in hand; two requests overwrite each other's file,
and a second document would be a second file with the same steps. Two events
with pages of one make every page a boundary; two attempts let a late
call of the first meet the second. `MaxInterruptions`, `MaxCrashes`, `MaxFaults`
and `MaxOverwrites` bound the number of faults in a behaviour, `MaxIds`,
`MaxTurns`, `MaxTime`, `LastTime`, `MaxRound`, `MaxPlan` and `MaxBatch` its
length and the model's answers; `MaxFailures`, `MaxItems`, `MaxSteps`,
`PageSize` and `ClaimLimit` are limits of the code, made small. Symmetry is used
for safety runs only, over values that no definition tells apart.

Fairness (`TaskWorker!FairSpec`). asyncio runs callbacks in the order they
became ready, so the tick and every coroutine get the loop again and again:
strong fairness for the coroutine's steps and the purge of a tick, whose enabling comes and goes
with the loop, weak fairness for the rest of the tick. Semaphores of asyncio are
first come, first served, which `waitFor` models. Handler threads end, since
every adapter has a time-out, the clock advances, and the service manager starts
a service that went down. Nothing is assumed of users, shutdowns, or crashes.
`DueIsClaimed` also assumes that new rows stop coming: a claim takes rows
without `run_after` first, so an endless stream of new rows does starve the
others. `TerminalIsPurged` assumes the same: a batch of the purge fails as long
as it has a parent with a young terminal child, and families that keep ending
may keep it failing.

Fairness of turns (`ToolLoop!FairSpec`, `TeachingAgents!FairSpec`). A turn runs
to its end in one thread or coroutine, and every call of a tool or of the model
has a time-out, so some step of the turn is always taken: weak fairness of
`TurnStep`. Which answer the model gives is never assumed, nor that the user
decides, sends another message or reads a stream to its end.

## 4. Theorems

Checked by TLAPS for any tasks, keys, threads, approvals and bounds; the
assumptions are the `ASSUME`s of the modules (limits are positive numbers,
`None` and the labels differ from the values beside them), evaluated by TLC in
every run.

* `TaskWorkerProofs`: `TypeCorrect`, `InFlightStaysRunning`, `KeysStayUnique`,
  `LeasesAreHeldWhileRunning`, `ParentsStayPresent`, `WorkerImplementsLifecycle`.
  `RuntimeTaskStoreProofs` has one lemma per store method: it keeps `StoreInv`
  and moves statuses as `TaskLifecycle` allows. `StoreInv` adds to the checked
  invariants that an id without a row is blank: otherwise a deleted row could
  still own a key, and insertion would not preserve `KeysUnique`. The worker's
  `Inv` adds that whatever is in flight is RUNNING, which is what makes the
  worker's unconditional `reschedule` and `finish` legal moves: no route changes
  a RUNNING row. Refinement follows step by step from the lemmas. Its second half
  proves `EndsAreAlwaysAnnounced`, `RunsAlwaysAgree` and
  `HandlersStayWithinLimits`. A coroutine ends a task in four store calls, so the
  invariant `Ending` follows one task through them: until the first of them
  nothing is announced and no outcome is known; before `finish` the event of an
  outcome is there unless it was refused; before the run row is closed the task
  has the status of its verdict. What others do meanwhile leaves the row alone
  unless no coroutine has it (`Aside`). `Limits` counts the holders of each
  semaphore; they are finite although `Tasks` may not be.
* `DownloadPipelineProofs`: `OneMonitor`, `OneSubmission`, `OneOrganizer`,
  `OnlyAuthorizedMoves`, `PipelineImplementsLifecycle`. `PipelineInv` is `StoreInv`
  with what ties a payload to its row: an active monitor that knows its torrent
  holds the torrent's exclusive key, an active organize task the torrent's dedupe
  key and path (`Keyed`); a coroutine's task is RUNNING and of its kind
  (`Staged`); a row has at most one submission, and an id without a row none
  (`Added`); a call under way owns an INITIALIZING row that nobody else has
  (`CallOK`, `CallsApart`). The three uniqueness properties then are the
  uniqueness of keys. `OnlyAuthorizedMoves` relates what is moved to what was
  true earlier, at the request and at the check. `AuthorizedInv` carries it from
  row to row: the snapshot of a monitor, and of a coroutine about to spawn, was
  granted to it; that of an organize task was granted to its parent, which
  retention keeps as long as the child is active; and a task past its check has
  a settings file of its run that allowed the move (`Backed`).
* `ApprovalSessionProofs`: `TypeCorrect`, `LoopIsKept`, `OnceButForFaults`,
  `NoAnnouncementIsLost`. The inductive invariant is `TypeOK /\ Order /\ Counted`.
  `Order`: the lock is held exactly by the call that runs, approves or denies;
  checkpoints on disk and in memory hold the loop of their pending approval;
  every approval anywhere was asked for, and one not asked for was never
  executed; calls have the fields their phase needs, and what a call told or
  counted is in the history. Types alone are not inductive: a decision without
  an outcome, or a counter below what a dying call takes back, would break them.
  `Counted`: `executed[a] <= 1 + cut[a] + overwrites` is not inductive either.
  The missing half is `EarlierExecutionsWereLost`: while a decision can still
  execute the tool and nobody who has done so is under way, every earlier
  execution was cut off or overwritten. One execution then adds at most one, and
  the end of that call either saves, so that the approval is no longer pending,
  or is counted as cut. `OneIsBusy` says why nobody else executes in between.
* On top of that invariant, in the same module: `DecisionsAlwaysStand`,
  `DecisionsTellTheTruth`, `GrantsAreNotExceeded`, by three invariants added one
  after the other. `Standing`: nothing pending is decided, in the file or in any
  copy, and the copy of the lock's holder has the decisions and the pending
  approval of the file, unless an older copy was saved; so what the holder saves
  adds its own decision and drops none. `Truth`: what a checkpoint says agrees
  with what was executed, and so does the outcome a call is about to record,
  which needs the approval a call still has to decide not to have been executed
  without a loss. `Grants`: downloads plus what the grant still allows are
  covered by the consents, counted with the holder's copy (if it saves) and with
  the file less the holder's own downloads (if its share is lost).
* `ToolLoopProofs`: `ModelIsSentWellFormed`, `CheckpointsAreResumable`,
  `ReportsStayTrue`, `BreakerRests` and, for every step, `NothingSaidIsLost`.
  A conversation in the middle of a round is not well-formed, so the invariant
  says it would be with the results of the calls still planned (`RoundsInv`,
  `Awaited`); compression keeps it because the boundary it keeps from is a user's
  message, before which every round is closed. `ReportsAreTrue` needs that a call
  still planned or still paused was neither executed nor reported (`PlanInv`,
  `PausedInv`), and that a turn forgets none of the executed calls of its
  checkpoint (`KnownInv`). `TranscriptOnlyGrows` follows from the invariant that
  what a turn has in archive and history is what was saved, grown at its end, or
  without the round of an expired question.
* `ServicesProofs`: `LoggedOutTokensStayOut`, `FailuresKeepTheLimit`,
  `NoNoteIsLost`, `MovesNeedTheRules`, `CountedMovesAreSettled`,
  `NothingIsSkipped`. Each rests on an invariant of one service, which the steps
  of the others leave alone. `AuthInv`: what is stored was issued, and a token
  that is not persistent is not in the file. `LimitInv`: at this or any later
  time, the failures the route still has are at least as many as the refused
  codes that count; a new one is compared only below the limit, so the windows
  it lies in hold no more than the limit, and the others are as they were. Both
  lists are empty after a success and in a new process.
  `MemoryInv`: the decisions of a request are on the entries it has read, or
  these are exposed (`Matched`), and whatever it has carried out needs the inbox
  no longer (`Carried`): it is in a document, in the hand of a request that has
  emptied one, dropped, or exposed (`Filed`). Every other note is in the inbox or
  in the hand of a request that has emptied that (`Returning`). `RunInv` and
  `RulesInv`: a run that was given the skill has the rules, and a move it is
  about to make belongs to a batch asked for with them. `SettledInv`: every call the server
  knows lies before the position of the run or is the one it waits for, and an
  answered call is no longer waiting there, so that no move happens after its
  attempt was counted. `ListInv`: what a reader is due and still listed is older than its
  cursor or shares its time with another event; that the oldest event of a page
  exists rests on the well-foundedness of the naturals.
* `PositionProofs`: the lemmas on `Nth` and `At` that these two and the next need. A list
  comprehension is a selection by positions here and not `SelectSeq`, whose
  recursion the provers cannot expand. `AtElements` says that exactly the
  elements at the positions are selected, `AtCount` how many of any part of
  them, `NthOrder` in which order. They are about lists and not about the
  program, and are listed nowhere else.

* `TeachingAgentsProofs`: `CallsAreAnswered`, `AnswersAreWhatIsPromised`,
  `EventsAreWellFormed`, `RecentRoundsAreKept` and `ToolsAreFoundAgain`. `Placed` says which class can be at which point of a
  turn; the other invariants need it to exclude steps of another class.
  `CallsInv`: a round that is executed in turn has a beginning of `Order`
  handled; one executed in groups has a beginning of it either handled or under
  way, as sets, because the results of a group come in any order. Both, with
  `Order` being a permutation of the calls (`Regrouped`), give the one result of
  each call. `FinishInv` adds that no call handled so far finishes the turn, and
  `WorkInv` which requests were answered: a plan is never longer than what it
  may still ask, the first work of a reflection is an execution, and an answer
  is the last one. `EventsInv` holds the shape of the events together with
  whether a step is open, which depends on the point of the turn (`Stream`);
  the checked property alone does not say that, and would not survive the next
  event. `HistoryInv`: the history agrees with the conversation from where the
  last rounds begin, and so does what `run_as_subagent` put aside; a saved
  session only has to be a history, since loading one makes it the conversation.
  A history has a summary only in front, before a user's message (`IsHistory`),
  so that compressing a compressed one loses no round. When the end of a subtask
  is cut short, the history of the subtask becomes the conversation, for which
  the invariant has to hold of it as well. It needs that the value for "no
  caller" is no state of an agent (`CallerAssumption`). `ToolsAreFoundAgain` is
  inductive as it stands: what a filter takes from the registry is added to what
  is put aside already.

Only model-checked: liveness (`DueIsClaimed`, `ClaimsEnd`, `TerminalIsPurged`,
`TurnsEnd`, `TurnEnds`), which is out of the prover's reach, as is ENABLED; and
the properties that runs refute. Every invariant and action property of a
passing run is proved.

## 5. Where code and documentation differ

Three are counterexamples of runs:

* `worker_restart`: a task RUNNING when the process died is never executed again
  (README, line 49): claims take queued and waiting rows only, and no lease is
  ever examined.
* `organize_announced`: a monitor announces an organization that an earlier
  cancelled or failed organize task of the torrent keeps from being created.
* `denied_executed`: a tool call that took effect can be denied afterwards, when
  the model raised between the effect and the save (`app/api/chat_routes.py:527`).

The passing properties name the same exceptions: `ExecutedOnceButForFaults` and
`DecisionsAreTrue` allow what `cut` and `overwrites` count. For download and
monitor requests the store's dedupe keys absorb a repeated execution
(`SubmittedOnce`); cancelling, controlling and MCP writes have no such key.

Others were met while the models were written. They have no run of their own;
where the difference is inside a model, the model follows the code, with the
abstractions section 6 names:

* `run()` of the worker says it waits for handlers in flight
  (`app/runtime/worker.py:123`) and leaves its loop without them (`:140`).
* `max_failure_attempts` is called consecutive
  (`app/domain/runtime_tasks.py:206`), but a `Reschedule` keeps the count
  (`app/runtime/worker.py:384`).
* `CONSECUTIVE_MISSES_THRESHOLD` (`app/runtime/handlers/download_watch.py:46`)
  is three and unused: the first missing answer fails a monitor (`:460`).
* `moved_count` is called the number of files moved
  (`app/agent/organize_worker.py:87`). It counts successful calls, and
  `McpBridgeTool` makes a success of every result, also of one with `isError`
  (`hello_agents/tools/mcp/bridge.py:112`); a call that outlives its wait counts
  as failed and is executed all the same. `CountedAreSettled` says what does hold.
* The gate of the organizer is compared with `"DENY"` where the loop says
  `"deny"` (`app/agent/organize_worker.py:459`), and `OperationJournal` has no
  caller.
* A note that arrives while decisions are applied is overwritten by the rebuilt
  inbox (`app/api/memory_routes.py:150`), and a process that ends while a file
  is rewritten in place leaves it empty (`app/api/memory_routes.py:159`,
  `app/services/markdown_memory_store.py:157`): notes are lost, and `NotesAreKept`
  says that these are the only ways. A `keep` with an empty text is counted as a
  discard.
* Failed logins are limited since the last success or start only: a right code
  clears the list (`app/services/experience_auth.py:227`), so that more wrong
  ones may follow in the same window.
* A logout whose save failed is undone by a restart: `LoggedOutStaysOut` is
  about logouts that were saved. A login that failed to save keeps its session
  in memory without telling its token.
* Events of one `created_at` at the end of a page are skipped by the next
  (`app/runtime/store.py:623`), and `total_count` is the size of the page.
* An agent that traces closes its file at the end of a turn, so that its next
  `run` or `arun` raises; `ReActStart` and `Raises` model it.
* A subtask gives the agent its history back but not its token count
  (`hello_agents/core/agent.py:979`), although the original state is said to be
  restored (`:906`) and the count to be that of the history (`:67`): a short
  history may be compressed as if it were long. `load_session` leaves the count
  behind too.
* A subtask that saves automatically overwrites the `session-auto` file of its
  caller, and an exception while its end is summed up leaves the caller with the
  subtask's history (`hello_agents/core/agent.py:972`).
* The settings are looked at once before files are moved: switching background
  organization off does not stop a thread that has started
  (`app/runtime/handlers/organize_download.py:213`).
* A session that is deleted while a turn of it runs comes back with its save
  (`Delete` may happen at any time).
* `ReflectionAgent` calls `_build_reflection_prompt`, `SimpleAgent.remove_tool`
  calls `unregister_tool`, neither of which exists; `_finalize_after_resume` has
  no caller.

## 6. Not modelled

Times of day and intervals, names, messages and wording; JSON and Markdown
parsing, a note with a line of dashes (which becomes two entries) included; a
write that the system carries out in part; legacy payloads and migrations; two writers of one temporary checkpoint
file (a save is one step); `cancel` of running tasks and `delete_task`, which
nothing calls; the tables of tool names behind the gate, whose verdicts are free
choices; subtitles, batches and tags of downloads; the to-do list, the log of
decisions, skills and the cache of file metadata, tools without effect on the
turn that calls them; reads without state (receipts, searches, listings of
tasks, statistics of traces). HTTP, LLM and MCP transports only matter by
answering, failing or hanging. The frontend displays what the server holds and
was left out, as were the evaluation harness, a separate offline program of
recordings and scores. Components without a
module are listed with the reason in `PROJECT.json`.

## 7. Plan

1. An abstract `ApprovalLifecycle` (asked, decided once) that `ApprovalSession`
   implements when nothing is overwritten, and `ToolLoop` as the detail of its
   turns.
2. `ChatClient`: request sequencing of the frontend against a session.
