--------------------------- MODULE OrganizeWorker ---------------------------
(***************************************************************************)
(* The agent that organizes a finished download                            *)
(* (app/agent/organize_worker.py), run and run again by the handler of     *)
(* organize_download tasks (app/runtime/handlers/organize_download.py),    *)
(* and the file operations it has done over McpPool.                       *)
(*                                                                         *)
(* The loop of the agent is detailed in ToolLoop: here a step of it is a   *)
(* batch of calls that the gate judges together before the first of them   *)
(* runs.  A call may fail without being sent: the tool is not registered,  *)
(* or the circuit breaker is open.                                         *)
(***************************************************************************)
EXTENDS McpPool, Sequences, SequencesExt

CONSTANTS
    WorkerSteps,     \* worker_max_steps
    MaxBatch,        \* bound: calls in an answer of the model
    OrganizeFailures \* failures after which the task fails

VARIABLES
    run,      \* the running attempt
    attempt,  \* how many attempts have been started
    verdict,  \* what became of the task
    moves     \* history: the calls that moved a file

worker == <<run, attempt, verdict, moves>>

Tools == {"skill_load", "look"} \cup Files
Batches == UNION {[1 .. n -> Tools] : n \in 1 .. MaxBatch}

NoRun == [at |-> "none", step |-> 0, batch |-> <<>>, allowed |-> <<>>,
          next |-> 1, skill |-> FALSE, informed |-> FALSE, told |-> {},
          loaded |-> FALSE, observed |-> FALSE, status |-> "none"]

WorkerInit == run = NoRun /\ attempt = 0 /\ verdict = "none" /\ moves = {}

\* The call a run makes next.
CallOf(r) == [attempt |-> attempt, step |-> r.step, nth |-> r.next,
              file |-> r.batch[r.next], informed |-> r.informed]

\* __call__ builds a fresh agent, whose gate knows of no skill.
StartRun ==
    /\ verdict = "none"
    /\ run.at = "none"
    /\ run' = [NoRun EXCEPT !.at = "thinking"]
    /\ attempt' = attempt + 1
    /\ UNCHANGED <<verdict, moves, pool>>

\* Fault: each call is judged when its turn comes.
AllowedInTurn(batch, skill) ==
    [i \in DOMAIN batch |->
        \/ batch[i] \notin Files \/ skill
        \/ \E j \in 1 .. i - 1 : batch[j] = "skill_load"]

\* The Gate of _build_agent, over a whole batch.
Allowed(batch, skill) == [i \in DOMAIN batch |-> batch[i] \notin Files \/ skill]

Think ==
    /\ run.at = "thinking"
    /\ run.step < WorkerSteps
    /\ \E b \in Batches :
         run' = [run EXCEPT !.at = "acting", !.step = @ + 1, !.batch = b,
                            !.allowed = Allowed(b, run.skill), !.next = 1,
                            !.informed = run.loaded]
    /\ UNCHANGED <<attempt, verdict, moves, pool>>

\* One observation more.
Observed(r) == [r EXCEPT !.observed = TRUE, !.next = @ + 1,
                         !.at = IF r.next = Len(r.batch) THEN "thinking" ELSE "acting"]

Acts == run.at = "acting" /\ UNCHANGED <<attempt, verdict>>

\* Denied, or failed without being sent; looking around changes nothing.
Unsent ==
    /\ Acts
    /\ run' = Observed(run)
    /\ UNCHANGED <<moves, pool>>

\* _OrganizeSkillTool.
LoadSkill ==
    /\ Acts
    /\ run.batch[run.next] = "skill_load"
    /\ run' = [Observed(run) EXCEPT !.skill = TRUE, !.loaded = TRUE]
    /\ UNCHANGED <<moves, pool>>

RequestMove ==
    /\ Acts
    /\ run.batch[run.next] \in Files
    /\ run.allowed[run.next]
    /\ run' = [run EXCEPT !.at = "waiting"]
    /\ Send(CallOf(run))
    /\ UNCHANGED moves

\* The answer is an observation, and a success counts as a move.
MoveAnswered ==
    /\ run.at = "waiting"
    /\ \E a \in answers :
         /\ a.call = CallOf(run)
         /\ run' = [Observed(run) EXCEPT !.told = IF Succeeds(a.says)
                                                  THEN @ \cup {a.call} ELSE @]
    /\ UNCHANGED <<attempt, verdict, moves, pool>>

\* Fault: a call whose answer is late is taken for a success.
MoveUnansweredCounts ==
    /\ run.at = "waiting"
    /\ run' = [Observed(run) EXCEPT !.told = @ \cup {CallOf(run)}]
    /\ UNCHANGED <<attempt, verdict, moves, pool>>

\* The wait ends with an error; the call may still be handled.
MoveUnanswered ==
    /\ run.at = "waiting"
    /\ run' = Observed(run)
    /\ UNCHANGED <<attempt, verdict, moves, pool>>

\* _extract_result.
Result(r) ==
    CASE ~ r.observed                       -> "error"
      [] r.observed /\ r.loaded /\ r.told # {} -> "success"
      [] OTHER                              -> "failed"

Ends(status) == run' = [run EXCEPT !.at = "ended", !.status = status]

\* The model answers without calls, for lack of steps if need be.
Conclude ==
    /\ run.at = "thinking"
    /\ Ends(Result(run))
    /\ UNCHANGED <<attempt, verdict, moves, pool>>

ModelRaises ==
    /\ run.at = "thinking"
    /\ Ends("error")
    /\ UNCHANGED <<attempt, verdict, moves, pool>>

\* _outcome_from_result; failures may be retried by the task worker.
Report ==
    /\ run.at = "ended"
    /\ verdict' = CASE run.status = "success"       -> "completed"
                    [] run.status # "success" /\ attempt >= OrganizeFailures -> "failed"
                    [] OTHER                        -> "none"
    /\ run' = IF verdict' = "none" THEN NoRun ELSE [run EXCEPT !.at = "reported"]
    /\ UNCHANGED <<attempt, moves, pool>>

ServeCall ==
    \E q \in sent :
        /\ Serve(q)
        /\ moves' = IF place' # place THEN moves \cup {q} ELSE moves
        /\ UNCHANGED <<run, attempt, verdict>>

WorkerNext ==
    \/ StartRun \/ Think \/ Unsent \/ LoadSkill \/ RequestMove \/ MoveAnswered
    \/ MoveUnanswered \/ Conclude \/ ModelRaises \/ Report \/ ServeCall
    \/ (ServerEnds \/ StopAll) /\ UNCHANGED worker

-----------------------------------------------------------------------------
(* Properties.                                                             *)

\* Whenever the server gets to it, it never has a call to move a file that the
\* model asked for before it had been given the organization rules, however
\* calls are batched and attempts repeated (_OrganizeSkillTool, _build_agent).
MovesFollowRules == \A q \in sent \cup moves : q.informed

\* A call that counts as a move has been handled by the server: none of the
\* moves an attempt announces is still to come, however late answers are, and
\* whenever the server or the connection ends (call_tool_sync,
\* _extract_result).  Only calls that were reported as failed may move a file
\* later, and an answer that counts may be a refusal.
CountedAreSettled ==
    \A q \in run.told : q \notin sent /\ \E a \in answers : a.call = q
=============================================================================
