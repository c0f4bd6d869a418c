---------------------------- MODULE PresetAgents ----------------------------
(***************************************************************************)
(* The agents whose turn is a fixed sequence of requests to the model:     *)
(* SimpleAgent (one), PlanSolveAgent (a plan, then one for each of its     *)
(* steps) and ReflectionAgent (an attempt, then a reflection and another   *)
(* attempt, so many times).  Each request may use tools for some           *)
(* iterations, except in the streams.                                      *)
(***************************************************************************)
EXTENDS AgentRun

CONSTANTS
    MaxToolIterations,  \* max_tool_iterations
    MaxIterations,      \* max_iterations of ReflectionAgent
    MaxPlan             \* bound: steps of a plan

ASSUME PresetAssumption ==
    /\ MaxToolIterations \in Nat \ {0}
    /\ {MaxIterations, MaxPlan} \subseteq Nat

IsPreset == cls # "react"

\* Thought and Finish are tools like any other here.
UserResponses ==
    {r \in Responses : \A k \in DOMAIN r : r[k].tool = "user"}

\* A new request, with its own messages, is put to the model.
Request ==
    /\ step' = 1
    /\ round' = <<>> /\ done' = <<>>
    /\ pc' = IF calling /\ mode # "stream" THEN "model" ELSE "last"

PresetStart ==
    /\ pc = "start" /\ IsPreset
    /\ IF cls = "plan" THEN pc' = "planning" /\ UNCHANGED <<step, round, done>>
       ELSE Request
    /\ Emits(IF mode = "stream" /\ cls # "simple"
             THEN <<"agent_start", "step_start">> ELSE <<"agent_start">>)
    /\ StandStill
    /\ UNCHANGED <<mode, busy, work, planned, answer>>

-----------------------------------------------------------------------------
(* A plan: Planner.plan returns none whatever goes wrong.                  *)

NoPlan ==
    /\ pc = "planning"
    /\ Concludes(Apology, IF mode = "stream" THEN <<"error">> ELSE <<>>)
    /\ StandStill
    /\ UNCHANGED <<mode, step, round, done, busy, work, planned>>

Plan(n) ==
    /\ pc = "planning"
    /\ planned' = n
    /\ Request
    /\ Emits(IF mode = "stream" THEN <<"step_finish", "step_start">> ELSE <<>>)
    /\ StandStill
    /\ UNCHANGED <<mode, busy, work, answer>>

-----------------------------------------------------------------------------
(* What follows a response.                                                *)

Attempts(w) == {k \in DOMAIN w : w[k] = "execution"}

\* Fault: the answer is what came last, be it a reflection.
LastRecord(w) == Len(w)

\* Memory.get_last_execution.
LastExecution(w) == Max(Attempts(w))

Reflections(w) == Len(w) - Cardinality(Attempts(w))

Kind ==
    CASE cls = "reflect" ->
           IF Len(work) % 2 = 0 THEN "execution" ELSE "reflection"
      [] cls = "plan" /\ Len(work) = planned -> "final"
      [] OTHER -> "result"

\* The requests of a plan; the stream asks for a final answer as well.
PlanRequests == IF mode = "stream" THEN planned + 1 ELSE planned

\* Fault: the step before is not closed.
AsksAgainOpen(seq) ==
    /\ Request
    /\ Emits(IF mode = "stream" THEN Append(seq, "step_start") ELSE seq)
    /\ UNCHANGED answer

AsksAgain(seq) ==
    /\ Request
    /\ Emits(IF mode = "stream" THEN seq \o <<"step_finish", "step_start">> ELSE seq)
    /\ UNCHANGED answer

Answered(a, seq) ==
    /\ Concludes(a, seq)
    /\ UNCHANGED <<step, round, done>>

\* SimpleAgent answers at once.
SimpleNext(w) == Answered(OfWork(1), <<>>)

PlanNext(w) ==
    IF Len(w) < PlanRequests THEN AsksAgain(<<>>)
    ELSE Answered(OfWork(Len(w)), <<>>)

\* A reflection may say that there is nothing to improve.
ReflectRuns(w) ==
    \/ /\ Last(w) = "execution" => Reflections(w) < MaxIterations
       /\ AsksAgain(<<>>)
    \/ /\ Last(w) = "execution" => Reflections(w) = MaxIterations
       /\ Answered(OfWork(LastExecution(w)), <<>>)

\* The stream needs a _build_reflection_prompt, which no class has.
ReflectStreams(w) ==
    IF MaxIterations = 0 THEN Answered(OfWork(Len(w)), <<"step_finish">>)
    ELSE /\ pc' = "broken"
         /\ Emits(<<"step_finish", "step_start">>)
         /\ UNCHANGED <<step, round, done, answer>>

ReflectNext(w) ==
    IF mode = "stream" THEN ReflectStreams(w) ELSE ReflectRuns(w)

Responds ==
    /\ work' = Append(work, Kind)
    /\ \/ cls = "simple" /\ SimpleNext(work')
       \/ cls = "plan" /\ PlanNext(work')
       \/ cls = "reflect" /\ ReflectNext(work')
    /\ StandStill
    /\ UNCHANGED <<mode, busy, planned>>

-----------------------------------------------------------------------------
(* A request with tools.                                                   *)

PresetAnswers ==
    /\ pc = "model" /\ IsPreset
    /\ Responds

PresetAsks(response) ==
    /\ pc = "model" /\ IsPreset
    /\ round' = response
    /\ done' = <<>>
    /\ pc' = "execute"
    /\ StandStill
    /\ UNCHANGED <<mode, step, busy, work, planned, answer, events>>

\* The loop breaks: an empty response, unless it was the last iteration.
PresetModelFails ==
    /\ pc = "model" /\ IsPreset
    /\ IF step < MaxToolIterations THEN Responds
       ELSE /\ pc' = "last"
            /\ StandStill
            /\ UNCHANGED turn

\* Every call is executed, and a name no tool has gives a result as well.
PresetPerform ==
    /\ pc = "execute" /\ IsPreset
    /\ done' = Reported(NextCall)
    /\ IF NextCall < Len(round) THEN UNCHANGED <<pc, step>>
       ELSE /\ step' = step + 1
            /\ pc' = IF step < MaxToolIterations THEN "model" ELSE "last"
    /\ StandStill
    /\ UNCHANGED <<mode, round, busy, work, planned, answer, events>>

\* A request without tools: the only one of a stream, or after the iterations.
LastAnswers ==
    /\ pc = "last"
    /\ Responds

\* This one may raise, and so does the stream of ReflectionAgent.
PresetRaises ==
    /\ pc \in {"last", "broken"} \/ (pc = "execute" /\ IsPreset)
    /\ Raises

PresetStep ==
    \/ PresetStart \/ NoPlan \/ (\E n \in 1 .. MaxPlan : Plan(n))
    \/ PresetAnswers \/ (\E response \in UserResponses : PresetAsks(response))
    \/ PresetModelFails \/ PresetPerform
    \/ LastAnswers \/ PresetRaises
=============================================================================
