----------------------------- MODULE ReActAgent -----------------------------
(***************************************************************************)
(* agents/teaching_react_agent.py: steps of a response and its calls, until *)
(* a text or a call of Finish answers.  run executes the calls one after   *)
(* the other; arun and arun_stream execute those of user tools together.   *)
(***************************************************************************)
EXTENDS AgentRun

CONSTANTS MaxConcurrent  \* max_concurrent_tools

ASSUME ConcurrencyAssumption == MaxConcurrent \in Nat \ {0}

\* log_event writes to a closed file once a turn has finalized the trace; the
\* stream does not log.
ReActStart ==
    /\ pc = "start" /\ cls = "react"
    /\ \/ /\ trace # "closed" \/ mode = "stream"
          /\ pc' = "model"
          /\ step' = 1
          /\ Emits(<<"agent_start", "step_start">>)
          /\ StandStill
          /\ UNCHANGED <<mode, round, done, busy, work, planned, answer>>
       \/ /\ trace = "closed" /\ mode # "stream"
          /\ Raises

\* A failing call of the model ends the loop, not the turn.
ReActModelFails ==
    /\ pc = "model" /\ cls = "react"
    /\ pc' = "gave_up"
    /\ Emits(<<"error">>)
    /\ StandStill
    /\ UNCHANGED <<mode, step, round, done, busy, work, planned, answer>>

ReActAnswers ==
    /\ pc = "model" /\ cls = "react"
    /\ Concludes(Text("text"), <<>>)
    /\ StandStill
    /\ UNCHANGED <<mode, step, round, done, busy, work, planned>>

ReActAsks(response) ==
    /\ pc = "model" /\ cls = "react"
    /\ round' = response
    /\ done' = <<>>
    /\ pc' = "execute"
    /\ StandStill
    /\ UNCHANGED <<mode, step, busy, work, planned, answer, events>>

GiveUp ==
    /\ pc = "gave_up"
    /\ Concludes(Apology, <<>>)
    /\ StandStill
    /\ UNCHANGED <<mode, step, round, done, busy, work, planned>>

-----------------------------------------------------------------------------

\* Fault: the step is repeated when a call could not be executed.
StepRepeated(seq) ==
    LET failed == \E k \in DOMAIN round : ~ round[k].ok
    IN  /\ step' = IF failed THEN step ELSE step + 1
        /\ pc' = IF step < maxSteps THEN "model" ELSE "gave_up"
        /\ Emits(IF step < maxSteps THEN Append(seq, "step_start") ELSE seq)

StepDone(seq) ==
    /\ step' = step + 1
    /\ pc' = IF step < maxSteps THEN "model" ELSE "gave_up"
    /\ Emits(IF step < maxSteps THEN Append(seq, "step_start") ELSE seq)

Finishes(k) == round[k].tool = "Finish" /\ round[k].ok

\* run: a call of Finish ends the turn, and the calls after it are left alone.
Perform ==
    /\ pc = "execute" /\ cls = "react" /\ mode = "run"
    /\ IF Finishes(NextCall)
       THEN /\ Concludes(OfCall(NextCall), <<>>)
            /\ UNCHANGED <<step, done>>
       ELSE /\ done' = Reported(NextCall)
            /\ IF NextCall = Len(round) THEN StepDone(<<>>)
               ELSE UNCHANGED <<pc, step, events>>
            /\ UNCHANGED answer
    /\ StandStill
    /\ UNCHANGED <<mode, round, busy, work, planned>>

\* _execute_tools_async: builtin calls in turn, then the others together.
StartCall ==
    /\ pc = "execute" /\ cls = "react" /\ mode # "run"
    /\ Handled # DOMAIN round
    /\ Cardinality(busy) < MaxConcurrent
    /\ IF ~ Builtin(NextCall) /\ round[NextCall].ok
       THEN busy' = busy \cup {NextCall} /\ UNCHANGED done
       ELSE done' = Reported(NextCall) /\ UNCHANGED busy
    /\ Emits(IF round[NextCall].ok /\ mode = "arun" THEN <<"tool">> ELSE <<>>)
    /\ StandStill
    /\ UNCHANGED <<pc, mode, step, round, work, planned, answer>>

EndCall(k) ==
    /\ k \in busy
    /\ busy' = busy \ {k}
    /\ done' = Reported(k)
    /\ StandStill
    /\ UNCHANGED <<pc, mode, step, round, work, planned, answer, events>>

AllEnded == ToSet(done) = DOMAIN round

\* arun: the results are read in the order of the groups.
Collect ==
    /\ pc = "execute" /\ cls = "react" /\ mode = "arun"
    /\ AllEnded
    /\ LET finishing == {i \in DOMAIN Order : Finishes(Order[i])}
       IN  IF finishing # {}
           THEN /\ Concludes(OfCall(Order[Nth(finishing, 1)]), <<>>)
                /\ UNCHANGED <<step, done>>
           ELSE /\ done' = Order
                /\ StepDone(<<"step_finish">>)
                /\ UNCHANGED answer
    /\ StandStill
    /\ UNCHANGED <<mode, round, busy, work, planned>>

StartDelivery ==
    /\ pc = "execute" /\ cls = "react" /\ mode = "stream"
    /\ AllEnded
    /\ done' = <<>>
    /\ pc' = "deliver"
    /\ StandStill
    /\ UNCHANGED <<mode, step, round, busy, work, planned, answer, events>>

\* arun_stream: a result of Finish ends the turn, malformed or not, and the
\* answer is an argument of the first call of the response if it has one.
Deliver ==
    /\ pc = "deliver"
    /\ done' = Reported(NextCall)
    /\ IF round[NextCall].tool = "Finish"
       THEN /\ \E k \in {NextCall, 1} :
                  /\ k = 1 => round[1].ok \/ NextCall = 1
                  /\ round[1].tool = "Finish" /\ round[1].ok => k = 1
                  /\ Concludes(OfCall(k), <<"tool">>)
            /\ UNCHANGED step
       ELSE /\ IF Len(done) + 1 = Len(round) THEN StepDone(<<"tool", "step_finish">>)
               ELSE Emits(<<"tool">>) /\ UNCHANGED <<pc, step>>
            /\ UNCHANGED answer
    /\ StandStill
    /\ UNCHANGED <<mode, round, busy, work, planned>>

\* Arguments that are no object, or a trace that cannot be written: only the
\* stream goes on, with an apology.
ReActRaises ==
    /\ pc = "execute" /\ cls = "react"
    /\ \/ mode # "stream" /\ Raises
       \/ /\ mode = "stream"
          /\ pc' = "gave_up"
          /\ Emits(<<"error">>)
          /\ StandStill
          /\ UNCHANGED <<mode, step, round, done, busy, work, planned, answer>>

ReActStep ==
    \/ ReActStart \/ ReActModelFails \/ ReActAnswers
    \/ \E response \in Responses : ReActAsks(response)
    \/ Perform \/ StartCall \/ (\E k \in DOMAIN round : EndCall(k))
    \/ Collect \/ StartDelivery \/ Deliver
    \/ ReActRaises \/ GiveUp
=============================================================================
