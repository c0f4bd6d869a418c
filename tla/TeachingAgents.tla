--------------------------- MODULE TeachingAgents ---------------------------
(***************************************************************************)
(* One agent of any of the classes of hello_agents/agents, over several    *)
(* turns, subtasks, session files and restarts.                            *)
(***************************************************************************)
EXTENDS ReActAgent, PresetAgents

\* Between turns: save_session, load_session, clear_history, a new process.
SessionOperation ==
    /\ pc = "idle"
    /\ \/ /\ trace' = trace
          /\ \/ /\ history # <<>>
                /\ SaveSession
                /\ UNCHANGED <<history, counted, tools, disabled, maxSteps,
                               caller, said>>
             \/ \E name \in FileNames : LoadSession(name)
             \/ ClearHistory
       \/ /\ trace' = IF trace = "off" THEN "off" ELSE "open"
          /\ RestartSession
    /\ UNCHANGED <<cls, calling, pc, turn>>

TurnStep == ReActStep \/ PresetStep \/ Say \/ Return

Next ==
    \/ \E m \in Modes : Begin(m)
    \/ \E filter \in Filters \cup {None}, steps \in {maxSteps, SubagentSteps} :
         Subtask(filter, steps)
    \/ TurnStep
    \/ Interrupt
    \/ ReturnCutShort
    \/ SessionOperation

Spec == RunInit /\ [][Next]_vars

\* The model and the tools answer or time out, and the consumer of a stream
\* goes on reading or closes it.
FairSpec == Spec /\ WF_vars(TurnStep)

-----------------------------------------------------------------------------
(* Properties.                                                             *)

\* An answer is what the class promises, whatever happened before it: what the
\* first readable call of Finish says (in run and arun; a stream takes it from
\* the first call of the response), what the last request of the plan gave,
\* the last attempt of ReflectionAgent and never a reflection.
AnswersAreFinal ==
    pc = "answered" =>
      /\ answer.of = "call" /\ mode # "stream" =>
           /\ Finishes(answer.at)
           /\ \A k \in DOMAIN round : Finishes(k) => answer.at <= k
      /\ answer.of = "work" /\ cls = "plan" =>
           answer.at = IF mode = "stream" THEN planned + 1 ELSE planned
      /\ answer.of = "work" /\ cls = "reflect" =>
           /\ work[answer.at] = "execution"
           /\ \A k \in DOMAIN work : k > answer.at => work[k] # "execution"

\* Every turn ends, however long the model keeps asking for tools or failing.
TurnEnds == pc # "idle" ~> pc = "idle"
=============================================================================
