------------------------------ MODULE AgentRun ------------------------------
(***************************************************************************)
(* A turn of a teaching agent, whatever its class: how it starts (run,     *)
(* arun, arun_stream, run_as_subagent), the tool calls of a response, the  *)
(* events a consumer sees, and how it ends: an answer, an exception, an    *)
(* interrupt, a consumer that goes away.                                   *)
(*                                                                         *)
(* The language model is external.  Its texts have no content here; a call *)
(* has a tool and arguments that parse or do not.                          *)
(***************************************************************************)
EXTENDS AgentSession

CONSTANTS
    Tracing,  \* trace_enabled
    MaxRound  \* bound: tool calls the model asks for at once

ASSUME RunAssumption == Tracing \in BOOLEAN /\ MaxRound \in Nat

VARIABLES
    cls,      \* the class of the agent
    calling,  \* enable_tool_calling
    trace,    \* the agent's trace file: "off", "open" or "closed"
    mode,     \* the method that runs
    pc,       \* where the turn stands
    step,     \* the step, or the tool iteration
    round,    \* the calls of the response
    done,     \* the calls with a result, in order
    busy,     \* the calls that execute
    work,     \* what the phases of the turn have produced
    planned,  \* length of the plan
    answer,   \* the answer: a text, a call of the round or a piece of work
    events    \* what a consumer of the turn has seen

turn == <<mode, step, round, done, busy, work, planned, answer, events>>
vars == <<session, cls, calling, trace, pc, turn>>

Classes == {"react", "simple", "plan", "reflect"}
Modes == {"run", "arun", "stream"}

\* Thought is like a call of a user tool when it cannot be parsed.
Calls == [tool : {"Thought", "Finish", "user"}, ok : BOOLEAN] \
         {[tool |-> "Thought", ok |-> FALSE]}
Responses == UNION {[1 .. n -> Calls] : n \in 1 .. MaxRound}

Text(kind)  == [of |-> kind, at |-> 0]
Apology     == Text("apology")
OfCall(k)   == [of |-> "call", at |-> k]
OfWork(k)   == [of |-> "work", at |-> k]

-----------------------------------------------------------------------------

NoTurn ==
    /\ mode = "run" /\ step = 0 /\ planned = 0
    /\ round = <<>> /\ done = <<>> /\ work = <<>> /\ events = <<>>
    /\ busy = {}
    /\ answer = None

Resets ==
    /\ mode' = "run" /\ step' = 0 /\ planned' = 0
    /\ round' = <<>> /\ done' = <<>> /\ work' = <<>> /\ events' = <<>>
    /\ busy' = {}
    /\ answer' = None

RunInit ==
    /\ SessionInit
    /\ cls \in Classes
    /\ calling \in IF cls = "react" THEN {TRUE} ELSE BOOLEAN
    /\ trace = IF cls = "react" /\ Tracing THEN "open" ELSE "off"
    /\ pc = "idle"
    /\ NoTurn

Emits(seq) == events' = IF mode = "run" THEN events ELSE events \o seq

StandStill == UNCHANGED <<session, cls, calling, trace>>

-----------------------------------------------------------------------------
(* How a turn starts.                                                      *)

Begin(m) ==
    /\ pc = "idle"
    /\ TurnNumber <= MaxTurns
    /\ mode' = m
    /\ pc' = "start"
    /\ StandStill
    /\ UNCHANGED <<step, round, done, busy, work, planned, answer, events>>

\* run_as_subagent: only ReActAgent has a max_steps to be overridden.
Subtask(filter, steps) ==
    /\ pc = "idle"
    /\ TurnNumber <= MaxTurns
    /\ steps # maxSteps => cls = "react"
    /\ EntersSubtask(filter, steps)
    /\ pc' = "start"
    /\ UNCHANGED <<cls, calling, trace, turn>>

-----------------------------------------------------------------------------
(* How it ends.                                                            *)

Ends ==
    /\ pc' = IF caller = None THEN "idle" ELSE "over"
    /\ Resets
    /\ UNCHANGED <<cls, calling>>

\* run_as_subagent goes on after the run, or after its exception.
Return ==
    /\ pc = "over"
    /\ LeavesSubtask
    /\ pc' = "idle"
    /\ UNCHANGED <<cls, calling, trace, turn>>

\* Or its clean-up is cut short.
ReturnCutShort ==
    /\ pc = "over"
    /\ LosesCaller
    /\ pc' = "idle"
    /\ UNCHANGED <<cls, calling, trace, turn>>

\* The turn has its answer; a stream announces it before it is stored.
Concludes(a, seq) ==
    /\ pc' = "answered"
    /\ answer' = a
    /\ Emits(IF mode = "stream" THEN Append(seq, "agent_finish") ELSE seq)

\* The answer is stored, and ReActAgent finalizes the agent's trace.
Say ==
    /\ pc = "answered"
    /\ SaysTurn
    /\ trace' = IF /\ cls = "react" /\ mode # "stream" /\ trace = "open"
                THEN "closed" ELSE trace
    /\ UNCHANGED <<tools, disabled, maxSteps, caller>>
    /\ Ends

\* ReActAgent.run saves the session before it raises.
EndsWithout ==
    /\ IF cls = "react" /\ mode = "run" THEN SaveSession
       ELSE UNCHANGED files
    /\ UNCHANGED <<history, counted, tools, disabled, maxSteps, caller, said,
                   trace>>
    /\ Ends

Raises == EndsWithout

\* Control-C in run; a cancelled arun, whose thread goes on unless the class
\* has an arun of its own; a consumer that closes the stream.
Interrupt ==
    /\ pc \notin {"idle", "over"}
    /\ mode = "arun" => cls = "react"
    /\ EndsWithout

-----------------------------------------------------------------------------
(* The calls of a response, one after the other.                           *)

\* Fault: calls with malformed arguments get no result.
ReportedIfParsed(k) == IF round[k].ok THEN Append(done, k) ELSE done

\* A result for a call, or an error message in its place.
Reported(k) == Append(done, k)

\* The next call: calls of builtin tools first where the class groups them.
Builtin(k) == round[k].tool # "user"
Order ==
    LET is == [i \in DOMAIN round |-> i]
        builtins == {k \in DOMAIN round : Builtin(k)}
    IN  IF cls = "react" /\ mode # "run"
        THEN At(is, builtins) \o At(is, DOMAIN round \ builtins)
        ELSE is

Handled == ToSet(done) \cup busy
NextCall == Order[Cardinality(Handled) + 1]

-----------------------------------------------------------------------------
(* Properties.                                                             *)

\* When the model is called, each call of its last response has one result in
\* the messages, refused, failed and malformed ones as well.
EveryCallAnswered ==
    pc \in {"model", "last"} =>
        /\ Len(done) = Len(round)
        /\ ToSet(done) = DOMAIN round

\* What a consumer sees is well-formed in every class: one start, steps that
\* are closed before the next one opens, tool results inside a step, and
\* nothing after the end, which every answered stream has.
EventsWellFormed ==
    LET at(e) == {i \in DOMAIN events : events[i] = e}
        opened(i) == Cardinality({j \in at("step_start") : j < i})
        closed(i) == Cardinality({j \in at("step_finish") : j < i})
    IN  /\ at("agent_start") = IF events = <<>> THEN {} ELSE {1}
        /\ \A i \in at("step_start") : opened(i) = closed(i)
        /\ \A i \in at("step_finish") \cup at("tool") : opened(i) = closed(i) + 1
        /\ at("agent_finish") \subseteq {Len(events)}
        /\ pc = "answered" /\ mode = "stream" => at("agent_finish") # {}
=============================================================================
