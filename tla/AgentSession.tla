---------------------------- MODULE AgentSession ----------------------------
(***************************************************************************)
(* What every agent of hello_agents carries from turn to turn              *)
(* (core/agent.py, context/history.py, core/session_store.py): its history *)
(* with a cached token count, the compression that follows a message, the  *)
(* session files, and the state run_as_subagent puts aside for a subtask.  *)
(* How a turn comes to its answer is the subject of ReActAgent and         *)
(* PresetAgents, which extend this module.                                 *)
(*                                                                         *)
(* A message counts as one token.  Each file is written to a temporary     *)
(* file and renamed, so that a file is always a whole history.             *)
(***************************************************************************)
EXTENDS Naturals, Sequences, SequencesExt, FiniteSetsExt, Positions

CONSTANTS
    ToolObjects,      \* tools registered as objects
    FunctionTools,    \* tools registered as plain functions
    Filters,          \* what the filters of subtasks let pass
    Window,           \* context_window * compression_threshold
    MinRetainRounds,  \* min_retain_rounds
    SaveInterval,     \* auto_save_interval
    MaxSteps,         \* max_steps
    SubagentSteps,    \* max_steps_override of subtasks
    MaxTurns,         \* bound: questions of a conversation
    None

ASSUME SessionAssumption ==
    /\ {Window, MinRetainRounds, SaveInterval, MaxSteps, SubagentSteps}
         \subseteq Nat \ {0}
    /\ MaxTurns \in Nat
    /\ Filters \subseteq SUBSET (ToolObjects \cup FunctionTools)

Messages == [role : {"user", "assistant", "summary"}, turn : 0 .. MaxTurns]

\* None is no state of an agent.  (A filter is a set; no filter is None.)
ASSUME CallerAssumption ==
    None \notin [history : Seq(Messages), maxSteps : Nat, filtered : BOOLEAN]

VARIABLES
    history,   \* history_manager's messages
    counted,   \* _history_token_count
    files,     \* the session files
    tools,     \* _tools and _functions of the registry
    disabled,  \* _temp_disabled_tools of the registry
    maxSteps,  \* max_steps of the agent
    caller,    \* what run_as_subagent puts aside, None outside of it
    said       \* every message of the conversation, none of them compressed

session == <<history, counted, files, tools, disabled, maxSteps, caller, said>>

\* Of the files save_session writes under other names (named by a user, or
\* session-error and session-interrupted) the last one is kept: a bound.
FileNames == {"session-auto", "saved"}

-----------------------------------------------------------------------------
(* History.                                                                *)

Said(role, n) == [role |-> role, turn |-> n]
SummaryMessage == Said("summary", 0)

RoundStarts(h) == {i \in DOMAIN h : h[i].role = "user"}
Rounds(h) == Cardinality(RoundStarts(h))

\* Fault: one round fewer is kept.
CompressedShort(h) ==
    LET keep == Rounds(h) - MinRetainRounds + 2
    IN  IF Rounds(h) <= MinRetainRounds THEN h
        ELSE <<SummaryMessage>> \o
             (IF keep > Rounds(h) THEN <<>>
              ELSE SubSeq(h, Nth(RoundStarts(h), keep), Len(h)))

\* Where the last rounds begin.
LastRounds(h) == Nth(RoundStarts(h), Rounds(h) - MinRetainRounds + 1)

\* compress: a summary and the last rounds, if there are more of them.
Compressed(h) ==
    IF Rounds(h) <= MinRetainRounds THEN h
    ELSE <<SummaryMessage>> \o SubSeq(h, LastRounds(h), Len(h))

\* _should_compress, by the cached count.
OverThreshold(n) == n > Window

\* add_message: append, count, compress over the threshold, save every so
\* many messages.
Added(s, m) ==
    LET appended == Append(s.history, m)
        over == OverThreshold(s.counted + 1)
        h == IF over THEN Compressed(appended) ELSE appended
    IN  [history |-> h,
         counted |-> IF over THEN Len(h) ELSE s.counted + 1,
         files   |-> IF Len(h) % SaveInterval = 0
                     THEN [s.files EXCEPT !["session-auto"] = h] ELSE s.files]

Turns(h) == {m.turn : m \in ToSet(h)}

TurnNumber ==
    1 + Max({0} \cup Turns(said) \cup Turns(history)
                \cup (IF caller = None THEN {} ELSE Turns(caller.history)))

\* The question and the answer of a turn.
SaysTurn ==
    LET question == Said("user", TurnNumber)
        answer == Said("assistant", TurnNumber)
        before == [history |-> history, counted |-> counted, files |-> files]
        after == Added(Added(before, question), answer)
    IN  /\ history' = after.history
        /\ counted' = after.counted
        /\ files' = after.files
        /\ said' = IF caller = None THEN said \o <<question, answer>> ELSE said

-----------------------------------------------------------------------------
(* Subtasks: run_as_subagent.                                              *)

\* _apply_tool_filter, if there is a filter: only tool objects can be put
\* aside, beside those an earlier subtask left there.
\* Fault: they take their place.
Hidden(filter) == IF filter = None THEN {} ELSE (tools \cap ToolObjects) \ filter

PutAsideAnew(filter) == Hidden(filter)

PutAside(filter) == disabled \cup Hidden(filter)

\* Everything run_as_subagent does before the run.  The cached count stays.
EntersSubtask(filter, steps) ==
    /\ caller' = [history |-> history, maxSteps |-> maxSteps, filtered |-> filter # None]
    /\ history' = <<>>
    /\ tools' = tools \ Hidden(filter)
    /\ disabled' = PutAside(filter)
    /\ maxSteps' = steps
    /\ UNCHANGED <<counted, files, said>>

\* Fault: the subtask's messages stay where they are.
RestoredOnTop == caller.history \o history

\* The finally clause: the history is cleared and filled again.
Restored == caller.history

\* The end of a subtask, after a run that returned or raised.
LeavesSubtask ==
    /\ history' = Restored
    /\ tools' = IF caller.filtered THEN tools \cup disabled ELSE tools
    /\ disabled' = IF caller.filtered THEN {} ELSE disabled
    /\ maxSteps' = caller.maxSteps
    /\ caller' = None
    /\ UNCHANGED <<counted, files, said>>

\* The conversation the agent goes on with is what its history holds.
GoesOnWith(h) == said' = At(h, {i \in DOMAIN h : h[i].role # "summary"})

\* The finally clause collects the metadata and the summary first: an
\* exception or a second interrupt there skips all it would put back.
LosesCaller ==
    /\ caller' = None
    /\ GoesOnWith(history)
    /\ UNCHANGED <<history, counted, files, tools, disabled, maxSteps>>

-----------------------------------------------------------------------------
(* Session files.                                                          *)

SaveSession == files' = [files EXCEPT !["saved"] = history]

\* load_session: the history is replaced, the cached count is not.
LoadSession(name) ==
    /\ caller = None
    /\ files[name] # None
    /\ history' = files[name]
    /\ GoesOnWith(history')
    /\ UNCHANGED <<counted, files, tools, disabled, maxSteps, caller>>

\* clear_history.
ClearHistory ==
    /\ caller = None
    /\ history # <<>>
    /\ history' = <<>>
    /\ counted' = 0
    /\ said' = <<>>
    /\ UNCHANGED <<files, tools, disabled, maxSteps, caller>>

SessionInit ==
    /\ history = <<>>
    /\ counted = 0
    /\ files = [n \in FileNames |-> None]
    /\ tools = ToolObjects \cup FunctionTools
    /\ disabled = {}
    /\ maxSteps = MaxSteps
    /\ caller = None
    /\ said = <<>>

\* The process ends and a new one starts, with the files.  What a turn under
\* way had done so far is nowhere but in memory.
RestartSession ==
    /\ caller = None
    /\ history' = <<>>
    /\ counted' = 0
    /\ tools' = ToolObjects \cup FunctionTools
    /\ disabled' = {}
    /\ maxSteps' = MaxSteps
    /\ UNCHANGED caller
    /\ said' = <<>>
    /\ UNCHANGED files

-----------------------------------------------------------------------------
(* Properties.                                                             *)

\* However often the history was compressed, in a turn or in the middle of
\* one, it still ends with the last rounds of the conversation, whole and in
\* order (HistoryManager.compress, Agent.add_message).
RecentRoundsKept ==
    caller = None =>
        LET first == IF Rounds(said) <= MinRetainRounds THEN 1
                     ELSE LastRounds(said)
        IN  IsSuffix(SubSeq(said, first, Len(said)), history)

\* However many subtasks with and without a filter there were, and however
\* their ends were cut short, a tool is registered or put aside, where the
\* next subtask with a filter finds it (_apply_tool_filter, _restore_tools).
NoToolIsLost == tools \cup disabled = ToolObjects \cup FunctionTools
=============================================================================
