------------------------------ MODULE ToolLoop ------------------------------
(***************************************************************************)
(* The turns of one conversation, message by message: the tool-calling     *)
(* loop (hello_agents/loop/tool_calling_loop.py) with the permission gate, *)
(* the tool filter, the registry and its circuit breaker, the compression  *)
(* of the context window, and what the runner saves and restores around it *)
(* (app/agent/runner.py).                                                  *)
(*                                                                         *)
(* The language model is external: it answers, asks for any tools, or the  *)
(* call raises.  Requests of one session are serialized; what happens when *)
(* some are not is the subject of ApprovalSession.                         *)
(***************************************************************************)
EXTENDS Naturals, Sequences, SequencesExt, FiniteSetsExt, Positions

CONSTANTS
    Tools,             \* registered tools, by what the gate tells apart
    Visible,           \* those the filter lets the model see
    Denied, Confirmed, \* those the deny and the confirm rules hit
    MaxSteps,          \* max_steps
    MinRetainRounds,   \* min_retain_rounds
    FailureThreshold,  \* failure_threshold of the circuit breaker
    MaxRound,          \* bound: tool calls the model asks for at once
    MaxIds,            \* bound: messages and calls with an identity
    None

ASSUME LoopAssumption ==
    /\ Visible \cup Denied \cup Confirmed \subseteq Tools
    /\ {MaxSteps, MinRetainRounds, FailureThreshold} \subseteq Nat \ {0}
    /\ {MaxRound, MaxIds} \subseteq Nat
    /\ None \notin Tools \cup [call : Nat, calls : Seq(Nat), step : Nat]

VARIABLES
    saved,     \* the checkpoint: history, archives, paused_loop
    pc,        \* where the turn stands, "idle" between turns
    history,   \* the messages of the agent's history manager
    archive,   \* _conversation_archives, one after the other
    messages,  \* what the loop sends to the model
    step,      \* the step of the loop
    plan,      \* the calls of the round that are still to be executed
    hooked,    \* the session's grants are consulted: not in a resumed turn
    failures,  \* failure_counts of the circuit breaker
    open,      \* the tools in open_timestamps
    ran        \* calls the registry has executed, of those in a transcript

memory == <<history, archive, messages, step, plan, hooked, failures, open>>
vars == <<saved, pc, memory, ran>>

-----------------------------------------------------------------------------
(* Messages.  Those that matter have an identity; a tool message says what *)
(* it reports of its call.                                                 *)

Message(role, of, what) == [role |-> role, of |-> of, what |-> what]

User(n)       == Message("user", <<n>>, None)
Answer(n)     == Message("assistant", <<n>>, None)
Request(ids)  == Message("tool_calls", ids, None)
Result(id, w) == Message("tool", <<id>>, w)
Summary       == Message("summary", <<>>, None)
ReplanNote    == Message("system", <<>>, None)

\* The status of a ToolResponse, a partial success being a success.  A tool
\* message reports it, or that the call was not executed here: "refused",
\* "resting", "skipped" for an approval, "decided" by one.
Executed == {"success", "error"}

\* _build_api_messages: summaries become system messages.
ApiMessages(h) ==
    [i \in DOMAIN h |-> IF h[i] = Summary THEN ReplanNote ELSE h[i]]

Identities(h) == UNION {ToSet(h[i].of) : i \in DOMAIN h}

\* Unused identities: messages are new objects.  CallIdsAreUnique: the ids of
\* calls are the model's, and the code takes them unchecked, so that they are
\* new in the conversation is an assumption about the provider.
Fresh == 1 + Max({0} \cup Identities(history) \cup Identities(archive))

\* The rounds a list of messages may consist of: calls and their results.
WellFormed(ms) ==
    \A i \in DOMAIN ms :
        /\ ms[i].role = "tool_calls" =>
             /\ i + Len(ms[i].of) <= Len(ms)
             /\ \A k \in DOMAIN ms[i].of :
                  /\ ms[i + k].role = "tool"
                  /\ ms[i + k].of = <<ms[i].of[k]>>
        /\ ms[i].role = "tool" =>
             \E j \in 1 .. i - 1 :
                 /\ ms[j].role = "tool_calls"
                 /\ i - j \in DOMAIN ms[j].of

-----------------------------------------------------------------------------
(* The context window.                                                     *)

\* find_round_boundaries: a round starts with a message of the user.
RoundBoundaries(h) == {i \in DOMAIN h : h[i].role = "user"}

\* Fault: the last messages are kept, wherever their round starts.
KeepLastMessages(h) ==
    IF Len(h) <= MinRetainRounds + 1 THEN 1 ELSE Len(h) - MinRetainRounds

\* The first message _compress_active_history keeps, 1 if it gives up.
KeepFrom(h) ==
    LET boundaries == RoundBoundaries(h)
        n == Cardinality(boundaries)
    IN  IF n <= MinRetainRounds THEN 1
        ELSE Nth(boundaries, n - MinRetainRounds + 1)

\* Fault: the first message that is kept is archived as well.
ArchivedWithNext(h) == SubSeq(h, 1, KeepFrom(h))

Compressed(h) == <<Summary>> \o SubSeq(h, KeepFrom(h), Len(h))
Archived(h) == SubSeq(h, 1, KeepFrom(h) - 1)

-----------------------------------------------------------------------------
(* The gate plan of a round.  A call is refused when its arguments do not  *)
(* parse, its tool is not visible, or a deny rule hits it.                 *)

Refused == [tool |-> None, verdict |-> "refused"]

GateCheck(t) ==
    IF t \in Denied THEN "deny" ELSE IF t \in Confirmed THEN "ask" ELSE "allow"

\* A grant turns a question into a permission, where the hook is installed.
Verdicts(t) ==
    IF GateCheck(t) = "ask" /\ hooked THEN {"ask", "allow"} ELSE {GateCheck(t)}

Planned ==
    {Refused} \cup
    {[tool |-> t, verdict |-> v] : t \in Visible, v \in {"ask", "allow"}}

PlanItems ==
    {i \in Planned : i # Refused => i.verdict \in Verdicts(i.tool)}

Questions(round) == {k \in DOMAIN round : round[k].verdict = "ask"}

Calls(round) == [k \in DOMAIN round |-> Fresh + k - 1]

-----------------------------------------------------------------------------
(* A turn starts, ends or dies.                                            *)

EmptyMemory ==
    /\ history' = <<>> /\ archive' = <<>> /\ messages' = <<>> /\ plan' = <<>>
    /\ step' = 0
    /\ hooked' = FALSE
    /\ failures' = [t \in Tools |-> 0]
    /\ open' = {}

Init ==
    /\ saved = [history |-> <<>>, archive |-> <<>>, paused |-> None]
    /\ pc = "idle"
    /\ history = <<>> /\ archive = <<>> /\ messages = <<>> /\ plan = <<>>
    /\ step = 0
    /\ hooked = FALSE
    /\ failures = [t \in Tools |-> 0]
    /\ open = {}
    /\ ran = {}

\* _build_agent makes a new registry, with a new circuit breaker, and
\* _restore_history fills the agent from the checkpoint.
Starts(h, at, hook) ==
    /\ history' = h
    /\ messages' = ApiMessages(h)
    /\ archive' = saved.archive
    /\ step' = at
    /\ plan' = <<>>
    /\ hooked' = hook
    /\ failures' = [t \in Tools |-> 0]
    /\ open' = {}
    /\ pc' = IF at <= MaxSteps THEN "prepare" ELSE "final"

NextIdentity ==
    1 + Max({0} \cup Identities(saved.history) \cup Identities(saved.archive))

\* run: a message of the user, unless an approval is pending.
Run ==
    /\ pc = "idle"
    /\ saved.paused = None
    /\ NextIdentity <= MaxIds
    /\ Starts(Append(saved.history, User(NextIdentity)), 1, TRUE)
    /\ UNCHANGED <<saved, ran>>

\* Fault: the other calls of the round are left without a result.
ResumedPendingOnly(paused) == <<Result(paused.call, "decided")>>

\* Fault: the others are reported as if they had been executed.
ResumedAsSuccess(paused) ==
    [k \in DOMAIN paused.calls |->
        Result(paused.calls[k],
               IF paused.calls[k] = paused.call THEN "decided" ELSE "success")]

\* The result of each call of the paused round: the decided one, and the
\* others, which were not executed.
ResumedResults(paused) ==
    [k \in DOMAIN paused.calls |->
        Result(paused.calls[k],
               IF paused.calls[k] = paused.call THEN "decided" ELSE "skipped")]

\* approve or deny: the turn goes on after the round it stopped at.
Resume ==
    /\ pc = "idle"
    /\ saved.paused # None
    /\ Starts(saved.history \o ResumedResults(saved.paused),
              saved.paused.step + 1, FALSE)
    /\ UNCHANGED <<saved, ran>>

\* The language model, or something else in the turn, raises: nothing of the
\* turn is saved.
Raise ==
    /\ pc \in {"prepare", "model", "execute"}
    /\ pc' = "idle"
    /\ EmptyMemory
    /\ ran' = ran \cap (Identities(saved.history) \cup Identities(saved.archive))
    /\ UNCHANGED saved

\* What a new turn and a resumed one keep of the agent.
Checkpoint(h, paused) == [history |-> h, archive |-> archive, paused |-> paused]

Saves(h, paused) ==
    /\ saved' = Checkpoint(h, paused)
    /\ pc' = "idle"
    /\ EmptyMemory
    /\ UNCHANGED ran

-----------------------------------------------------------------------------
(* One step of the loop.                                                   *)

\* _prepare_messages_for_model_call: over the threshold, old rounds are
\* archived and the messages are built again from the history.
Compress ==
    /\ pc = "prepare"
    /\ KeepFrom(history) > 1
    /\ archive' = archive \o Archived(history)
    /\ history' = Compressed(history)
    /\ messages' = ApiMessages(history')
    /\ pc' = "model"
    /\ UNCHANGED <<saved, step, plan, hooked, failures, open, ran>>

FitsWindow ==
    /\ pc = "prepare"
    /\ pc' = "model"
    /\ UNCHANGED <<saved, memory, ran>>

NextStep ==
    /\ step' = step + 1
    /\ pc' = IF step < MaxSteps THEN "prepare" ELSE "final"

ModelAnswers ==
    /\ pc = "model"
    /\ Fresh <= MaxIds
    /\ Saves(Append(history, Answer(Fresh)), None)

\* Fault: asking again, with the same note, does not count as a step.
ReplanFreely(round) ==
    /\ pc = "model"
    /\ Cardinality(Questions(round)) > 1
    /\ messages' = IF Last(messages) = ReplanNote THEN messages
                   ELSE Append(messages, ReplanNote)
    /\ pc' = "prepare"
    /\ UNCHANGED <<saved, history, archive, step, plan, hooked, failures, open, ran>>

\* Several questions at once: the model is told to ask for one.
Replan(round) ==
    /\ pc = "model"
    /\ Cardinality(Questions(round)) > 1
    /\ messages' = Append(messages, ReplanNote)
    /\ NextStep
    /\ UNCHANGED <<saved, history, archive, plan, hooked, failures, open, ran>>

\* _build_paused_loop_state.
PausedRound(round) ==
    [call  |-> Calls(round)[CHOOSE k \in Questions(round) : TRUE],
     calls |-> Calls(round),
     step  |-> step]

\* One question: the turn ends with the round unanswered, and none of its
\* calls is executed.
Pause(round) ==
    /\ pc = "model"
    /\ Fresh + Len(round) - 1 <= MaxIds
    /\ Cardinality(Questions(round)) = 1
    /\ Saves(Append(history, Request(Calls(round))), PausedRound(round))

StartRound(round) ==
    /\ pc = "model"
    /\ Fresh + Len(round) - 1 <= MaxIds
    /\ Questions(round) = {}
    /\ history' = Append(history, Request(Calls(round)))
    /\ messages' = Append(messages, Request(Calls(round)))
    /\ plan' = [k \in DOMAIN round |->
                   [call |-> Calls(round)[k], tool |-> round[k].tool,
                    verdict |-> round[k].verdict]]
    /\ pc' = "execute"
    /\ UNCHANGED <<saved, archive, step, hooked, failures, open, ran>>

\* One call of the round is reported, and the last one ends the step.
Reported(what) ==
    /\ history' = Append(history, Result(Head(plan).call, what))
    /\ messages' = Append(messages, Result(Head(plan).call, what))
    /\ plan' = Tail(plan)
    /\ IF Len(plan) = 1 THEN NextStep ELSE UNCHANGED <<step, pc>>
    /\ UNCHANGED <<saved, archive, hooked>>

Refuse ==
    /\ pc = "execute"
    /\ Head(plan).verdict = "refused"
    /\ Reported("refused")
    /\ UNCHANGED <<failures, open, ran>>

\* is_open: the tool is not tried while it rests.
Rest(t) ==
    /\ t \in open
    /\ Reported("resting")
    /\ UNCHANGED <<failures, open, ran>>

\* Fault: the time is over, and the tool still counts as resting.
ClosedButOpen(t) == [count |-> IF t \in open THEN 0 ELSE failures[t], open |-> open]

\* is_open closes a breaker whose time is over before the tool is tried.
Closed(t) ==
    [count |-> IF t \in open THEN 0 ELSE failures[t], open |-> open \ {t}]

\* record_result counts errors, and a success starts the count again.
Recorded(t, what) ==
    LET n == IF what = "error" THEN Closed(t).count + 1 ELSE 0
    IN  /\ failures' = [failures EXCEPT ![t] = n]
        /\ open' = Closed(t).open \cup {u \in {t} : n >= FailureThreshold}

Try(t) ==
    /\ ran' = ran \cup {Head(plan).call}
    /\ \E what \in Executed : Reported(what) /\ Recorded(t, what)

Execute ==
    /\ pc = "execute"
    /\ Head(plan).verdict = "allow"
    /\ Rest(Head(plan).tool) \/ Try(Head(plan).tool)

\* _finalize_after_max_steps: whatever the model does, there is an answer.
Finalize ==
    /\ pc = "final"
    /\ Fresh <= MaxIds
    /\ Saves(Append(history, Answer(Fresh)), None)

-----------------------------------------------------------------------------
(* Between turns.                                                          *)

AsksForOne(m, calls) == m.role = "tool_calls" /\ ToSet(m.of) \cap ToSet(calls) # {}

\* _expire_approval: the question goes, and every message that asked for one
\* of its calls.
Expire ==
    /\ pc = "idle"
    /\ saved.paused # None
    /\ NextIdentity <= MaxIds
    /\ saved' = [saved EXCEPT
          !.history = Append(
              At(@, {i \in DOMAIN @ : ~ AsksForOne(@[i], saved.paused.calls)}),
              Answer(NextIdentity)),
          !.paused = None]
    /\ UNCHANGED <<pc, memory, ran>>

\* compact_session.
Compact ==
    /\ pc = "idle"
    /\ KeepFrom(saved.history) > 1
    /\ saved' = [saved EXCEPT !.archive = @ \o Archived(saved.history),
                              !.history = Compressed(@)]
    /\ UNCHANGED <<pc, memory, ran>>

\* The turn has no identity left: the bound is reached.
OutOfIds ==
    /\ pc \in {"model", "final"}
    /\ Fresh > MaxIds
    /\ pc' = "idle"
    /\ EmptyMemory
    /\ ran' = ran \cap (Identities(saved.history) \cup Identities(saved.archive))
    /\ UNCHANGED saved

Rounds == UNION {[1 .. n -> PlanItems] : n \in 1 .. MaxRound}

TurnStep ==
    \/ Compress \/ FitsWindow
    \/ ModelAnswers
    \/ \E round \in Rounds : Replan(round) \/ Pause(round) \/ StartRound(round)
    \/ Refuse \/ Execute
    \/ Finalize
    \/ Raise \/ OutOfIds

Next == Run \/ Resume \/ TurnStep \/ Expire \/ Compact

Spec == Init /\ [][Next]_vars

\* A turn runs to its end in one thread: tools and the model have time-outs.
FairSpec == Spec /\ WF_vars(TurnStep)

-----------------------------------------------------------------------------
(* Properties.                                                             *)

\* Whenever the model is called, every tool call in the messages is followed
\* by exactly its results, in a resumed, replanned or compressed turn as well:
\* providers reject anything else, and the conversation could not go on.
ModelInputIsWellFormed == pc \in {"model", "final"} => WellFormed(messages)

\* A checkpoint is well-formed too, except that a paused one ends in the
\* round that waits, with the call to be decided among its calls.
CheckpointIsResumable ==
    LET p == saved.paused
        h == saved.history
    IN  IF p = None THEN WellFormed(h)
        ELSE /\ h # <<>>
             /\ WellFormed(Front(h))
             /\ Last(h) = Request(p.calls)
             /\ p.call \in ToSet(p.calls)

\* What the model is told of a call is true: a call is reported as executed
\* exactly when the registry executed it (_build_gate_plan, resume).
ReportsAreTrue ==
    \A m \in ToSet(history) \cup ToSet(saved.history) \cup ToSet(saved.archive) :
        m.role = "tool" => (m.what \in Executed <=> m.of[1] \in ran)

\* A tool rests exactly while its last FailureThreshold executions failed and
\* the time of the breaker is not over.
RestsAfterFailures ==
    \A t \in Tools : t \in open <=> failures[t] >= FailureThreshold

Said(h) == At(h, {i \in DOMAIN h : h[i].role # "summary"})

Transcript(ck) == Said(ck.archive \o ck.history)

\* Nothing that was said is lost, said twice or moved: archives and history
\* together only grow at the end, except that the round of an expired
\* question is taken back.
TranscriptOnlyGrows ==
    [][ LET before == Transcript(saved)
            after == Transcript(saved')
        IN  \/ IsPrefix(before, after)
            \/ /\ saved.paused # None
               /\ IsPrefix(Front(before), after) ]_saved

\* Every turn ends: the steps of the loop are limited, whatever the model
\* keeps asking for.
TurnsEnd == pc # "idle" ~> pc = "idle"
=============================================================================
