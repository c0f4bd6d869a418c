--------------------------- MODULE ApprovalSession ---------------------------
(***************************************************************************)
(* One conversation of the agent: its checkpoint file, the session lock,   *)
(* and the requests of HTTP threads that run a turn, approve or deny the   *)
(* tool call the turn stopped at, compact, rename or delete the session    *)
(* (app/agent/runner.py, app/api/chat_routes.py).                          *)
(*                                                                         *)
(* run, approve and deny hold the lock from the load of the checkpoint to  *)
(* its save; compacting, renaming and deleting do not.  A language model   *)
(* is called in between: it may ask for any tools, and the call may raise. *)
(***************************************************************************)
EXTENDS Integers

CONSTANTS
    Calls,          \* the threads of the server
    Approvals,      \* identifiers of approvals, uuids
    Downloads,      \* those that ask for a download the settings allow
    Events,         \* announcements of background tasks to this session
    MaxItems,       \* max_total_items_per_session
    MaxBatch,       \* max_items_per_batch
    MaxFaults,      \* bound: exceptions and crashes
    MaxOverwrites,  \* bound: checkpoints replaced by an older copy
    None

ASSUME SessionAssumption ==
    /\ Downloads \subseteq Approvals
    /\ {MaxItems, MaxBatch} \subseteq Nat \ {0}
    /\ MaxFaults \in Nat
    /\ MaxOverwrites \in Nat
    /\ None \notin Approvals \cup Calls

VARIABLES
    file,      \* the checkpoint on disk, None when the session has none
    lock,      \* the call that holds the session lock
    calls,     \* what each thread works on, None when idle
    expired,   \* approvals older than APPROVAL_TTL
    policy,    \* whether the settings allow session grants
    events,    \* the state of each announcement
    asked,     \* approvals a turn has asked for
    executed,  \* how often the tool of an approval took effect
    cut,       \* how often an execution was not followed by a save
    consents,  \* how often a grant was given for the session
    items,     \* downloads submitted under a grant, without a question,
               \* by turns under way or saved
    told,      \* announcements a saved turn was told of
    faults, overwrites

vars == <<file, lock, calls, expired, policy, events, asked, executed, cut,
          consents, items, told, faults, overwrites>>

(* What the rest of the world sees of the session, for UNCHANGED.  *)
outside == <<expired, policy, events, asked>>
effects == <<executed, cut, consents, items>>

Decisions == {"approved", "denied", "failed", "expired"}

Checkpoint ==
    [pending : Approvals \cup {None},      \* pending_approvals
     loop    : Approvals \cup {None},      \* paused_loop, by its approval
     decided : [Approvals -> Decisions \cup {None}],
     used    : Nat \cup {None}]            \* the active grant's used_total_items

NewCheckpoint == [pending |-> None, loop |-> None,
                  decided |-> [a \in Approvals |-> None], used |-> None]

Call ==
    [op      : {"run", "approve", "deny", "compact"},
     pc      : {"loaded", "executing", "thinking", "marking"},
     copy    : Checkpoint,                 \* the checkpoint it loaded
     of      : Approvals \cup {None},      \* the approval it decides
     grants  : BOOLEAN,                    \* decision approve_and_grant_session
     outcome : Decisions \cup {None},      \* what it will record for it
     acted   : BOOLEAN,                    \* the tool has taken effect
     hook    : BOOLEAN,                    \* grants are consulted in its loop
     seen    : SUBSET Events,              \* announcements in its prompt
     auto    : Nat]                        \* downloads it submitted unasked

ASSUME NoneAssumption ==
    None \notin Decisions /\ None \notin Checkpoint /\ None \notin Call

-----------------------------------------------------------------------------
(* Helpers.                                                                *)

TypeOK ==
    /\ file \in Checkpoint \cup {None}
    /\ lock \in Calls \cup {None}
    /\ calls \in [Calls -> Call \cup {None}]
    /\ expired \subseteq asked
    /\ asked \subseteq Approvals
    /\ policy \in BOOLEAN
    /\ events \in [Events -> {"none", "new", "injected"}]
    /\ executed \in [Approvals -> Nat]
    /\ cut \in [Approvals -> Nat]
    /\ {consents, items} \subseteq Nat
    /\ told \subseteq Events
    /\ faults \in 0 .. MaxFaults
    /\ overwrites \in 0 .. MaxOverwrites

InFlight(c, op, pc) == calls[c] # None /\ calls[c].op \in op /\ calls[c].pc = pc

Starts(op, pc, ck) ==
    [op |-> op, pc |-> pc, copy |-> ck, of |-> None, grants |-> FALSE,
     outcome |-> None, acted |-> FALSE, hook |-> FALSE, seen |-> {}, auto |-> 0]

\* The checkpoint on disk and those in memory.
Copies ==
    ({file} \cup {calls[c].copy : c \in {d \in Calls : calls[d] # None}}) \ {None}

\* The end of a call: an answer or an exception for the client.
Returns(c) ==
    /\ calls' = [calls EXCEPT ![c] = None]
    /\ lock' = IF lock = c THEN None ELSE lock

\* The decision moves from pending_approvals to approvals.
Decided(ck, a, d) ==
    [ck EXCEPT !.pending = IF @ = a THEN None ELSE @, !.decided[a] = d]

\* Fault: the paused loop outlives its approval.
ExpiredKeepsLoop(ck) == Decided(ck, ck.pending, "expired")

\* _expire_approval drops the paused loop, whichever approval it waits for.
Expired(ck) == [Decided(ck, ck.pending, "expired") EXCEPT !.loop = None]

\* Downloads a turn may still submit without asking.
Quota(k) ==
    IF k.hook /\ k.copy.used # None /\ k.copy.used < MaxItems
    THEN MaxItems - k.copy.used ELSE 0

-----------------------------------------------------------------------------
(* A turn.                                                                 *)

Init ==
    /\ file = None
    /\ lock = None
    /\ calls = [c \in Calls |-> None]
    /\ expired = {} /\ asked = {}
    /\ policy \in BOOLEAN
    /\ events = [e \in Events |-> "none"]
    /\ executed = [a \in Approvals |-> 0]
    /\ cut = [a \in Approvals |-> 0]
    /\ consents = 0 /\ items = 0
    /\ told = {}
    /\ faults = 0 /\ overwrites = 0

\* The events not injected yet enter the prompt, the settings the hook.
Thinks(ck) ==
    [Starts("run", "thinking", ck) EXCEPT
        !.hook = policy, !.seen = {e \in Events : events[e] = "new"}]

(* A message of the user takes the lock and loads the checkpoint.  Events   *)
(* and settings are read next; nobody writes both them and the file.  A     *)
(* pending approval refuses the message, which changes nothing.             *)
RunStarts(c) ==
    /\ calls[c] = None /\ lock = None
    /\ file # None => file.pending = None
    /\ lock' = c
    /\ calls' = [calls EXCEPT ![c] =
                    Thinks(IF file = None THEN NewCheckpoint ELSE file)]
    /\ UNCHANGED <<file, outside, effects, told, faults, overwrites>>

\* A pending approval that is too old is recorded as expired first ...
RunLoadsExpired(c) ==
    /\ calls[c] = None /\ lock = None
    /\ file # None /\ file.pending \in expired
    /\ lock' = c
    /\ calls' = [calls EXCEPT ![c] = Starts("run", "loaded", file)]
    /\ UNCHANGED <<file, outside, effects, told, faults, overwrites>>

\* ... and the turn goes on from there.
RunExpires(c) ==
    /\ InFlight(c, {"run"}, "loaded")
    /\ file' = Expired(calls[c].copy)
    /\ calls' = [calls EXCEPT ![c] = Thinks(Expired(calls[c].copy))]
    /\ UNCHANGED <<lock, outside, effects, told, faults, overwrites>>

\* Fault: the consumption is written to a copy of the grant.
TakesNothing(k, n) == k.copy

(* Planning a round of tool calls takes n items from the grant, before it   *)
(* is known what becomes of the round: with two questions left the plan is  *)
(* discarded and the model asked again, with none its downloads are run.    *)
Takes(k, n) == IF n = 0 THEN k.copy ELSE [k.copy EXCEPT !.used = @ + n]

\* Fault: a discarded plan is counted as run, and one that ran is not.
PlanMiscounts(c, n, run) ==
    LET ran == IF run THEN 0 ELSE n
    IN  /\ calls[c] # None /\ calls[c].pc = "thinking"
        /\ n \in 1 .. Quota(calls[c])
        /\ calls' = [calls EXCEPT ![c].copy = Takes(calls[c], n), ![c].auto = @ + n - ran]
        /\ items' = items + ran
        /\ UNCHANGED <<file, lock, outside, executed, cut, consents, told,
                       faults, overwrites>>

Plan(c, n, run) ==
    LET ran == IF run THEN n ELSE 0
    IN  /\ calls[c] # None /\ calls[c].pc = "thinking"
        /\ n \in 1 .. Quota(calls[c])
        /\ calls' = [calls EXCEPT ![c].copy = Takes(calls[c], n), ![c].auto = @ + ran]
        /\ items' = items + ran
        /\ UNCHANGED <<file, lock, outside, executed, cut, consents, told,
                       faults, overwrites>>

\* The checkpoint of a turn that ended, paused at approval a or at none.
Ended(k, copy, a) ==
    LET ck == IF k.of = None THEN copy ELSE Decided(copy, k.of, k.outcome)
    IN  [ck EXCEPT !.pending = a, !.loop = a]

\* Saving ends the request, but for the events a turn still has to mark.
Saves(c, ck, a) ==
    /\ file' = Ended(calls[c], ck, a)
    /\ told' = told \cup calls[c].seen
    /\ IF calls[c].seen = {} THEN Returns(c)
       ELSE calls' = [calls EXCEPT ![c].pc = "marking"] /\ UNCHANGED lock

\* One question is left: a new approval, and the loop stops there.
Pause(c, a, n) ==
    /\ calls[c] # None /\ calls[c].pc = "thinking"
    /\ n \in 0 .. Quota(calls[c])
    /\ a \notin asked
    /\ asked' = asked \cup {a}
    /\ Saves(c, Takes(calls[c], n), a)
    /\ UNCHANGED <<expired, policy, events, effects, faults, overwrites>>

\* The model answers in words, or runs out of steps.
Answer(c) ==
    /\ calls[c] # None /\ calls[c].pc = "thinking"
    /\ Saves(c, calls[c].copy, None)
    /\ UNCHANGED <<outside, effects, faults, overwrites>>

\* Fault: the events are marked while the model still thinks.
MarkBeforeSave(c) ==
    /\ calls[c] # None /\ calls[c].seen # {}
    /\ events' = [e \in Events |->
                      IF e \in calls[c].seen THEN "injected" ELSE events[e]]
    /\ IF calls[c].pc = "marking" THEN Returns(c) ELSE UNCHANGED <<calls, lock>>
    /\ UNCHANGED <<file, expired, policy, asked, effects, told, faults, overwrites>>

\* Only a saved turn marks the events it was told of.
MarkInjected(c) ==
    /\ calls[c] # None /\ calls[c].pc = "marking"
    /\ events' = [e \in Events |->
                      IF e \in calls[c].seen THEN "injected" ELSE events[e]]
    /\ Returns(c)
    /\ UNCHANGED <<file, expired, policy, asked, effects, told, faults, overwrites>>

-----------------------------------------------------------------------------
(* The decision on a pending approval.                                     *)

\* Fault: the status of the approval is not checked.
AsksForAny(c, op, a) ==
    /\ calls[c] = None /\ lock = None
    /\ file # None /\ (file.pending = a \/ file.decided[a] # None)
    /\ lock' = c

\* Fault: decisions are not serialized.
AsksUnlocked(c, op, a) ==
    /\ calls[c] = None
    /\ file # None /\ file.pending = a
    /\ lock' = c

\* Anything but the pending approval of the checkpoint is refused.
Asks(c, op, a) ==
    /\ calls[c] = None /\ lock = None
    /\ file # None /\ file.pending = a
    /\ lock' = c

\* The user approves, with a grant for the session or without.
Approve(c, a, g) ==
    /\ Asks(c, "approve", a)
    /\ g => a \in Downloads /\ policy
    /\ calls' = [calls EXCEPT ![c] =
           [Starts("approve", IF a \in expired THEN "loaded" ELSE "executing", file)
               EXCEPT !.of = a, !.grants = g]]
    /\ UNCHANGED <<file, outside, effects, told, faults, overwrites>>

\* Fault: a denial does not wait for an approval under way.
DenyUnlocked(c, a) ==
    /\ calls[c] = None
    /\ file # None /\ file.pending = a /\ a \notin expired
    /\ calls' = [calls EXCEPT ![c] =
           [Starts("deny", "thinking", file) EXCEPT !.of = a, !.outcome = "denied"]]
    /\ UNCHANGED <<file, lock, outside, effects, told, faults, overwrites>>

\* The user denies: the loop resumes with USER_DENIED as the tool's result.
Deny(c, a) ==
    /\ Asks(c, "deny", a)
    /\ calls' = [calls EXCEPT ![c] =
           [Starts("deny", IF a \in expired THEN "loaded" ELSE "thinking", file)
               EXCEPT !.of = a, !.outcome = "denied"]]
    /\ UNCHANGED <<file, outside, effects, told, faults, overwrites>>

\* A decision that comes too late is recorded as expired.
DecisionExpires(c) ==
    /\ InFlight(c, {"approve", "deny"}, "loaded")
    /\ file' = Expired(calls[c].copy)
    /\ Returns(c)
    /\ UNCHANGED <<outside, effects, told, faults, overwrites>>

\* The tool takes effect and says so; n of its downloads count as used.
Execute(c, n) ==
    LET k == calls[c] IN
    /\ k # None /\ k.pc = "executing"
    /\ k.grants => policy
    /\ executed' = [executed EXCEPT ![k.of] = @ + 1]
    /\ consents' = IF k.grants THEN consents + 1 ELSE consents
    /\ calls' = [calls EXCEPT ![c].pc = "thinking", ![c].acted = TRUE,
                              ![c].outcome = "approved",
                              ![c].copy.used = IF k.grants THEN n ELSE @]
    /\ UNCHANGED <<file, lock, outside, cut, items, told, faults, overwrites>>

\* The settings changed meanwhile: creating the grant raises, after the tool ran.
ExecuteWithoutGrant(c) ==
    LET k == calls[c] IN
    /\ k # None /\ k.pc = "executing"
    /\ k.grants /\ ~policy
    /\ executed' = [executed EXCEPT ![k.of] = @ + 1]
    /\ cut' = [cut EXCEPT ![k.of] = @ + 1]
    /\ faults < MaxFaults /\ faults' = faults + 1
    /\ Returns(c)
    /\ UNCHANGED <<file, outside, consents, items, told, overwrites>>

\* The tool answers with an error; a request that timed out may have had effect.
ExecuteFails(c, effect) ==
    LET k == calls[c] IN
    /\ k # None /\ k.pc = "executing"
    /\ executed' = IF effect THEN [executed EXCEPT ![k.of] = @ + 1] ELSE executed
    /\ calls' = [calls EXCEPT ![c].pc = "thinking", ![c].outcome = "failed",
                              ![c].acted = effect]
    /\ UNCHANGED <<file, lock, outside, cut, consents, items, told,
                   faults, overwrites>>

-----------------------------------------------------------------------------
(* Requests without the lock, and what may happen at any time.             *)

\* Compacting loads the checkpoint, and so does renaming, its shorter twin ...
LoadsUnlocked(c) ==
    /\ calls[c] = None /\ file # None
    /\ overwrites < MaxOverwrites
    /\ calls' = [calls EXCEPT ![c] = Starts("compact", "loaded", file)]
    /\ UNCHANGED <<file, lock, outside, effects, told, faults, overwrites>>

\* ... and save the copy, whatever was saved or deleted meanwhile.
SavesUnlocked(c) ==
    /\ InFlight(c, {"compact"}, "loaded")
    /\ file' = calls[c].copy
    /\ overwrites' = IF file = calls[c].copy THEN overwrites ELSE overwrites + 1
    /\ overwrites' <= MaxOverwrites
    /\ Returns(c)
    /\ UNCHANGED <<outside, effects, told, faults>>

\* Nothing to compress.
NotCompressed(c) ==
    /\ InFlight(c, {"compact"}, "loaded")
    /\ Returns(c)
    /\ UNCHANGED <<file, outside, effects, told, faults, overwrites>>

Delete ==
    /\ file # None
    /\ file' = None
    /\ UNCHANGED <<lock, calls, outside, effects, told, faults, overwrites>>

(* What is lost with calls that end without a save.  Only the holder of the *)
(* lock has something to lose, and no more once it has saved.               *)
Forgets(ended) ==
    IF lock \in ended /\ calls[lock].pc # "marking"
    THEN LET k == calls[lock]
         IN  /\ cut' = IF k.acted THEN [cut EXCEPT ![k.of] = @ + 1] ELSE cut
             /\ items' = items - k.auto
    ELSE UNCHANGED <<cut, items>>

\* The language model raises, or the approved tool cannot be built; the
\* request answers with the error.
AgentRaises(c) ==
    /\ calls[c] # None /\ calls[c].pc \in {"thinking", "executing"}
    /\ faults < MaxFaults /\ faults' = faults + 1
    /\ Forgets({c})
    /\ Returns(c)
    /\ UNCHANGED <<file, outside, executed, consents, told, overwrites>>

\* The process dies and is started again.
Crash ==
    LET ended == {c \in Calls : calls[c] # None}
    IN  /\ ended # {}
        /\ faults < MaxFaults /\ faults' = faults + 1
        /\ Forgets(ended)
        /\ calls' = [c \in Calls |-> None]
        /\ lock' = None
        /\ UNCHANGED <<file, outside, executed, consents, told, overwrites>>

\* Thirty minutes pass for an approval.
Expire(a) ==
    /\ a \in asked \ expired
    /\ \E ck \in Copies : ck.pending = a    \* nothing reads the age of others
    /\ expired' = expired \cup {a}
    /\ UNCHANGED <<file, lock, calls, policy, events, asked, effects, told, faults,
                   overwrites>>

SaveSettings ==
    /\ policy' = ~policy
    /\ UNCHANGED <<file, lock, calls, expired, events, asked, effects, told, faults,
                   overwrites>>

\* A background task of the session ends.
Announce(e) ==
    /\ events[e] = "none"
    /\ events' = [events EXCEPT ![e] = "new"]
    /\ UNCHANGED <<file, lock, calls, expired, policy, asked, effects, told, faults,
                   overwrites>>

-----------------------------------------------------------------------------
Turn(c) ==
    \/ RunStarts(c) \/ RunLoadsExpired(c) \/ RunExpires(c)
    \/ \E n \in 1 .. MaxItems, run \in BOOLEAN : Plan(c, n, run)
    \/ \E a \in Approvals, n \in 0 .. MaxItems : Pause(c, a, n)
    \/ Answer(c) \/ MarkInjected(c) \/ AgentRaises(c)

Decision(c) ==
    \/ \E a \in Approvals, g \in BOOLEAN : Approve(c, a, g)
    \/ \E a \in Approvals : Deny(c, a)
    \/ DecisionExpires(c)
    \/ \E n \in 0 .. MaxBatch : Execute(c, n)
    \/ ExecuteWithoutGrant(c)
    \/ \E effect \in BOOLEAN : ExecuteFails(c, effect)

Unlocked(c) ==
    LoadsUnlocked(c) \/ SavesUnlocked(c) \/ NotCompressed(c)

Next ==
    \/ \E c \in Calls : Turn(c) \/ Decision(c) \/ Unlocked(c)
    \/ Delete \/ Crash \/ SaveSettings
    \/ \E a \in Approvals : Expire(a)
    \/ \E e \in Events : Announce(e)

Spec == Init /\ [][Next]_vars

-----------------------------------------------------------------------------
(* Properties.                                                             *)

(* The checkpoint always stores the paused loop of its pending approval    *)
(* and no other, so that every decision resumes the loop (the branches of  *)
(* approve and deny for a checkpoint without one are never taken).         *)
PendingHasItsLoop ==
    /\ file # None => file.loop = file.pending
    /\ \A c \in Calls : calls[c] # None => calls[c].copy.loop = calls[c].copy.pending

(* The tool of an approval takes effect once, but for attempts whose       *)
(* result was not saved (the model raised, the process died) and saves of  *)
(* compact or rename that brought back an older checkpoint.                *)
ExecutedOnceButForFaults ==
    \A a \in Approvals : executed[a] <= 1 + cut[a] + overwrites

(* What the checkpoint records of an approval happened: an approved tool   *)
(* took effect, a denied or expired one did not, unless an earlier         *)
(* approval of it was cut off or overwritten.                              *)
DecisionsAreTrue ==
    file # None =>
        \A a \in Approvals :
            /\ file.decided[a] = "approved" => executed[a] > 0
            /\ file.decided[a] \in {"denied", "expired"} =>
                   executed[a] = 0 \/ cut[a] > 0 \/ overwrites > 0

(* A grant covers at most MaxItems downloads: what turns submit without a  *)
(* question is covered by the user's consents, not counting turns that     *)
(* were cut off before they saved what they had consumed.                  *)
ItemsWithinGrants ==
    overwrites = 0 => items <= MaxItems * consents

(* An announcement is marked as injected only when a turn that was told of *)
(* it is saved; until then the next turn is told again.                    *)
InjectedEventsWereTold == \A e \in Events : events[e] = "injected" => e \in told

(* A pending approval leaves the checkpoint by a decision, and a decision  *)
(* stands: a turn, a second decision, a retry or a late answer never       *)
(* replaces it, as long as no unlocked save brought back an older copy.     *)
DecisionsStand ==
    [][ file # None /\ file' # None /\ overwrites' = 0 =>
          \A a \in Approvals :
             /\ file.decided[a] # None => file'.decided[a] = file.decided[a]
             /\ file.pending = a /\ file'.pending # a => file'.decided[a] # None ]_vars

-----------------------------------------------------------------------------
(* Invariants that explain the ones above.                                 *)

Serialized == {"run", "approve", "deny"}

\* The lock is held by the one call that runs, approves or denies.
LockIsHeld ==
    \A c \in Calls : (lock = c) <=> (calls[c] # None /\ calls[c].op \in Serialized)

\* Every approval in a checkpoint, and every one executed, was asked for.
OnlyAskedApprovals ==
    /\ file # None => file.pending \in asked \cup {None}
    /\ \A c \in Calls : calls[c] # None =>
           {calls[c].copy.pending, calls[c].of} \subseteq asked \cup {None}
    /\ \A a \in Approvals \ asked : executed[a] = 0

\* Which approval a call works on, in which phase, and what it has submitted
\* of n downloads and is told of the announcements in t.
Orderly(k, n, t) ==
    /\ k.op = "approve" => k.of # None
    /\ k.pc = "executing" => k.op = "approve" /\ ~k.acted
    /\ k.pc = "thinking" /\ k.of # None => k.outcome # None
    /\ k.acted => k.op = "approve" /\ k.pc = "thinking"
    /\ k.pc \in {"thinking", "marking"} => k.op \in Serialized
    /\ k.op # "compact" /\ k.pc = "loaded" => k.copy.pending # None
    /\ k.seen # {} => k.op = "run"
    /\ k.op = "compact" => k.auto = 0
    /\ k.pc # "marking" => k.auto <= n
    /\ k.pc = "marking" => k.seen \subseteq t

CallsAreOrderly ==
    \A c \in Calls : calls[c] # None => Orderly(calls[c], items, told)

\* The tool of approval a may still be executed without another approval.
MayExecute(a) ==
    \/ file # None /\ file.pending = a
    \/ \E c \in Calls : calls[c] # None /\ calls[c].pc = "executing" /\ calls[c].of = a

ActedOn(a) == \E c \in Calls : calls[c] # None /\ calls[c].acted /\ calls[c].of = a

(* While a decision can still execute its tool, every earlier execution    *)
(* was cut off or overwritten.                                             *)
EarlierExecutionsWereLost ==
    \A a \in Approvals :
        MayExecute(a) /\ ~ActedOn(a) => executed[a] <= cut[a] + overwrites

-----------------------------------------------------------------------------
(* What the code's documentation says, and the code does not do.           *)

(* "Reject one pending Agent tool call without executing it", says the     *)
(* route of deny.                                                          *)
DeniedIsNotExecuted ==
    file # None =>
        \A a \in Approvals : file.decided[a] = "denied" => executed[a] = 0
=============================================================================
