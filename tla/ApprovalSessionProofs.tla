------------------------ MODULE ApprovalSessionProofs ------------------------
(* Theorems about ApprovalSession, for any calls, approvals and bounds. *)
EXTENDS ApprovalSession, TLAPS

(***************************************************************************)
(* Checkpoints and calls keep their form.                                  *)
(***************************************************************************)
\* Recording a decision keeps the checkpoint's form.
LEMMA DecidedType ==
    ASSUME NEW ck \in Checkpoint, NEW a \in Approvals, NEW d \in Decisions
    PROVE  Decided(ck, a, d) \in Checkpoint
BY DEF Decided, Checkpoint

\* So does recording that a pending approval expired.
LEMMA ExpiredType ==
    ASSUME NEW ck \in Checkpoint, ck.pending \in Approvals
    PROVE  Expired(ck) \in Checkpoint
<1>1. Decided(ck, ck.pending, "expired") \in Checkpoint
  BY DecidedType DEF Decisions
<1> QED
  BY <1>1 DEF Expired, Checkpoint

\* A session without a file starts from a well-formed checkpoint.
LEMMA NewCheckpointType == NewCheckpoint \in Checkpoint
BY DEF NewCheckpoint, Checkpoint

\* A request starts as a well-formed call.
LEMMA StartsType ==
    ASSUME NEW op \in {"run", "approve", "deny", "compact"},
           NEW pc \in {"loaded", "executing", "thinking", "marking"},
           NEW ck \in Checkpoint
    PROVE  Starts(op, pc, ck) \in Call
BY DEF Starts, Call

\* So does a turn that consults settings and inbox.
LEMMA ThinksType ==
    ASSUME TypeOK, NEW ck \in Checkpoint
    PROVE  Thinks(ck) \in Call
BY DEF Thinks, Starts, Call, TypeOK

\* Planning within the quota keeps the grant's counter a number.
LEMMA TakesType ==
    ASSUME NEW k \in Call, NEW n \in Nat, n <= Quota(k)
    PROVE  Takes(k, n) \in Checkpoint
<1>1. k.copy \in Checkpoint
  BY DEF Call
<1>2. CASE n = 0
  BY <1>1, <1>2 DEF Takes
<1>3. CASE n # 0
  <2>1. k.copy.used \in Nat
    BY <1>1, <1>3 DEF Quota, Checkpoint
  <2> QED
    BY <1>1, <1>3, <2>1 DEF Takes, Checkpoint
<1> QED
  BY <1>2, <1>3

\* What a turn saves is a checkpoint, if its decision has an outcome.
LEMMA EndedType ==
    ASSUME NEW k \in Call, NEW ck \in Checkpoint, NEW a \in Approvals \cup {None},
           k.of # None => k.outcome \in Decisions
    PROVE  Ended(k, ck, a) \in Checkpoint
<1>1. k.of \in Approvals \cup {None}
  BY DEF Call
<1>2. (IF k.of = None THEN ck ELSE Decided(ck, k.of, k.outcome)) \in Checkpoint
  BY <1>1, DecidedType
<1> QED
  BY <1>2 DEF Ended, Checkpoint

\* Planning touches neither the pending approval nor its loop.
LEMMA TakesFields ==
    ASSUME NEW k \in Call, NEW n
    PROVE  Takes(k, n).pending = k.copy.pending /\ Takes(k, n).loop = k.copy.loop
BY DEF Takes, Call, Checkpoint

\* An expired approval leaves no pending approval and no loop.
LEMMA ExpiredFields ==
    ASSUME NEW ck \in Checkpoint
    PROVE  Expired(ck).pending = None /\ Expired(ck).loop = None
BY DEF Expired, Decided, Checkpoint

\* A saved turn waits for approval a, with its loop.
LEMMA EndedFields ==
    ASSUME NEW k \in Call, NEW ck \in Checkpoint, NEW a, k.of # None => k.outcome \in Decisions
    PROVE  Ended(k, ck, a).pending = a /\ Ended(k, ck, a).loop = a
<1>1. (IF k.of = None THEN ck ELSE Decided(ck, k.of, k.outcome)) \in Checkpoint
  BY DecidedType DEF Call
<1> QED
  BY <1>1 DEF Ended, Checkpoint

(***************************************************************************)
(* Types.                                                                  *)
(***************************************************************************)
\* Saving a turn keeps every type.
LEMMA SavesType ==
    ASSUME TypeOK, CallsAreOrderly, NEW c \in Calls, calls[c] # None,
           calls[c].pc = "thinking",
           NEW ck \in Checkpoint, NEW a \in Approvals \cup {None}, Saves(c, ck, a)
    PROVE  /\ file' \in Checkpoint
           /\ told' \subseteq Events
           /\ calls' \in [Calls -> Call \cup {None}]
           /\ lock' \in Calls \cup {None}
<1>1. calls[c] \in Call
  BY DEF TypeOK
<1>2. calls[c].of # None => calls[c].outcome \in Decisions
  BY <1>1 DEF CallsAreOrderly, Orderly, Call
<1>3. file' \in Checkpoint
  BY <1>1, <1>2, EndedType DEF Saves
<1>4. told' \subseteq Events
  BY <1>1 DEF Saves, TypeOK, Call
<1>5. [calls[c] EXCEPT !.pc = "marking"] \in Call
  BY <1>1 DEF Call
<1>6. /\ calls' \in [Calls -> Call \cup {None}]
      /\ lock' \in Calls \cup {None}
  BY <1>5 DEF Saves, Returns, TypeOK
<1> QED
  BY <1>3, <1>4, <1>6

\* What a cut off call loses was counted before.
LEMMA ForgetsType ==
    ASSUME TypeOK, CallsAreOrderly, NEW ended, Forgets(ended),
           \A c \in ended : c \in Calls /\ calls[c] # None
    PROVE  /\ cut' \in [Approvals -> Nat]
           /\ items' \in Nat
<1>1. CASE lock \in ended /\ calls[lock].pc # "marking"
  <2>1. lock \in Calls /\ calls[lock] # None /\ calls[lock] \in Call
    BY <1>1 DEF TypeOK
  <2>2. calls[lock].auto \in Nat /\ calls[lock].auto <= items
    BY <1>1, <2>1 DEF Call, CallsAreOrderly, Orderly
  <2>3. calls[lock].acted => calls[lock].of \in Approvals
    BY <2>1 DEF Call, CallsAreOrderly, Orderly
  <2>4. items' \in Nat
    BY <1>1, <2>2 DEF Forgets, TypeOK
  <2>5. cut' \in [Approvals -> Nat]
    BY <1>1, <2>3 DEF Forgets, TypeOK
  <2> QED
    BY <2>4, <2>5
<1>2. CASE ~(lock \in ended /\ calls[lock].pc # "marking")
  BY <1>2 DEF Forgets, TypeOK
<1> QED
  BY <1>1, <1>2

\* Planning leaves a well-formed call.
LEMMA PlannedCall ==
    ASSUME TypeOK, SessionAssumption, NEW c \in Calls, NEW n \in 1 .. MaxItems,
           NEW run \in BOOLEAN, Plan(c, n, run)
    PROVE  calls' \in [Calls -> Call \cup {None}] /\ calls'[c] \in Call
<1> DEFINE ran == IF run THEN n ELSE 0
<1>1. calls[c] \in Call
  BY DEF Plan, TypeOK
<1>2. n \in Nat /\ n <= Quota(calls[c])
  BY <1>1 DEF Plan, Quota, Call, Checkpoint, SessionAssumption
<1>3. Takes(calls[c], n) \in Checkpoint
  BY <1>1, <1>2, TakesType
<1>4. calls[c].auto + ran \in Nat
  BY <1>1, <1>2 DEF Call
<1> HIDE DEF ran
<1>5. [calls[c] EXCEPT !.copy = Takes(calls[c], n), !.auto = @ + ran] \in Call
  BY <1>1, <1>3, <1>4 DEF Call
<1> QED
  BY <1>5 DEF Plan, TypeOK, ran

\* A tool that answers leaves its call thinking ...
LEMMA ExecutedCall ==
    ASSUME TypeOK, CallsAreOrderly, SessionAssumption, NEW c \in Calls,
           NEW n \in 0 .. MaxBatch, Execute(c, n)
    PROVE  calls' \in [Calls -> Call \cup {None}] /\ calls'[c] \in Call
<1>1. calls[c] \in Call /\ calls[c].of \in Approvals /\ calls[c].copy \in Checkpoint
  BY DEF Execute, TypeOK, Call, CallsAreOrderly, Orderly
<1>2. n \in Nat
  BY DEF SessionAssumption
<1>3. [calls[c].copy EXCEPT !.used = IF calls[c].grants THEN n ELSE @] \in Checkpoint
  BY <1>1, <1>2 DEF Checkpoint
<1>4. [calls[c] EXCEPT !.pc = "thinking", !.acted = TRUE, !.outcome = "approved",
           !.copy.used = IF calls[c].grants THEN n ELSE @] \in Call
  BY <1>1, <1>3 DEF Call, Decisions
<1> QED
  BY <1>4 DEF Execute, TypeOK

\* ... and so does one that fails.
LEMMA FailedCall ==
    ASSUME TypeOK, NEW c \in Calls, NEW effect \in BOOLEAN, ExecuteFails(c, effect)
    PROVE  calls' \in [Calls -> Call \cup {None}] /\ calls'[c] \in Call
<1>1. [calls[c] EXCEPT !.pc = "thinking", !.outcome = "failed", !.acted = effect] \in Call
  BY DEF ExecuteFails, TypeOK, Call, Decisions
<1> QED
  BY <1>1 DEF ExecuteFails, TypeOK

\* Every step keeps the types.
LEMMA TypeKept ==
    ASSUME TypeOK, CallsAreOrderly, OnlyAskedApprovals, SessionAssumption, [Next]_vars
    PROVE  TypeOK'
<1> USE DEF outside, effects
<1>1. ASSUME NEW c \in Calls, RunStarts(c)
      PROVE  TypeOK'
  <2>1. (IF file = None THEN NewCheckpoint ELSE file) \in Checkpoint
    BY NewCheckpointType DEF TypeOK
  <2>2. Thinks(IF file = None THEN NewCheckpoint ELSE file) \in Call
    BY <2>1, ThinksType
  <2> QED
    BY <1>1, <2>2 DEF RunStarts, TypeOK
<1>2. ASSUME NEW c \in Calls, RunLoadsExpired(c)
      PROVE  TypeOK'
  <2>1. Starts("run", "loaded", file) \in Call
    BY <1>2, StartsType DEF RunLoadsExpired, TypeOK
  <2> QED
    BY <1>2, <2>1 DEF RunLoadsExpired, TypeOK
<1>3. ASSUME NEW c \in Calls, RunExpires(c)
      PROVE  TypeOK'
  <2>1. calls[c] \in Call /\ calls[c].copy \in Checkpoint
    BY <1>3 DEF RunExpires, InFlight, TypeOK, Call
  <2>2. calls[c].copy.pending \in Approvals
    BY <1>3, <2>1 DEF RunExpires, InFlight, CallsAreOrderly, Orderly, Checkpoint
  <2>3. Expired(calls[c].copy) \in Checkpoint
    BY <2>1, <2>2, ExpiredType
  <2>4. Thinks(Expired(calls[c].copy)) \in Call
    BY <2>3, ThinksType
  <2> QED
    BY <1>3, <2>3, <2>4 DEF RunExpires, TypeOK
<1>4. ASSUME NEW c \in Calls, NEW n \in 1 .. MaxItems, NEW run \in BOOLEAN, Plan(c, n, run)
      PROVE  TypeOK'
  <2>1. calls[c].auto \in Nat /\ n \in Nat
    BY <1>4 DEF Plan, TypeOK, Call, SessionAssumption
  <2>2. calls' \in [Calls -> Call \cup {None}]
    BY <1>4, PlannedCall
  <2> QED
    BY <1>4, <2>1, <2>2 DEF Plan, TypeOK
<1>5. ASSUME NEW c \in Calls, NEW a \in Approvals, NEW n \in 0 .. MaxItems, Pause(c, a, n)
      PROVE  TypeOK'
  <2>1. calls[c] \in Call /\ calls[c] # None /\ calls[c].pc = "thinking"
    BY <1>5 DEF Pause, TypeOK
  <2>2. n \in Nat /\ n <= Quota(calls[c])
    BY <1>5, <2>1 DEF Pause, Quota, Call, Checkpoint, SessionAssumption
  <2>3. Takes(calls[c], n) \in Checkpoint
    BY <2>1, <2>2, TakesType
  <2>4. Saves(c, Takes(calls[c], n), a)
    BY <1>5 DEF Pause
  <2>5. /\ file' \in Checkpoint
        /\ told' \subseteq Events
        /\ calls' \in [Calls -> Call \cup {None}]
        /\ lock' \in Calls \cup {None}
    BY <2>1, <2>3, <2>4, SavesType
  <2> QED
    BY <1>5, <2>5 DEF Pause, TypeOK
<1>6. ASSUME NEW c \in Calls, Answer(c)
      PROVE  TypeOK'
  <2>1. calls[c].copy \in Checkpoint /\ calls[c] # None /\ calls[c].pc = "thinking"
    BY <1>6 DEF Answer, TypeOK, Call
  <2>2. /\ file' \in Checkpoint
        /\ told' \subseteq Events
        /\ calls' \in [Calls -> Call \cup {None}]
        /\ lock' \in Calls \cup {None}
    BY <1>6, <2>1, SavesType DEF Answer
  <2> QED
    BY <1>6, <2>2 DEF Answer, TypeOK
<1>7. ASSUME NEW c \in Calls, MarkInjected(c)
      PROVE  TypeOK'
  BY <1>7 DEF MarkInjected, Returns, TypeOK
<1>8. ASSUME NEW c \in Calls, AgentRaises(c)
      PROVE  TypeOK'
  <2>1. cut' \in [Approvals -> Nat] /\ items' \in Nat
    BY <1>8, ForgetsType DEF AgentRaises
  <2> QED
    BY <1>8, <2>1 DEF AgentRaises, Returns, TypeOK, SessionAssumption
<1>9. ASSUME NEW c \in Calls, NEW a \in Approvals, NEW g \in BOOLEAN, Approve(c, a, g)
      PROVE  TypeOK'
  <2>1. file \in Checkpoint /\ lock' = c
    BY <1>9 DEF Approve, Asks, TypeOK
  <2> DEFINE pc == IF a \in expired THEN "loaded" ELSE "executing"
  <2>2. Starts("approve", pc, file) \in Call
    BY <2>1, StartsType
  <2>3. [Starts("approve", pc, file) EXCEPT !.of = a, !.grants = g] \in Call
    BY <2>2 DEF Call
  <2> QED
    BY <1>9, <2>1, <2>3 DEF Approve, TypeOK
<1>10. ASSUME NEW c \in Calls, NEW a \in Approvals, Deny(c, a)
       PROVE  TypeOK'
  <2>1. file \in Checkpoint /\ lock' = c
    BY <1>10 DEF Deny, Asks, TypeOK
  <2> DEFINE pc == IF a \in expired THEN "loaded" ELSE "thinking"
  <2>2. Starts("deny", pc, file) \in Call
    BY <2>1, StartsType
  <2>3. [Starts("deny", pc, file) EXCEPT !.of = a, !.outcome = "denied"] \in Call
    BY <2>2 DEF Call, Decisions
  <2> QED
    BY <1>10, <2>1, <2>3 DEF Deny, TypeOK
<1>11. ASSUME NEW c \in Calls, DecisionExpires(c)
       PROVE  TypeOK'
  <2>1. calls[c].copy \in Checkpoint
    BY <1>11 DEF DecisionExpires, InFlight, TypeOK, Call
  <2>2. calls[c].copy.pending \in Approvals
    BY <1>11, <2>1 DEF DecisionExpires, InFlight, CallsAreOrderly, Orderly, Checkpoint
  <2>3. Expired(calls[c].copy) \in Checkpoint
    BY <2>1, <2>2, ExpiredType
  <2> QED
    BY <1>11, <2>3 DEF DecisionExpires, Returns, TypeOK
<1>12. ASSUME NEW c \in Calls, NEW n \in 0 .. MaxBatch, Execute(c, n)
       PROVE  TypeOK'
  <2>1. calls[c].of \in Approvals
    BY <1>12 DEF Execute, TypeOK, Call, CallsAreOrderly, Orderly
  <2>2. calls' \in [Calls -> Call \cup {None}]
    BY <1>12, ExecutedCall
  <2> QED
    BY <1>12, <2>1, <2>2 DEF Execute, TypeOK
<1>13. ASSUME NEW c \in Calls, ExecuteWithoutGrant(c)
       PROVE  TypeOK'
  <2>1. calls[c] \in Call /\ calls[c].of \in Approvals
    BY <1>13 DEF ExecuteWithoutGrant, TypeOK, Call, CallsAreOrderly, Orderly
  <2> QED
    BY <1>13, <2>1 DEF ExecuteWithoutGrant, Returns, TypeOK, SessionAssumption
<1>14. ASSUME NEW c \in Calls, NEW effect \in BOOLEAN, ExecuteFails(c, effect)
       PROVE  TypeOK'
  <2>1. calls[c].of \in Approvals
    BY <1>14 DEF ExecuteFails, TypeOK, Call, CallsAreOrderly, Orderly
  <2>2. calls' \in [Calls -> Call \cup {None}]
    BY <1>14, FailedCall
  <2> QED
    BY <1>14, <2>1, <2>2 DEF ExecuteFails, TypeOK
<1>15. ASSUME NEW c \in Calls, LoadsUnlocked(c)
       PROVE  TypeOK'
  <2>1. Starts("compact", "loaded", file) \in Call
    BY <1>15, StartsType DEF LoadsUnlocked, TypeOK
  <2> QED
    BY <1>15, <2>1 DEF LoadsUnlocked, TypeOK
<1>16. ASSUME NEW c \in Calls, SavesUnlocked(c)
       PROVE  TypeOK'
  <2>1. calls[c].copy \in Checkpoint
    BY <1>16 DEF SavesUnlocked, InFlight, TypeOK, Call
  <2> QED
    BY <1>16, <2>1 DEF SavesUnlocked, Returns, TypeOK, SessionAssumption
<1>17. ASSUME NEW c \in Calls, NotCompressed(c)
       PROVE  TypeOK'
  BY <1>17 DEF NotCompressed, Returns, TypeOK
<1>18. CASE Delete
  BY <1>18 DEF Delete, TypeOK
<1>19. CASE Crash
  <2>1. cut' \in [Approvals -> Nat] /\ items' \in Nat
    BY <1>19, ForgetsType DEF Crash
  <2> QED
    BY <1>19, <2>1 DEF Crash, TypeOK, SessionAssumption
<1>20. CASE SaveSettings
  BY <1>20 DEF SaveSettings, TypeOK
<1>21. ASSUME NEW a \in Approvals, Expire(a)
       PROVE  TypeOK'
  BY <1>21 DEF Expire, TypeOK
<1>22. ASSUME NEW e \in Events, Announce(e)
       PROVE  TypeOK'
  BY <1>22 DEF Announce, TypeOK
<1>23. CASE UNCHANGED vars
  BY <1>23 DEF vars, TypeOK
<1> QED
  BY <1>1, <1>2, <1>3, <1>4, <1>5, <1>6, <1>7, <1>8, <1>9, <1>10, <1>11, <1>12, <1>13,
     <1>14, <1>15, <1>16, <1>17, <1>18, <1>19, <1>20, <1>21, <1>22, <1>23
     DEF Next, Turn, Decision, Unlocked

(***************************************************************************)
(* The lock, the checkpoints and the phases of calls.                      *)
(***************************************************************************)
Order == /\ LockIsHeld /\ PendingHasItsLoop /\ OnlyAskedApprovals
         /\ CallsAreOrderly /\ InjectedEventsWereTold

\* What call k, a record or None, must look like after a step.
Fits(k, requested, n, t) ==
    k # None =>
        /\ Orderly(k, n, t)
        /\ k.copy.loop = k.copy.pending
        /\ {k.copy.pending, k.of} \subseteq requested \cup {None}

\* A step of call c alone, and what it must respect.
LEMMA OneCallKept ==
    ASSUME TypeOK, TypeOK', Order, SessionAssumption,
           NEW c \in Calls,
           \A d \in Calls \ {c} : calls'[d] = calls[d],
           Fits(calls'[c], asked', items', told'),
           (lock' = c) <=> (calls'[c] # None /\ calls'[c].op \in Serialized),
           \A d \in Calls \ {c} : (lock' = d) <=> (lock = d),
           file' # None => /\ file'.loop = file'.pending
                           /\ file'.pending \in asked' \cup {None},
           asked \subseteq asked', told \subseteq told',
           items <= items' \/ lock = c,
           \A a \in Approvals \ asked' : executed'[a] = executed[a],
           \A e \in Events : events'[e] = "injected" =>
               events[e] = "injected" \/ e \in told'
    PROVE  Order'
<1>2. LockIsHeld'
  BY DEF Order, LockIsHeld
<1>3. PendingHasItsLoop'
  BY DEF Order, PendingHasItsLoop, Fits
<1>4. OnlyAskedApprovals'
  BY DEF Order, OnlyAskedApprovals, Fits
<1>5. ASSUME NEW d \in Calls \ {c}, calls[d] # None
      PROVE  Orderly(calls[d], items', told')
  <2>1. Orderly(calls[d], items, told)
    BY <1>5 DEF Order, CallsAreOrderly
  <2>2. calls[d] \in Call /\ calls[d].auto \in Nat /\ items \in Nat /\ items' \in Nat
    BY <1>5 DEF TypeOK, Call
  <2>3. CASE lock = d
    <3>1. items <= items'
      BY <2>3, <1>5
    <3> QED
      BY <2>1, <2>2, <3>1 DEF Orderly
  <2>4. CASE lock # d
    <3>1. calls[d].op = "compact"
      BY <2>2, <2>4, <1>5 DEF Order, LockIsHeld, Serialized, Call
    <3> QED
      BY <2>1, <2>2, <3>1 DEF Orderly
  <2> QED
    BY <2>3, <2>4
<1>6. CallsAreOrderly'
  BY <1>5 DEF CallsAreOrderly, Fits
<1>7. InjectedEventsWereTold'
  BY DEF Order, InjectedEventsWereTold
<1> QED
  BY <1>2, <1>3, <1>4, <1>6, <1>7 DEF Order

\* A step that ends call c: an answer without a save, or after one.
LEMMA ReturnKept ==
    ASSUME TypeOK, TypeOK', Order, SessionAssumption,
           NEW c \in Calls, Returns(c),
           file' # None => /\ file'.loop = file'.pending
                           /\ file'.pending \in asked' \cup {None},
           asked \subseteq asked', told \subseteq told',
           items <= items' \/ lock = c,
           \A a \in Approvals \ asked' : executed'[a] = executed[a],
           \A e \in Events : events'[e] = "injected" =>
               events[e] = "injected" \/ e \in told'
    PROVE  Order'
<1>1. calls'[c] = None /\ \A d \in Calls \ {c} : calls'[d] = calls[d]
  BY DEF Returns, TypeOK
<1>2. \A d \in Calls : (lock' = d) <=> (d # c /\ lock = d)
  BY DEF Returns, SessionAssumption
<1> QED
  BY <1>1, <1>2, OneCallKept DEF Fits

\* A turn that is saved.
LEMMA SaveKept ==
    ASSUME TypeOK, TypeOK', Order, SessionAssumption, NoneAssumption,
           NEW c \in Calls, calls[c] # None, calls[c].pc = "thinking",
           NEW ck \in Checkpoint, NEW a \in Approvals \cup {None}, a \in asked' \cup {None},
           Saves(c, ck, a), asked \subseteq asked',
           UNCHANGED <<items, executed, events>>
    PROVE  Order'
<1>1. calls[c] \in Call /\ Fits(calls[c], asked, items, told)
  BY DEF TypeOK, Fits, Order, CallsAreOrderly, PendingHasItsLoop, OnlyAskedApprovals
<1>2. calls[c].of # None => calls[c].outcome \in Decisions
  BY <1>1 DEF Fits, Orderly, Call
<1>3. file'.pending = a /\ file'.loop = a
  BY <1>1, <1>2, EndedFields DEF Saves
<1>4. told \subseteq told' /\ calls[c].seen \subseteq told'
  BY DEF Saves
<1>5. items \in Nat
  BY DEF TypeOK
<1>6. CASE calls[c].seen = {}
  BY <1>3, <1>4, <1>5, <1>6, ReturnKept DEF Saves
<1>7. CASE calls[c].seen # {}
  <2> DEFINE k == calls'[c]
  <2>1. calls' = [calls EXCEPT ![c].pc = "marking"] /\ lock' = lock
    BY <1>7 DEF Saves
  <2>2. \A d \in Calls \ {c} : calls'[d] = calls[d]
    BY <2>1 DEF TypeOK
  <2>3. /\ k.op = calls[c].op /\ k.pc = "marking" /\ k.of = calls[c].of
        /\ k.acted = calls[c].acted /\ k.seen = calls[c].seen
        /\ k.copy = calls[c].copy /\ k.auto = calls[c].auto
    BY <1>1, <2>1 DEF Call, TypeOK
  <2>4. [calls[c] EXCEPT !.pc = "marking"] \in Call
    BY <1>1 DEF Call
  <2>5. k # None
    BY <2>1, <2>4 DEF NoneAssumption, TypeOK
  <2>6. Fits(k, asked', items', told')
    BY <1>1, <1>4, <1>7, <2>3 DEF Fits, Orderly, Serialized
  <2>7. lock = c /\ k.op \in Serialized
    BY <1>1, <2>3 DEF Fits, Orderly, Order, LockIsHeld
  <2> QED
    BY <1>3, <1>4, <1>5, <2>1, <2>2, <2>5, <2>6, <2>7, OneCallKept
       DEF SessionAssumption
<1> QED
  BY <1>6, <1>7

\* Every step keeps the lock, the loops and the phases in order.
LEMMA OrderKept ==
    ASSUME TypeOK, TypeOK', Order, SessionAssumption, NoneAssumption, [Next]_vars
    PROVE  Order'
<1> USE DEF outside, effects, Serialized
<1>1. ASSUME NEW c \in Calls, RunStarts(c)
      PROVE  Order'
  <2> DEFINE ck == IF file = None THEN NewCheckpoint ELSE file
             k  == calls'[c]
  <2>1. ck \in Checkpoint /\ ck.loop = ck.pending /\ ck.pending = None
    BY <1>1, NewCheckpointType
       DEF RunStarts, NewCheckpoint, Order, PendingHasItsLoop, TypeOK
  <2>2. calls' = [calls EXCEPT ![c] = Thinks(ck)]
    BY <1>1 DEF RunStarts
  <2> HIDE DEF ck
  <2>3. k = Thinks(ck) /\ k # None
    BY <2>1, <2>2, ThinksType DEF TypeOK, NoneAssumption
  <2>4. /\ k.op = "run" /\ k.pc = "thinking" /\ k.copy = ck /\ k.of = None
        /\ k.acted = FALSE /\ k.auto = 0
    BY <2>3 DEF Thinks, Starts
  <2>5. \A d \in Calls \ {c} : calls'[d] = calls[d]
    BY <2>2 DEF TypeOK
  <2>6. Fits(k, asked', items', told')
    BY <1>1, <2>1, <2>4 DEF Fits, Orderly, RunStarts, TypeOK
  <2>7. /\ (lock' = c) <=> (k # None /\ k.op \in Serialized)
        /\ \A d \in Calls \ {c} : (lock' = d) <=> (lock = d)
    BY <1>1, <2>3, <2>4 DEF RunStarts, SessionAssumption
  <2> QED
    BY <1>1, <2>5, <2>6, <2>7, OneCallKept
       DEF RunStarts, TypeOK, Order, PendingHasItsLoop, OnlyAskedApprovals
<1>2. ASSUME NEW c \in Calls, RunLoadsExpired(c)
      PROVE  Order'
  <2> DEFINE k == calls'[c]
  <2>1. k = Starts("run", "loaded", file) /\ k # None
    BY <1>2, StartsType DEF RunLoadsExpired, TypeOK, NoneAssumption
  <2>2. /\ k.op = "run" /\ k.pc = "loaded" /\ k.copy = file /\ k.of = None
        /\ k.acted = FALSE /\ k.auto = 0 /\ k.seen = {}
    BY <2>1 DEF Starts
  <2>3. \A d \in Calls \ {c} : calls'[d] = calls[d]
    BY <1>2 DEF RunLoadsExpired, TypeOK
  <2>4. Fits(k, asked', items', told')
    BY <1>2, <2>2 DEF Fits, Orderly, RunLoadsExpired, TypeOK, SessionAssumption, Order,
       PendingHasItsLoop, OnlyAskedApprovals
  <2> QED
    BY <1>2, <2>1, <2>2, <2>3, <2>4, OneCallKept
       DEF RunLoadsExpired, TypeOK, SessionAssumption, Order, PendingHasItsLoop, OnlyAskedApprovals
<1>3. ASSUME NEW c \in Calls, RunExpires(c)
      PROVE  Order'
  <2> DEFINE ck == Expired(calls[c].copy)
             k  == calls'[c]
  <2>1. /\ calls[c] \in Call /\ calls[c].copy.pending \in Approvals
    BY <1>3 DEF RunExpires, InFlight, TypeOK, Call, Checkpoint, Order, CallsAreOrderly, Orderly
  <2>2. ck \in Checkpoint /\ ck.loop = None /\ ck.pending = None
    BY <2>1, ExpiredFields, ExpiredType DEF Call
  <2>3. calls' = [calls EXCEPT ![c] = Thinks(ck)] /\ file' = ck
    BY <1>3 DEF RunExpires
  <2> HIDE DEF ck
  <2>4. k = Thinks(ck) /\ k # None
    BY <2>2, <2>3, ThinksType DEF TypeOK, NoneAssumption
  <2>5. /\ k.op = "run" /\ k.pc = "thinking" /\ k.copy = ck /\ k.of = None
        /\ k.acted = FALSE /\ k.auto = 0
    BY <2>4 DEF Thinks, Starts
  <2>6. \A d \in Calls \ {c} : calls'[d] = calls[d]
    BY <2>3 DEF TypeOK
  <2>7. Fits(k, asked', items', told')
    BY <1>3, <2>2, <2>5 DEF Fits, Orderly, RunExpires, TypeOK
  <2>8. lock = c
    BY <1>3 DEF RunExpires, InFlight, Order, LockIsHeld
  <2> QED
    BY <1>3, <2>2, <2>3, <2>4, <2>5, <2>6, <2>7, <2>8, OneCallKept
       DEF RunExpires, TypeOK, SessionAssumption
<1>4. ASSUME NEW c \in Calls, NEW n \in 1 .. MaxItems, NEW run \in BOOLEAN, Plan(c, n, run)
      PROVE  Order'
  <2> DEFINE k == calls'[c]
             ran == IF run THEN n ELSE 0
  <2>1. calls[c] \in Call /\ calls[c] # None /\ ran \in Nat
    BY <1>4 DEF Plan, TypeOK
  <2>2. /\ k.op = calls[c].op /\ k.pc = "thinking" /\ k.of = calls[c].of
        /\ k.outcome = calls[c].outcome /\ k.acted = calls[c].acted
        /\ k.copy = Takes(calls[c], n) /\ k.auto = calls[c].auto + ran
        /\ k.seen = calls[c].seen
    BY <1>4, <2>1 DEF Plan, Call, TypeOK
  <2>3. k.copy.pending = calls[c].copy.pending /\ k.copy.loop = calls[c].copy.loop
    BY <2>1, <2>2, TakesFields
  <2>4. items' = items + ran /\ \A d \in Calls \ {c} : calls'[d] = calls[d]
    BY <1>4 DEF Plan, TypeOK
  <2>5. calls[c].auto \in Nat /\ items \in Nat
    BY <2>1 DEF Call, TypeOK
  <2>6. Fits(calls[c], asked, items, told) /\ calls[c].pc = "thinking"
    BY <1>4 DEF Plan, Fits, Order, CallsAreOrderly, PendingHasItsLoop, OnlyAskedApprovals
  <2> HIDE DEF k, ran
  <2>7. Fits(k, asked', items', told')
    BY <1>4, <2>1, <2>2, <2>3, <2>4, <2>5, <2>6 DEF Fits, Orderly, Plan
  <2> USE DEF k
  <2>8. lock = c /\ k.op \in Serialized
    BY <2>1, <2>2, <2>6 DEF Fits, Orderly, Order, LockIsHeld
  <2>9. k # None
    BY <1>4, PlannedCall DEF NoneAssumption
  <2> QED
    BY <1>4, <2>1, <2>4, <2>5, <2>7, <2>8, <2>9, OneCallKept
       DEF Plan, TypeOK, SessionAssumption, Order, PendingHasItsLoop, OnlyAskedApprovals
<1>5. ASSUME NEW c \in Calls, NEW a \in Approvals, NEW n \in 0 .. MaxItems, Pause(c, a, n)
      PROVE  Order'
  <2>1. calls[c] \in Call /\ calls[c] # None /\ calls[c].pc = "thinking"
    BY <1>5 DEF Pause, TypeOK
  <2>2. n \in Nat /\ n <= Quota(calls[c])
    BY <1>5, <2>1 DEF Pause, Quota, Call, Checkpoint, SessionAssumption
  <2>3. Takes(calls[c], n) \in Checkpoint
    BY <2>1, <2>2, TakesType
  <2>4. Saves(c, Takes(calls[c], n), a)
    BY <1>5 DEF Pause
  <2>5. a \in asked' /\ asked \subseteq asked' /\ UNCHANGED <<items, executed, events>>
    BY <1>5 DEF Pause
  <2> QED
    BY <2>1, <2>3, <2>4, <2>5, SaveKept
<1>6. ASSUME NEW c \in Calls, Answer(c)
      PROVE  Order'
  <2>1. calls[c] # None /\ calls[c].pc = "thinking" /\ calls[c].copy \in Checkpoint
    BY <1>6 DEF Answer, TypeOK, Call
  <2>2. Saves(c, calls[c].copy, None) /\ asked' = asked /\ UNCHANGED <<items, executed, events>>
    BY <1>6 DEF Answer
  <2> QED
    BY <2>1, <2>2, SaveKept
<1>7. ASSUME NEW c \in Calls, MarkInjected(c)
      PROVE  Order'
  <2>1. calls[c].seen \subseteq told
    BY <1>7 DEF MarkInjected, Order, CallsAreOrderly, Orderly
  <2>2. \A e \in Events : events'[e] = "injected" => events[e] = "injected" \/ e \in told
    BY <1>7, <2>1 DEF MarkInjected
  <2> QED
    BY <1>7, <2>2, ReturnKept
       DEF MarkInjected, TypeOK, Order, PendingHasItsLoop, OnlyAskedApprovals
<1>8. ASSUME NEW c \in Calls, AgentRaises(c)
      PROVE  Order'
  <2>1. items <= items' \/ lock = c
    BY <1>8 DEF AgentRaises, Forgets, TypeOK
  <2> QED
    BY <1>8, <2>1, ReturnKept
       DEF AgentRaises, TypeOK, Order, PendingHasItsLoop, OnlyAskedApprovals
<1>9. ASSUME NEW c \in Calls, NEW a \in Approvals, NEW g \in BOOLEAN, Approve(c, a, g)
      PROVE  Order'
  <2> DEFINE k  == calls'[c]
             pc == IF a \in expired THEN "loaded" ELSE "executing"
             k0 == [Starts("approve", pc, file) EXCEPT !.of = a, !.grants = g]
  <2>1. file \in Checkpoint /\ file.pending = a /\ lock = None /\ lock' = c
    BY <1>9 DEF Approve, Asks, TypeOK
  <2>2. Starts("approve", pc, file) \in Call
    BY <2>1, StartsType
  <2>3. k0 \in Call
    BY <2>2 DEF Call
  <2>4. calls' = [calls EXCEPT ![c] = k0]
    BY <1>9 DEF Approve
  <2>5. k = k0 /\ k # None /\ \A d \in Calls \ {c} : calls'[d] = calls[d]
    BY <2>3, <2>4 DEF TypeOK, NoneAssumption
  <2>6. /\ k.op = "approve" /\ k.pc = pc /\ k.of = a /\ k.copy = file
        /\ k.acted = FALSE /\ k.seen = {} /\ k.auto = 0
    BY <2>5 DEF Starts
  <2>7. Fits(k, asked', items', told')
    BY <1>9, <2>1, <2>6 DEF Fits, Orderly, Approve, TypeOK, SessionAssumption, Order,
       PendingHasItsLoop, OnlyAskedApprovals
  <2> HIDE DEF k0
  <2> QED
    BY <1>9, <2>1, <2>5, <2>6, <2>7, OneCallKept
       DEF Approve, TypeOK, SessionAssumption, Order, PendingHasItsLoop, OnlyAskedApprovals
<1>10. ASSUME NEW c \in Calls, NEW a \in Approvals, Deny(c, a)
       PROVE  Order'
  <2> DEFINE k  == calls'[c]
             pc == IF a \in expired THEN "loaded" ELSE "thinking"
             k0 == [Starts("deny", pc, file) EXCEPT !.of = a, !.outcome = "denied"]
  <2>1. file \in Checkpoint /\ file.pending = a /\ lock = None /\ lock' = c
    BY <1>10 DEF Deny, Asks, TypeOK
  <2>2. Starts("deny", pc, file) \in Call
    BY <2>1, StartsType
  <2>3. k0 \in Call
    BY <2>2 DEF Call, Decisions
  <2>4. calls' = [calls EXCEPT ![c] = k0]
    BY <1>10 DEF Deny
  <2>5. k = k0 /\ k # None /\ \A d \in Calls \ {c} : calls'[d] = calls[d]
    BY <2>3, <2>4 DEF TypeOK, NoneAssumption
  <2>6. /\ k.op = "deny" /\ k.pc = pc /\ k.of = a /\ k.copy = file
        /\ k.acted = FALSE /\ k.seen = {} /\ k.auto = 0 /\ k.outcome = "denied"
    BY <2>5 DEF Starts
  <2>7. k.outcome # None
    BY <2>6 DEF NoneAssumption, Decisions
  <2>8. Fits(k, asked', items', told')
    BY <1>10, <2>1, <2>6, <2>7 DEF Fits, Orderly, Deny, TypeOK, SessionAssumption, Order,
       PendingHasItsLoop, OnlyAskedApprovals, Serialized
  <2> HIDE DEF k0
  <2> QED
    BY <1>10, <2>1, <2>5, <2>6, <2>8, OneCallKept
       DEF Deny, TypeOK, SessionAssumption, Order, PendingHasItsLoop, OnlyAskedApprovals
<1>11. ASSUME NEW c \in Calls, DecisionExpires(c)
       PROVE  Order'
  <2>1. calls[c] \in Call /\ calls[c].copy \in Checkpoint /\ calls[c].copy.pending \in Approvals
    BY <1>11 DEF DecisionExpires, InFlight, TypeOK, Call, Checkpoint, Order, CallsAreOrderly,
       Orderly
  <2>2. file'.pending = None /\ file'.loop = None
    BY <1>11, <2>1, ExpiredFields DEF DecisionExpires
  <2> QED
    BY <1>11, <2>2, ReturnKept DEF DecisionExpires, TypeOK
<1>12. ASSUME NEW c \in Calls, NEW n \in 0 .. MaxBatch, Execute(c, n)
       PROVE  Order'
  <2> DEFINE k == calls'[c]
             k0 == [calls[c] EXCEPT !.pc = "thinking", !.acted = TRUE, !.outcome = "approved",
                        !.copy.used = IF calls[c].grants THEN n ELSE @]
  <2>1. /\ calls[c] \in Call /\ calls[c] # None /\ calls[c].pc = "executing"
        /\ Fits(calls[c], asked, items, told)
    BY <1>12 DEF Execute, TypeOK, Fits, Order, CallsAreOrderly, PendingHasItsLoop,
       OnlyAskedApprovals
  <2>2. calls[c].copy \in Checkpoint /\ calls[c].of \in Approvals /\ calls[c].op = "approve"
    BY <2>1 DEF Call, Fits, Orderly
  <2>5. calls'[c] \in Call
    BY <1>12, ExecutedCall DEF Order
  <2>6. calls' = [calls EXCEPT ![c] = k0]
    BY <1>12 DEF Execute
  <2>7. /\ k0.op = "approve" /\ k0.pc = "thinking" /\ k0.of = calls[c].of
        /\ k0.outcome = "approved" /\ k0.acted = TRUE /\ k0.seen = calls[c].seen
        /\ k0.auto = calls[c].auto /\ k0.copy.pending = calls[c].copy.pending
        /\ k0.copy.loop = calls[c].copy.loop
    BY <2>1, <2>2 DEF Call, Checkpoint
  <2> HIDE DEF k0
  <2>8. k = k0 /\ k # None /\ \A d \in Calls \ {c} : calls'[d] = calls[d]
    BY <2>5, <2>6 DEF TypeOK, NoneAssumption
  <2>9. Fits(k, asked', items', told')
    <3>1. UNCHANGED <<asked, items, told>>
      BY <1>12 DEF Execute
    <3>2. k0.outcome # None
      BY <2>7 DEF NoneAssumption, Decisions
    <3>3. Fits(k0, asked, items, told)
      BY <2>1, <2>2, <2>7, <3>2 DEF Fits, Orderly
    <3> QED
      BY <2>8, <3>1, <3>3
  <2>10. lock = c
    BY <2>1, <2>2 DEF Order, LockIsHeld
  <2>11. calls[c].of \in asked
    BY <2>1, <2>2 DEF Fits, SessionAssumption
  <2>12. \A a \in Approvals \ asked : executed'[a] = executed[a]
    BY <1>12, <2>11 DEF Execute, TypeOK
  <2> QED
    BY <1>12, <2>7, <2>8, <2>9, <2>10, <2>12, OneCallKept
       DEF Execute, TypeOK, SessionAssumption, Order, PendingHasItsLoop, OnlyAskedApprovals
<1>13. ASSUME NEW c \in Calls, ExecuteWithoutGrant(c)
       PROVE  Order'
  <2>1. /\ calls[c] \in Call /\ calls[c] # None /\ calls[c].pc = "executing"
        /\ Fits(calls[c], asked, items, told)
    BY <1>13 DEF ExecuteWithoutGrant, TypeOK, Fits, Order, CallsAreOrderly, PendingHasItsLoop,
       OnlyAskedApprovals
  <2>2. calls[c].of \in asked
    BY <2>1 DEF Call, Fits, Orderly, SessionAssumption
  <2>3. \A a \in Approvals \ asked : executed'[a] = executed[a]
    BY <1>13, <2>2 DEF ExecuteWithoutGrant, TypeOK
  <2> QED
    BY <1>13, <2>3, ReturnKept
       DEF ExecuteWithoutGrant, TypeOK, Order, PendingHasItsLoop, OnlyAskedApprovals
<1>14. ASSUME NEW c \in Calls, NEW effect \in BOOLEAN, ExecuteFails(c, effect)
       PROVE  Order'
  <2> DEFINE k == calls'[c]
             k0 == [calls[c] EXCEPT !.pc = "thinking", !.outcome = "failed", !.acted = effect]
  <2>1. /\ calls[c] \in Call /\ calls[c] # None /\ calls[c].pc = "executing"
        /\ Fits(calls[c], asked, items, told)
    BY <1>14 DEF ExecuteFails, TypeOK, Fits, Order, CallsAreOrderly, PendingHasItsLoop,
       OnlyAskedApprovals
  <2>2. calls[c].of \in Approvals /\ calls[c].op = "approve"
    BY <2>1 DEF Call, Fits, Orderly
  <2>3. calls'[c] \in Call
    BY <1>14, FailedCall
  <2>4. calls' = [calls EXCEPT ![c] = k0]
    BY <1>14 DEF ExecuteFails
  <2>5. /\ k0.op = "approve" /\ k0.pc = "thinking" /\ k0.of = calls[c].of
        /\ k0.outcome = "failed" /\ k0.seen = calls[c].seen
        /\ k0.auto = calls[c].auto /\ k0.copy = calls[c].copy
    BY <2>1, <2>2 DEF Call
  <2> HIDE DEF k0
  <2>6. k = k0 /\ k # None /\ \A d \in Calls \ {c} : calls'[d] = calls[d]
    BY <2>3, <2>4 DEF TypeOK, NoneAssumption
  <2>7. Fits(k, asked', items', told')
    BY <1>14, <2>1, <2>2, <2>5, <2>6 DEF Fits, Orderly, ExecuteFails, NoneAssumption, Decisions,
       Serialized
  <2>8. lock = c
    BY <2>1, <2>2 DEF Order, LockIsHeld
  <2>9. calls[c].of \in asked
    BY <2>1, <2>2 DEF Fits, SessionAssumption
  <2>10. \A a \in Approvals \ asked : executed'[a] = executed[a]
    BY <1>14, <2>9 DEF ExecuteFails, TypeOK
  <2> QED
    BY <1>14, <2>5, <2>6, <2>7, <2>8, <2>10, OneCallKept
       DEF ExecuteFails, TypeOK, SessionAssumption, Order, PendingHasItsLoop, OnlyAskedApprovals
<1>15. ASSUME NEW c \in Calls, LoadsUnlocked(c)
       PROVE  Order'
  <2> DEFINE k == calls'[c]
  <2>1. k = Starts("compact", "loaded", file) /\ k # None
    BY <1>15, StartsType DEF LoadsUnlocked, TypeOK, NoneAssumption
  <2>2. /\ k.op = "compact" /\ k.pc = "loaded" /\ k.copy = file /\ k.of = None
        /\ k.acted = FALSE /\ k.auto = 0 /\ k.seen = {}
    BY <2>1 DEF Starts
  <2>3. \A d \in Calls \ {c} : calls'[d] = calls[d]
    BY <1>15 DEF LoadsUnlocked, TypeOK
  <2>4. Fits(k, asked', items', told')
    BY <1>15, <2>2 DEF Fits, Orderly, LoadsUnlocked, TypeOK, Order, PendingHasItsLoop,
       OnlyAskedApprovals
  <2>5. lock # c
    BY <1>15 DEF LoadsUnlocked, Order, LockIsHeld
  <2> QED
    BY <1>15, <2>1, <2>2, <2>3, <2>4, <2>5, OneCallKept
       DEF LoadsUnlocked, TypeOK, Order, PendingHasItsLoop, OnlyAskedApprovals
<1>16. ASSUME NEW c \in Calls, SavesUnlocked(c)
       PROVE  Order'
  <2>1. file'.loop = file'.pending /\ file'.pending \in asked \cup {None}
    BY <1>16 DEF SavesUnlocked, InFlight, Order, PendingHasItsLoop, OnlyAskedApprovals
  <2> QED
    BY <1>16, <2>1, ReturnKept DEF SavesUnlocked, TypeOK
<1>17. ASSUME NEW c \in Calls, NotCompressed(c)
       PROVE  Order'
  BY <1>17, ReturnKept
     DEF NotCompressed, TypeOK, Order, PendingHasItsLoop, OnlyAskedApprovals
<1>18. CASE Delete
  BY <1>18 DEF Delete, Order, LockIsHeld, PendingHasItsLoop, OnlyAskedApprovals,
     CallsAreOrderly, InjectedEventsWereTold
<1>19. CASE Crash
  BY <1>19 DEF Crash, TypeOK, SessionAssumption, Order, LockIsHeld, PendingHasItsLoop,
     OnlyAskedApprovals, CallsAreOrderly, InjectedEventsWereTold
<1>20. CASE SaveSettings
  BY <1>20 DEF SaveSettings, Order, LockIsHeld, PendingHasItsLoop, OnlyAskedApprovals,
     CallsAreOrderly, InjectedEventsWereTold
<1>21. ASSUME NEW a \in Approvals, Expire(a)
       PROVE  Order'
  BY <1>21 DEF Expire, Order, LockIsHeld, PendingHasItsLoop, OnlyAskedApprovals,
     CallsAreOrderly, InjectedEventsWereTold
<1>22. ASSUME NEW e \in Events, Announce(e)
       PROVE  Order'
  BY <1>22 DEF Announce, TypeOK, Order, LockIsHeld, PendingHasItsLoop, OnlyAskedApprovals,
     CallsAreOrderly, InjectedEventsWereTold
<1>23. CASE UNCHANGED vars
  BY <1>23 DEF vars, Order, LockIsHeld, PendingHasItsLoop, OnlyAskedApprovals,
     CallsAreOrderly, InjectedEventsWereTold
<1> QED
  BY <1>1, <1>2, <1>3, <1>4, <1>5, <1>6, <1>7, <1>8, <1>9, <1>10, <1>11, <1>12, <1>13,
     <1>14, <1>15, <1>16, <1>17, <1>18, <1>19, <1>20, <1>21, <1>22, <1>23
     DEF Next, Turn, Decision, Unlocked

(***************************************************************************)
(* How often the tool of an approval takes effect.                         *)
(***************************************************************************)
Counted == EarlierExecutionsWereLost /\ ExecutedOnceButForFaults

\* Whoever thinks or executes holds the lock, so that no two do.
LEMMA OneIsBusy ==
    ASSUME Order
    PROVE  \A c \in Calls :
               calls[c] # None /\ (calls[c].pc \in {"thinking", "executing"} \/ calls[c].acted)
                   => lock = c
BY DEF Order, LockIsHeld, CallsAreOrderly, Orderly, Serialized

\* A step of call c that counts nothing.
LEMMA QuietKept ==
    ASSUME TypeOK, TypeOK', Counted,
           NEW c \in Calls,
           \A d \in Calls \ {c} : calls'[d] = calls[d],
           UNCHANGED <<executed, cut, overwrites>>,
           file' # None => \A a \in Approvals : file'.pending = a =>
               executed[a] = 0 \/ (file # None /\ file.pending = a),
           calls'[c] # None /\ calls'[c].pc = "executing" => MayExecute(calls'[c].of),
           calls[c] # None /\ calls[c].acted =>
               \/ calls'[c] # None /\ calls'[c].acted /\ calls'[c].of = calls[c].of
               \/ \A a \in Approvals : MayExecute(a)' => executed[a] = 0
    PROVE  Counted'
<1>1. ExecutedOnceButForFaults'
  BY DEF Counted, ExecutedOnceButForFaults
<1>2. ASSUME NEW a \in Approvals, MayExecute(a)', ~ActedOn(a)', executed[a] # 0
      PROVE  executed[a] <= cut[a] + overwrites
  <2>1. MayExecute(a)
    BY <1>2 DEF MayExecute
  <2>2. ~ActedOn(a)
    BY <1>2 DEF ActedOn
  <2> QED
    BY <2>1, <2>2 DEF Counted, EarlierExecutionsWereLost
<1>3. \A a \in Approvals : executed[a] \in Nat /\ cut[a] \in Nat /\ overwrites \in Nat
  BY DEF TypeOK
<1>4. EarlierExecutionsWereLost'
  BY <1>2, <1>3 DEF EarlierExecutionsWereLost
<1> QED
  BY <1>1, <1>4 DEF Counted

\* A saved turn pauses at a new approval or at none.
LEMMA SaveCounts ==
    ASSUME TypeOK, TypeOK', Order, Counted, NEW c \in Calls, calls[c] # None,
           calls[c].pc = "thinking",
           NEW ck \in Checkpoint, NEW a \in (Approvals \ asked) \cup {None},
           Saves(c, ck, a), SessionAssumption, NoneAssumption,
           UNCHANGED <<executed, cut, overwrites>>
    PROVE  Counted'
<1>1. calls[c] \in Call /\ lock = c
  BY OneIsBusy DEF TypeOK
<1>2. calls[c].of # None => calls[c].outcome \in Decisions
  BY <1>1 DEF Order, CallsAreOrderly, Orderly, Call
<1>3. file'.pending = a
  BY <1>1, <1>2, EndedFields DEF Saves
<1>4. /\ \A d \in Calls \ {c} : calls'[d] = calls[d]
      /\ calls'[c] # None => calls'[c].pc = "marking"
  BY <1>1 DEF Saves, Returns, TypeOK, Call
<1>5. \A d \in Calls : calls'[d] # None => calls'[d].pc # "executing"
  BY <1>1, <1>4, OneIsBusy
<1>6. \A b \in Approvals \ asked : executed[b] = 0
  BY DEF Order, OnlyAskedApprovals
<1>7. \A b \in Approvals : file'.pending = b => executed[b] = 0
  BY <1>3, <1>6 DEF SessionAssumption
<1>8. \A b \in Approvals : MayExecute(b)' => executed[b] = 0
  BY <1>5, <1>7 DEF MayExecute
<1> QED
  BY <1>4, <1>7, <1>8, QuietKept

\* Calls end without a save, and those that had acted are counted as cut.
LEMMA LossCounted ==
    ASSUME TypeOK, TypeOK', Counted, UNCHANGED <<executed, overwrites, file>>,
           \A c \in Calls : calls'[c] \in {calls[c], None},
           \A c \in Calls : calls[c] # None /\ calls[c].acted /\ calls'[c] = None =>
               calls[c].of \in Approvals /\ cut'[calls[c].of] = cut[calls[c].of] + 1,
           \A a \in Approvals : cut[a] <= cut'[a]
    PROVE  Counted'
<1>1. \A a \in Approvals : /\ executed[a] \in Nat /\ cut[a] \in Nat
                           /\ cut'[a] \in Nat /\ overwrites \in Nat
  BY DEF TypeOK
<1>2. ExecutedOnceButForFaults'
  BY <1>1 DEF Counted, ExecutedOnceButForFaults
<1>3. ASSUME NEW a \in Approvals, MayExecute(a)', ~ActedOn(a)'
      PROVE  executed[a] <= cut'[a] + overwrites
  <2>1. MayExecute(a)
    BY <1>3 DEF MayExecute
  <2>2. CASE ActedOn(a)
    <3>1. PICK c \in Calls : calls[c] # None /\ calls[c].acted /\ calls[c].of = a
      BY <2>2 DEF ActedOn
    <3>2. cut'[a] = cut[a] + 1
      BY <3>1, <1>3 DEF ActedOn
    <3> QED
      BY <1>1, <3>2 DEF Counted, ExecutedOnceButForFaults
  <2>3. CASE ~ActedOn(a)
    BY <1>1, <2>1, <2>3 DEF Counted, EarlierExecutionsWereLost
  <2> QED
    BY <2>2, <2>3
<1>4. EarlierExecutionsWereLost'
  BY <1>3 DEF EarlierExecutionsWereLost
<1> QED
  BY <1>2, <1>4 DEF Counted

\* A tool takes effect, and its call goes on or is cut off.
LEMMA ExecutionCounted ==
    ASSUME TypeOK, TypeOK', Order, Counted, NEW c \in Calls,
           calls[c] # None, calls[c].pc = "executing", calls[c].of \in Approvals,
           executed' = [executed EXCEPT ![calls[c].of] = @ + 1],
           UNCHANGED <<overwrites, file>>,
           \A d \in Calls \ {c} : calls'[d] = calls[d],
           \A a \in Approvals : cut[a] <= cut'[a],
           \/ /\ calls'[c] # None /\ calls'[c].acted /\ calls'[c].of = calls[c].of
              /\ calls'[c].pc = "thinking"
           \/ calls'[c] = None /\ cut'[calls[c].of] = cut[calls[c].of] + 1
    PROVE  Counted'
<1> DEFINE of == calls[c].of
<1>1. \A a \in Approvals : /\ executed[a] \in Nat /\ cut[a] \in Nat
                           /\ cut'[a] \in Nat /\ overwrites \in Nat
  BY DEF TypeOK
<1>2. \A a \in Approvals : ~ActedOn(a)
  BY OneIsBusy DEF ActedOn, Order, CallsAreOrderly, Orderly
<1>3. MayExecute(of)
  BY DEF MayExecute
<1>4. executed[of] <= cut[of] + overwrites
  BY <1>2, <1>3 DEF Counted, EarlierExecutionsWereLost
<1>5. /\ executed'[of] = executed[of] + 1
      /\ \A a \in Approvals \ {of} : executed'[a] = executed[a]
  BY DEF TypeOK
<1>6. ASSUME NEW a \in Approvals
      PROVE  executed'[a] <= 1 + cut'[a] + overwrites
  <2>1. executed[a] <= 1 + cut[a] + overwrites
    BY DEF Counted, ExecutedOnceButForFaults
  <2> HIDE DEF of
  <2> QED
    BY <1>1, <1>4, <1>5, <2>1
<1>7. ASSUME NEW a \in Approvals, MayExecute(a)', ~ActedOn(a)'
      PROVE  executed'[a] <= cut'[a] + overwrites
  <2>1. CASE a = of
    <3>1. cut'[of] = cut[of] + 1
      BY <1>7, <2>1 DEF ActedOn
    <3> HIDE DEF of
    <3> QED
      BY <1>1, <1>4, <1>5, <2>1, <3>1
  <2>2. CASE a # of
    <3>1. MayExecute(a)
      BY <1>7, <2>2 DEF MayExecute
    <3>2. executed[a] <= cut[a] + overwrites
      BY <1>2, <3>1 DEF Counted, EarlierExecutionsWereLost
    <3> HIDE DEF of
    <3> QED
      BY <1>1, <1>5, <2>2, <3>2
  <2> QED
    BY <2>1, <2>2
<1> QED
  BY <1>6, <1>7 DEF Counted, ExecutedOnceButForFaults, EarlierExecutionsWereLost

\* Every step keeps the count of executions.
LEMMA CountKept ==
    ASSUME TypeOK, TypeOK', Order, Counted, SessionAssumption, NoneAssumption, [Next]_vars
    PROVE  Counted'
<1> USE DEF outside, effects
<1>1. ASSUME NEW c \in Calls, RunStarts(c)
      PROVE  Counted'
  BY <1>1, QuietKept DEF RunStarts, Thinks, Starts, TypeOK
<1>2. ASSUME NEW c \in Calls, RunLoadsExpired(c)
      PROVE  Counted'
  BY <1>2, QuietKept DEF RunLoadsExpired, Starts, TypeOK
<1>3. ASSUME NEW c \in Calls, RunExpires(c)
      PROVE  Counted'
  <2>1. /\ calls[c] \in Call /\ calls[c].copy.pending \in Approvals
    BY <1>3 DEF RunExpires, InFlight, TypeOK, Call, Checkpoint, Order, CallsAreOrderly, Orderly
  <2>2. file'.pending = None
    BY <1>3, <2>1, ExpiredFields DEF Call, RunExpires
  <2>3. ~calls[c].acted
    BY <1>3 DEF RunExpires, InFlight, Order, CallsAreOrderly, Orderly
  <2>4. calls'[c].pc = "thinking"
    BY <1>3 DEF RunExpires, Thinks, Starts, TypeOK
  <2>5. \A d \in Calls \ {c} : calls'[d] = calls[d]
    BY <1>3 DEF RunExpires, TypeOK
  <2> QED
    BY <1>3, <2>2, <2>3, <2>4, <2>5, QuietKept DEF RunExpires, SessionAssumption
<1>4. ASSUME NEW c \in Calls, NEW n \in 1 .. MaxItems, NEW run \in BOOLEAN, Plan(c, n, run)
      PROVE  Counted'
  <2>1. calls[c] \in Call /\ calls[c] # None
    BY <1>4 DEF Plan, TypeOK
  <2>2. \A d \in Calls \ {c} : calls'[d] = calls[d]
    BY <1>4 DEF Plan, TypeOK
  <2>3. /\ calls'[c].pc = "thinking" /\ calls'[c].of = calls[c].of
        /\ calls'[c].acted = calls[c].acted
    BY <1>4, <2>1 DEF Plan, Call, TypeOK
  <2> QED
    BY <1>4, <2>2, <2>3, QuietKept, PlannedCall DEF Plan, NoneAssumption
<1>5. ASSUME NEW c \in Calls, NEW a \in Approvals, NEW n \in 0 .. MaxItems, Pause(c, a, n)
      PROVE  Counted'
  <2>1. calls[c] \in Call /\ calls[c] # None /\ calls[c].pc = "thinking"
    BY <1>5 DEF Pause, TypeOK
  <2>2. n \in Nat /\ n <= Quota(calls[c])
    BY <1>5, <2>1 DEF Pause, Quota, Call, Checkpoint, SessionAssumption
  <2>3. Takes(calls[c], n) \in Checkpoint
    BY <2>1, <2>2, TakesType
  <2>4. Saves(c, Takes(calls[c], n), a) /\ a \notin asked /\ UNCHANGED <<executed, cut, overwrites>>
    BY <1>5 DEF Pause
  <2> QED
    BY <2>1, <2>3, <2>4, SaveCounts
<1>6. ASSUME NEW c \in Calls, Answer(c)
      PROVE  Counted'
  <2>1. calls[c] # None /\ calls[c].pc = "thinking" /\ calls[c].copy \in Checkpoint
    BY <1>6 DEF Answer, TypeOK, Call
  <2>2. Saves(c, calls[c].copy, None) /\ UNCHANGED <<executed, cut, overwrites>>
    BY <1>6 DEF Answer
  <2> QED
    BY <2>1, <2>2, SaveCounts
<1>7. ASSUME NEW c \in Calls, MarkInjected(c)
      PROVE  Counted'
  <2>1. ~calls[c].acted
    BY <1>7 DEF MarkInjected, Order, CallsAreOrderly, Orderly
  <2> QED
    BY <1>7, <2>1, QuietKept DEF MarkInjected, Returns, TypeOK
<1>8. ASSUME NEW c \in Calls, AgentRaises(c)
      PROVE  Counted'
  <2>1. lock = c /\ calls[c] # None /\ calls[c].pc # "marking"
    BY <1>8, OneIsBusy DEF AgentRaises
  <2>2. /\ executed' = executed /\ overwrites' = overwrites /\ file' = file
        /\ cut' = IF calls[c].acted THEN [cut EXCEPT ![calls[c].of] = @ + 1] ELSE cut
    BY <1>8, <2>1 DEF AgentRaises, Forgets
  <2>3. calls'[c] = None /\ \A d \in Calls \ {c} : calls'[d] = calls[d]
    BY <1>8 DEF AgentRaises, Returns, TypeOK
  <2>4. calls[c].acted => calls[c].of \in Approvals
    BY <2>1 DEF TypeOK, Call, Order, CallsAreOrderly, Orderly
  <2> QED
    BY <2>1, <2>2, <2>3, <2>4, LossCounted DEF TypeOK
<1>9. ASSUME NEW c \in Calls, NEW a \in Approvals, NEW g \in BOOLEAN, Approve(c, a, g)
      PROVE  Counted'
  <2>1. \A d \in Calls \ {c} : calls'[d] = calls[d]
    BY <1>9 DEF Approve, TypeOK
  <2>2. calls'[c].of = a
    BY <1>9 DEF Approve, TypeOK, Starts
  <2>3. MayExecute(a)
    BY <1>9 DEF Approve, Asks, MayExecute
  <2> QED
    BY <1>9, <2>1, <2>2, <2>3, QuietKept DEF Approve, Asks
<1>10. ASSUME NEW c \in Calls, NEW a \in Approvals, Deny(c, a)
       PROVE  Counted'
  <2>1. \A d \in Calls \ {c} : calls'[d] = calls[d]
    BY <1>10 DEF Deny, TypeOK
  <2>2. calls'[c].pc # "executing"
    BY <1>10 DEF Deny, TypeOK, Starts
  <2> QED
    BY <1>10, <2>1, <2>2, QuietKept DEF Deny, Asks
<1>11. ASSUME NEW c \in Calls, DecisionExpires(c)
       PROVE  Counted'
  <2>1. calls[c] \in Call /\ calls[c].copy \in Checkpoint /\ ~calls[c].acted
    BY <1>11 DEF DecisionExpires, InFlight, TypeOK, Call, Order, CallsAreOrderly, Orderly
  <2>2. file'.pending = None
    BY <1>11, <2>1, ExpiredFields DEF DecisionExpires
  <2>3. calls'[c] = None /\ \A d \in Calls \ {c} : calls'[d] = calls[d]
    BY <1>11 DEF DecisionExpires, Returns, TypeOK
  <2> QED
    BY <1>11, <2>1, <2>2, <2>3, QuietKept DEF DecisionExpires, SessionAssumption
<1>12. ASSUME NEW c \in Calls, NEW n \in 0 .. MaxBatch, Execute(c, n)
       PROVE  Counted'
  <2>1. /\ calls[c] \in Call /\ calls[c] # None /\ calls[c].pc = "executing"
        /\ calls[c].of \in Approvals
    BY <1>12 DEF Execute, TypeOK, Call, Order, CallsAreOrderly, Orderly
  <2>2. /\ calls'[c].acted /\ calls'[c].of = calls[c].of /\ calls'[c].pc = "thinking"
        /\ \A d \in Calls \ {c} : calls'[d] = calls[d]
    BY <1>12, <2>1 DEF Execute, TypeOK, Call
  <2>3. calls'[c] # None
    BY <1>12, ExecutedCall DEF NoneAssumption, Order
  <2>4. /\ executed' = [executed EXCEPT ![calls[c].of] = @ + 1]
        /\ UNCHANGED <<overwrites, file, cut>>
    BY <1>12 DEF Execute
  <2>5. \A a \in Approvals : cut[a] <= cut'[a]
    BY <2>4 DEF TypeOK
  <2> QED
    BY <2>1, <2>2, <2>3, <2>4, <2>5, ExecutionCounted
<1>13. ASSUME NEW c \in Calls, ExecuteWithoutGrant(c)
       PROVE  Counted'
  <2>1. calls[c] # None /\ calls[c].pc = "executing" /\ calls[c].of \in Approvals
    BY <1>13 DEF ExecuteWithoutGrant, TypeOK, Call, Order, CallsAreOrderly, Orderly
  <2>2. calls'[c] = None /\ \A d \in Calls \ {c} : calls'[d] = calls[d]
    BY <1>13 DEF ExecuteWithoutGrant, Returns, TypeOK
  <2>3. /\ cut'[calls[c].of] = cut[calls[c].of] + 1
        /\ \A a \in Approvals : cut[a] <= cut'[a]
    BY <1>13, <2>1 DEF ExecuteWithoutGrant, TypeOK
  <2> QED
    BY <1>13, <2>1, <2>2, <2>3, ExecutionCounted DEF ExecuteWithoutGrant
<1>14. ASSUME NEW c \in Calls, NEW effect \in BOOLEAN, ExecuteFails(c, effect)
       PROVE  Counted'
  <2>1. /\ calls[c] \in Call /\ calls[c] # None /\ calls[c].pc = "executing"
        /\ calls[c].of \in Approvals /\ ~calls[c].acted
    BY <1>14 DEF ExecuteFails, TypeOK, Call, Order, CallsAreOrderly, Orderly
  <2>2. /\ calls'[c].acted = effect /\ calls'[c].of = calls[c].of
        /\ calls'[c].pc = "thinking"
        /\ \A d \in Calls \ {c} : calls'[d] = calls[d]
    BY <1>14, <2>1 DEF ExecuteFails, TypeOK, Call
  <2>3. CASE effect
    <3>1. calls'[c] # None
      BY <1>14, FailedCall DEF NoneAssumption
    <3>2. /\ executed' = [executed EXCEPT ![calls[c].of] = @ + 1]
          /\ UNCHANGED <<overwrites, file, cut>>
      BY <1>14, <2>3 DEF ExecuteFails
    <3>3. \A a \in Approvals : cut[a] <= cut'[a]
      BY <3>2 DEF TypeOK
    <3> QED
      BY <2>1, <2>2, <2>3, <3>1, <3>2, <3>3, ExecutionCounted
  <2>4. CASE ~effect
    BY <1>14, <2>1, <2>2, <2>4, QuietKept DEF ExecuteFails
  <2> QED
    BY <2>3, <2>4
<1>15. ASSUME NEW c \in Calls, LoadsUnlocked(c)
       PROVE  Counted'
  BY <1>15, QuietKept DEF LoadsUnlocked, Starts, TypeOK
<1>16. ASSUME NEW c \in Calls, SavesUnlocked(c)
       PROVE  Counted'
  <2>1. ~calls[c].acted
    BY <1>16 DEF SavesUnlocked, InFlight, Order, CallsAreOrderly, Orderly
  <2>2. calls'[c] = None /\ \A d \in Calls \ {c} : calls'[d] = calls[d]
    BY <1>16 DEF SavesUnlocked, Returns, TypeOK
  <2>3. UNCHANGED <<executed, cut>>
    BY <1>16 DEF SavesUnlocked
  <2>4. CASE file = calls[c].copy
    BY <1>16, <2>1, <2>2, <2>3, <2>4, QuietKept DEF SavesUnlocked
  <2>5. CASE file # calls[c].copy
    <3>1. overwrites' = overwrites + 1 /\ overwrites \in Nat
      BY <1>16, <2>5 DEF SavesUnlocked, TypeOK, SessionAssumption
    <3>2. \A a \in Approvals : executed[a] \in Nat /\ cut[a] \in Nat
      BY DEF TypeOK
    <3>3. \A a \in Approvals : executed[a] <= 1 + cut[a] + overwrites
      BY DEF Counted, ExecutedOnceButForFaults
    <3>4. \A a \in Approvals : executed'[a] <= cut'[a] + overwrites'
      BY <2>3, <3>1, <3>2, <3>3
    <3>5. \A a \in Approvals : executed'[a] <= 1 + cut'[a] + overwrites'
      BY <2>3, <3>1, <3>2, <3>3
    <3> QED
      BY <3>4, <3>5 DEF Counted, ExecutedOnceButForFaults, EarlierExecutionsWereLost
  <2> QED
    BY <2>4, <2>5
<1>17. ASSUME NEW c \in Calls, NotCompressed(c)
       PROVE  Counted'
  <2>1. ~calls[c].acted
    BY <1>17 DEF NotCompressed, InFlight, Order, CallsAreOrderly, Orderly
  <2> QED
    BY <1>17, <2>1, QuietKept DEF NotCompressed, Returns, TypeOK
<1>18. CASE Delete
  BY <1>18 DEF Delete, Counted, ExecutedOnceButForFaults, EarlierExecutionsWereLost,
     MayExecute, ActedOn
<1>19. CASE Crash
  <2>1. \A c \in Calls : calls'[c] = None
    BY <1>19 DEF Crash
  <2>2. ASSUME NEW c \in Calls, calls[c] # None, calls[c].acted
        PROVE  calls[c].of \in Approvals /\ cut' = [cut EXCEPT ![calls[c].of] = @ + 1]
    <3>1. lock = c /\ calls[c].pc = "thinking"
      BY <2>2, OneIsBusy DEF Order, CallsAreOrderly, Orderly
    <3>2. calls[c].of \in Approvals
      BY <2>2 DEF TypeOK, Call, Order, CallsAreOrderly, Orderly
    <3> QED
      BY <1>19, <2>2, <3>1, <3>2 DEF Crash, Forgets
  <2>3. \A a \in Approvals : cut[a] <= cut'[a]
    BY <1>19, <2>2 DEF Crash, Forgets, TypeOK
  <2> QED
    BY <1>19, <2>1, <2>2, <2>3, LossCounted DEF Crash, TypeOK
<1>20. CASE SaveSettings
  BY <1>20 DEF SaveSettings, Counted, ExecutedOnceButForFaults, EarlierExecutionsWereLost,
     MayExecute, ActedOn
<1>21. ASSUME NEW a \in Approvals, Expire(a)
       PROVE  Counted'
  BY <1>21 DEF Expire, Counted, ExecutedOnceButForFaults, EarlierExecutionsWereLost,
     MayExecute, ActedOn
<1>22. ASSUME NEW e \in Events, Announce(e)
       PROVE  Counted'
  BY <1>22 DEF Announce, Counted, ExecutedOnceButForFaults, EarlierExecutionsWereLost,
     MayExecute, ActedOn
<1>23. CASE UNCHANGED vars
  BY <1>23 DEF vars, Counted, ExecutedOnceButForFaults, EarlierExecutionsWereLost,
     MayExecute, ActedOn
<1> QED
  BY <1>1, <1>2, <1>3, <1>4, <1>5, <1>6, <1>7, <1>8, <1>9, <1>10, <1>11, <1>12, <1>13,
     <1>14, <1>15, <1>16, <1>17, <1>18, <1>19, <1>20, <1>21, <1>22, <1>23
     DEF Next, Turn, Decision, Unlocked

(***************************************************************************)
(* The theorems.                                                           *)
(***************************************************************************)
Inv == TypeOK /\ Order /\ Counted

\* The initial states satisfy the invariant ...
LEMMA Initially ==
    ASSUME SessionAssumption, NoneAssumption, Init
    PROVE  Inv
<1>1. TypeOK
  BY DEF Init, TypeOK, SessionAssumption
<1>2. Order
  BY DEF Init, Order, LockIsHeld, PendingHasItsLoop, OnlyAskedApprovals, CallsAreOrderly,
     InjectedEventsWereTold, SessionAssumption
<1>3. Counted
  BY DEF Init, Counted, ExecutedOnceButForFaults, EarlierExecutionsWereLost, SessionAssumption
<1> QED
  BY <1>1, <1>2, <1>3 DEF Inv

\* ... and every step keeps it.
LEMMA Inductive ==
    ASSUME SessionAssumption, NoneAssumption, Inv, [Next]_vars
    PROVE  Inv'
<1>1. TypeOK'
  BY TypeKept DEF Inv, Order
<1>2. Order'
  BY <1>1, OrderKept DEF Inv
<1>3. Counted'
  BY <1>1, CountKept DEF Inv
<1> QED
  BY <1>1, <1>2, <1>3 DEF Inv

(* The inductive invariant holds in every reachable state.                 *)
THEOREM Invariance == Spec => []Inv
BY SessionAssumption, NoneAssumption, Initially, Inductive, PTL DEF Spec

(* Every state of a conversation is well-formed: checkpoints, calls and    *)
(* counters keep their form, whatever requests interleave or crash.        *)
THEOREM TypeCorrect == Spec => []TypeOK
BY Invariance, PTL DEF Inv

(* Every stored checkpoint that waits for an approval holds its loop, so   *)
(* that approve and deny can always resume the turn.                       *)
THEOREM LoopIsKept == Spec => []PendingHasItsLoop
BY Invariance, PTL DEF Inv, Order

(* One approval lets its tool act once, and once more only for each        *)
(* attempt cut off before the save and each older copy saved over it.      *)
THEOREM OnceButForFaults == Spec => []ExecutedOnceButForFaults
BY Invariance, PTL DEF Inv, Counted

(* The inbox forgets an announcement only after a saved turn told it.      *)
THEOREM NoAnnouncementIsLost == Spec => []InjectedEventsWereTold
BY Invariance, PTL DEF Inv, Order

-----------------------------------------------------------------------------
(***************************************************************************)
(* Decisions on approvals stand, and say what happened.  The lock is what  *)
(* makes them: while a request works on a copy of the checkpoint, nobody   *)
(* but an unlocked save gives the file other decisions.                    *)
(***************************************************************************)

-----------------------------------------------------------------------------
(* Checkpoints.                                                            *)

\* What waits is not decided, and what is decided was asked for.
Sound(ck, requested) ==
  /\ ck.pending # None => ck.decided[ck.pending] = None
  /\ \A a \in Approvals : ck.decided[a] # None => a \in requested

\* Planning decides nothing.
LEMMA TakesDecided ==
  ASSUME NEW k \in Call, NEW n
  PROVE  Takes(k, n).decided = k.copy.decided
BY DEF Takes, Call, Checkpoint

\* An expired approval is decided, and no other changes.
LEMMA ExpiredDecided ==
  ASSUME NEW ck \in Checkpoint, ck.pending \in Approvals
  PROVE  Expired(ck).decided = [ck.decided EXCEPT ![ck.pending] = "expired"]
BY DEF Expired, Decided, Checkpoint

\* A saved turn has recorded the outcome of its approval.
LEMMA EndedDecided ==
  ASSUME NEW k \in Call, NEW ck \in Checkpoint, NEW a,
         k.of # None => k.outcome \in Decisions
  PROVE  Ended(k, ck, a).decided =
           IF k.of = None THEN ck.decided ELSE [ck.decided EXCEPT ![k.of] = k.outcome]
<1>1. CASE k.of = None
  BY <1>1 DEF Ended, Checkpoint
<1>2. CASE k.of # None
  <2>1. Decided(ck, k.of, k.outcome) \in Checkpoint
    BY <1>2, DecidedType DEF Call
  <2>2. Decided(ck, k.of, k.outcome).decided = [ck.decided EXCEPT ![k.of] = k.outcome]
    BY <1>2 DEF Decided, Checkpoint
  <2> QED
    BY <1>2, <2>1, <2>2 DEF Ended, Checkpoint
<1> QED
  BY <1>1, <1>2

\* An expired approval leaves a checkpoint of which every decision stands.
LEMMA ExpiredSound ==
  ASSUME NEW ck \in Checkpoint, NEW requested, ck.pending \in Approvals,
         ck.pending \in requested, Sound(ck, requested)
  PROVE  Sound(Expired(ck), requested)
<1>1. ck.decided \in [Approvals -> Decisions \cup {None}]
  BY DEF Checkpoint
<1> QED
  BY <1>1, ExpiredFields, ExpiredDecided DEF Sound

\* So does a turn that ends, with a new question or without.
LEMMA EndedSound ==
  ASSUME NEW k \in Call, NEW ck \in Checkpoint, NEW a, NEW requested,
         k.of # None => k.outcome \in Decisions,
         k.of \in requested \cup {None},
         Sound(ck, requested),
         a # None => a \in Approvals /\ a \notin requested,
         NEW more, requested \subseteq more
  PROVE  Sound(Ended(k, ck, a), more)
<1>1. ck.decided \in [Approvals -> Decisions \cup {None}] /\ k.of \in Approvals \cup {None}
  BY DEF Checkpoint, Call
<1>2. /\ Ended(k, ck, a).pending = a
      /\ Ended(k, ck, a).decided =
           IF k.of = None THEN ck.decided ELSE [ck.decided EXCEPT ![k.of] = k.outcome]
  BY EndedFields, EndedDecided
<1>3. \A b \in Approvals : b # k.of => Ended(k, ck, a).decided[b] = ck.decided[b]
  BY <1>1, <1>2
<1>4. a # None => Ended(k, ck, a).decided[a] = None
  BY <1>3 DEF Sound
<1>5. \A b \in Approvals : Ended(k, ck, a).decided[b] # None => b \in more
  BY <1>1, <1>2, <1>3 DEF Sound
<1> QED
  BY <1>2, <1>4, <1>5 DEF Sound

-----------------------------------------------------------------------------
(* The file and its holder.                                                *)

\* A request that holds the lock and has not saved.
Busy(k) == k # None /\ k.op \in Serialized /\ k.pc # "marking"

\* It works on the approval its copy waits for.
SoundCall(k, requested) ==
  k # None =>
    /\ Sound(k.copy, requested)
    /\ k.pc \in {"executing", "thinking"} => k.copy.pending = k.of

Agree(k, ck) == k.copy.decided = ck.decided /\ k.copy.pending = ck.pending

Standing ==
  /\ file # None => Sound(file, asked)
  /\ \A c \in Calls : SoundCall(calls[c], asked)
  /\ overwrites = 0 /\ file # None =>
       \A c \in Calls : Busy(calls[c]) => Agree(calls[c], file)

\* A step of call c alone.
LEMMA OneCallStands ==
  ASSUME TypeOK, Order, Standing, SessionAssumption, NEW c \in Calls,
         \A d \in Calls \ {c} : calls'[d] = calls[d],
         asked \subseteq asked', overwrites' = 0 => overwrites = 0,
         SoundCall(calls'[c], asked'),
         file' # None => Sound(file', asked'),
         overwrites' = 0 /\ file' # None /\ Busy(calls'[c]) => Agree(calls'[c], file'),
         file' = file \/ lock = c \/ overwrites' # 0
  PROVE  Standing'
<1>1. \A d \in Calls \ {c} : SoundCall(calls'[d], asked')
  BY DEF Standing, SoundCall, Sound
<1>2. ASSUME overwrites' = 0, file' # None, NEW d \in Calls \ {c}, Busy(calls[d])
      PROVE  Agree(calls[d], file')
  <2>1. lock = d
    BY <1>2 DEF Busy, Order, LockIsHeld
  <2> QED
    BY <1>2, <2>1 DEF Standing
<1>3. (overwrites = 0 /\ file # None =>
         \A d \in Calls : Busy(calls[d]) => Agree(calls[d], file))'
  BY <1>2 DEF Busy, Agree
<1> QED
  BY <1>1, <1>3 DEF Standing

\* The end of a call, which leaves the file or replaces it by a sound one.
LEMMA ReturnStands ==
  ASSUME TypeOK, Order, Standing, SessionAssumption, NEW c \in Calls, Returns(c),
         asked \subseteq asked', overwrites' = 0 => overwrites = 0,
         file' # None => Sound(file', asked'),
         file' = file \/ lock = c \/ overwrites' # 0
  PROVE  Standing'
<1>1. calls'[c] = None /\ \A d \in Calls \ {c} : calls'[d] = calls[d]
  BY DEF Returns, TypeOK
<1> QED
  BY <1>1, OneCallStands DEF SoundCall, Busy

\* What is known of a call that thinks or executes.
LEMMA BusyFacts ==
  ASSUME TypeOK, Order, Standing, SessionAssumption, NEW c \in Calls, calls[c] # None,
         calls[c].pc \in {"thinking", "executing"}
  PROVE  /\ calls[c] \in Call /\ calls[c].copy \in Checkpoint
         /\ calls[c].op \in Serialized /\ Busy(calls[c]) /\ lock = c
         /\ calls[c].of \in asked \cup {None}
         /\ calls[c].copy.pending = calls[c].of
         /\ Sound(calls[c].copy, asked)
         /\ calls[c].pc = "thinking" /\ calls[c].of # None => calls[c].outcome \in Decisions
<1>1. calls[c] \in Call /\ calls[c].copy \in Checkpoint
  BY DEF TypeOK, Call
<1>2. Orderly(calls[c], items, told)
  BY DEF Order, CallsAreOrderly
<1>3. calls[c].op \in Serialized
  BY <1>1, <1>2 DEF Orderly, Serialized
<1>4. lock = c
  BY <1>3 DEF Order, LockIsHeld
<1>5. calls[c].of \in asked \cup {None}
  BY DEF Order, OnlyAskedApprovals
<1>6. calls[c].copy.pending = calls[c].of /\ Sound(calls[c].copy, asked)
  BY DEF Standing, SoundCall
<1>7. calls[c].pc = "thinking" /\ calls[c].of # None => calls[c].outcome \in Decisions
  BY <1>1, <1>2 DEF Orderly, Call
<1> QED
  BY <1>1, <1>3, <1>4, <1>5, <1>6, <1>7 DEF Busy

\* A turn that is saved, with a new approval or none.
LEMMA SaveStands ==
  ASSUME TypeOK, TypeOK', Order, Standing, SessionAssumption, NoneAssumption,
         NEW c \in Calls, calls[c] # None, calls[c].pc = "thinking",
         NEW ck \in Checkpoint, ck.decided = calls[c].copy.decided,
         ck.pending = calls[c].copy.pending,
         NEW a, a # None => a \in Approvals /\ a \notin asked,
         asked \subseteq asked', overwrites' = overwrites, Saves(c, ck, a)
  PROVE  Standing'
<1>1. Sound(ck, asked) /\ lock = c
  BY BusyFacts DEF Sound
<1>2. file' = Ended(calls[c], ck, a) /\ Sound(Ended(calls[c], ck, a), asked')
  BY <1>1, BusyFacts, EndedSound DEF Saves
<1>3. CASE calls[c].seen = {}
  BY <1>1, <1>2, <1>3, ReturnStands DEF Saves
<1>4. CASE calls[c].seen # {}
  <2>1. calls' = [calls EXCEPT ![c].pc = "marking"]
    BY <1>4 DEF Saves
  <2>2. /\ \A d \in Calls \ {c} : calls'[d] = calls[d]
        /\ calls'[c].pc = "marking" /\ calls'[c].copy = calls[c].copy
    BY <2>1, BusyFacts DEF TypeOK, Call
  <2>3. SoundCall(calls'[c], asked')
    BY <2>2, BusyFacts DEF SoundCall, Sound
  <2> QED
    BY <1>1, <1>2, <2>2, <2>3, OneCallStands DEF Busy
<1> QED
  BY <1>3, <1>4

\* Every step keeps the copies sound and the holder's in step with the file.
LEMMA StandingKept ==
  ASSUME TypeOK, TypeOK', Order, Standing, SessionAssumption, NoneAssumption, [Next]_vars
  PROVE  Standing'
<1> USE DEF outside, effects
<1>1. ASSUME NEW c \in Calls, RunStarts(c)
      PROVE  Standing'
  <2> DEFINE ck == IF file = None THEN NewCheckpoint ELSE file
  <2>1. ck \in Checkpoint /\ ck.pending = None /\ Sound(ck, asked)
    BY <1>1, NewCheckpointType DEF RunStarts, NewCheckpoint, TypeOK, Standing, Sound
  <2>2. calls' = [calls EXCEPT ![c] = Thinks(ck)]
    BY <1>1 DEF RunStarts
  <2>3. file # None => ck = file
    OBVIOUS
  <2> HIDE DEF ck
  <2>4. calls'[c] = Thinks(ck) /\ \A d \in Calls \ {c} : calls'[d] = calls[d]
    BY <2>2 DEF TypeOK
  <2>5. calls'[c].copy = ck /\ calls'[c].of = None /\ calls'[c].pc = "thinking"
    BY <2>4 DEF Thinks, Starts
  <2>6. SoundCall(calls'[c], asked)
    BY <2>1, <2>5 DEF SoundCall
  <2> QED
    BY <1>1, <2>3, <2>4, <2>5, <2>6, OneCallStands DEF RunStarts, Standing, Agree
<1>2. ASSUME NEW c \in Calls, RunLoadsExpired(c)
      PROVE  Standing'
  <2>1. /\ calls'[c] = Starts("run", "loaded", file)
        /\ \A d \in Calls \ {c} : calls'[d] = calls[d]
    BY <1>2 DEF RunLoadsExpired, TypeOK
  <2>2. calls'[c].copy = file /\ calls'[c].pc = "loaded"
    BY <2>1 DEF Starts
  <2>3. SoundCall(calls'[c], asked)
    BY <1>2, <2>2 DEF SoundCall, RunLoadsExpired, Standing
  <2> QED
    BY <1>2, <2>1, <2>2, <2>3, OneCallStands DEF RunLoadsExpired, Standing, Agree
<1>3. ASSUME NEW c \in Calls, RunExpires(c)
      PROVE  Standing'
  <2> DEFINE ck == Expired(calls[c].copy)
  <2>1. /\ calls[c] \in Call /\ calls[c].copy \in Checkpoint
        /\ calls[c].copy.pending \in Approvals
    BY <1>3 DEF RunExpires, InFlight, TypeOK, Call, Checkpoint, Order, CallsAreOrderly, Orderly
  <2>2. calls[c].copy.pending \in asked /\ lock = c
    BY <1>3, <2>1 DEF RunExpires, InFlight, Order, OnlyAskedApprovals, LockIsHeld, Serialized,
       SessionAssumption
  <2>3. Sound(ck, asked) /\ ck.pending = None
    BY <1>3, <2>1, <2>2, ExpiredSound, ExpiredFields DEF RunExpires, InFlight, Standing, SoundCall
  <2>4. file' = ck /\ calls' = [calls EXCEPT ![c] = Thinks(ck)]
    BY <1>3 DEF RunExpires
  <2> HIDE DEF ck
  <2>5. calls'[c] = Thinks(ck) /\ \A d \in Calls \ {c} : calls'[d] = calls[d]
    BY <2>4 DEF TypeOK
  <2>6. calls'[c].copy = ck /\ calls'[c].of = None /\ calls'[c].pc = "thinking"
    BY <2>5 DEF Thinks, Starts
  <2>7. SoundCall(calls'[c], asked)
    BY <2>3, <2>6 DEF SoundCall
  <2> QED
    BY <1>3, <2>2, <2>3, <2>4, <2>5, <2>6, <2>7, OneCallStands DEF RunExpires, Agree
<1>4. ASSUME NEW c \in Calls, NEW n \in 1 .. MaxItems, NEW run \in BOOLEAN, Plan(c, n, run)
      PROVE  Standing'
  <2>1. calls[c] # None /\ calls[c].pc = "thinking" /\ calls[c] \in Call
    BY <1>4 DEF Plan, TypeOK
  <2>2. /\ \A d \in Calls \ {c} : calls'[d] = calls[d]
        /\ calls'[c].copy = Takes(calls[c], n) /\ calls'[c].pc = "thinking"
        /\ calls'[c].of = calls[c].of
    BY <1>4, <2>1 DEF Plan, TypeOK, Call
  <2>3. /\ calls'[c].copy.decided = calls[c].copy.decided
        /\ calls'[c].copy.pending = calls[c].copy.pending
    BY <2>1, <2>2, TakesDecided, TakesFields
  <2>4. SoundCall(calls'[c], asked)
    BY <2>1, <2>2, <2>3, BusyFacts DEF SoundCall, Sound
  <2> QED
    BY <1>4, <2>1, <2>2, <2>3, <2>4, BusyFacts, OneCallStands DEF Plan, Standing, Agree
<1>5. ASSUME NEW c \in Calls, NEW a \in Approvals, NEW n \in 0 .. MaxItems, Pause(c, a, n)
      PROVE  Standing'
  <2>1. calls[c] \in Call /\ calls[c] # None /\ calls[c].pc = "thinking"
    BY <1>5 DEF Pause, TypeOK
  <2>2. n \in Nat /\ n <= Quota(calls[c])
    BY <1>5, <2>1 DEF Pause, Quota, Call, Checkpoint, SessionAssumption
  <2>3. /\ Takes(calls[c], n) \in Checkpoint
        /\ Takes(calls[c], n).decided = calls[c].copy.decided
        /\ Takes(calls[c], n).pending = calls[c].copy.pending
    BY <2>1, <2>2, TakesType, TakesDecided, TakesFields
  <2>4. /\ Saves(c, Takes(calls[c], n), a) /\ a \notin asked /\ asked \subseteq asked'
        /\ overwrites' = overwrites
    BY <1>5 DEF Pause
  <2> QED
    BY <2>1, <2>3, <2>4, SaveStands
<1>6. ASSUME NEW c \in Calls, Answer(c)
      PROVE  Standing'
  <2>1. calls[c] # None /\ calls[c].pc = "thinking" /\ calls[c].copy \in Checkpoint
    BY <1>6 DEF Answer, TypeOK, Call
  <2>2. Saves(c, calls[c].copy, None) /\ asked' = asked /\ overwrites' = overwrites
    BY <1>6 DEF Answer
  <2> QED
    BY <2>1, <2>2, SaveStands
<1>7. ASSUME NEW c \in Calls,
             MarkInjected(c) \/ AgentRaises(c) \/ ExecuteWithoutGrant(c) \/ NotCompressed(c)
      PROVE  Standing'
  <2>1. Returns(c) /\ UNCHANGED <<file, asked, overwrites>>
    BY <1>7 DEF MarkInjected, AgentRaises, ExecuteWithoutGrant, NotCompressed
  <2> QED
    BY <2>1, ReturnStands DEF Standing
<1>8. ASSUME NEW c \in Calls, NEW a \in Approvals, NEW g \in BOOLEAN,
             Approve(c, a, g) \/ Deny(c, a)
      PROVE  Standing'
  <2>1. /\ file # None /\ file.pending = a
        /\ UNCHANGED <<file, asked, overwrites>>
    BY <1>8 DEF Approve, Deny, Asks
  <2>2. /\ calls'[c].copy = file /\ calls'[c].of = a
        /\ \A d \in Calls \ {c} : calls'[d] = calls[d]
    <3>1. CASE Approve(c, a, g)
      BY <3>1 DEF Approve, Starts, TypeOK
    <3>2. CASE Deny(c, a)
      BY <3>2 DEF Deny, Starts, TypeOK
    <3> QED
      BY <1>8, <3>1, <3>2
  <2>3. SoundCall(calls'[c], asked)
    BY <2>1, <2>2 DEF SoundCall, Standing
  <2> QED
    BY <2>1, <2>2, <2>3, OneCallStands DEF Standing, Agree
<1>9. ASSUME NEW c \in Calls, DecisionExpires(c)
      PROVE  Standing'
  <2>1. /\ calls[c] \in Call /\ calls[c].copy \in Checkpoint
        /\ calls[c].copy.pending \in Approvals
    BY <1>9 DEF DecisionExpires, InFlight, TypeOK, Call, Checkpoint, Order, CallsAreOrderly,
       Orderly
  <2>2. calls[c].copy.pending \in asked /\ lock = c
    BY <1>9, <2>1 DEF DecisionExpires, InFlight, Order, OnlyAskedApprovals, LockIsHeld, Serialized,
       SessionAssumption
  <2>3. Sound(Expired(calls[c].copy), asked)
    BY <1>9, <2>1, <2>2, ExpiredSound DEF DecisionExpires, InFlight, Standing, SoundCall
  <2> QED
    BY <1>9, <2>2, <2>3, ReturnStands DEF DecisionExpires
<1>10. ASSUME NEW c \in Calls, NEW n \in 0 .. MaxBatch, Execute(c, n)
       PROVE  Standing'
  <2>1. calls[c] # None /\ calls[c].pc = "executing" /\ calls[c] \in Call
    BY <1>10 DEF Execute, TypeOK
  <2>2. /\ \A d \in Calls \ {c} : calls'[d] = calls[d]
        /\ calls'[c].of = calls[c].of
        /\ calls'[c].copy.decided = calls[c].copy.decided
        /\ calls'[c].copy.pending = calls[c].copy.pending
    BY <1>10, <2>1 DEF Execute, TypeOK, Call, Checkpoint
  <2>3. SoundCall(calls'[c], asked)
    BY <2>1, <2>2, BusyFacts DEF SoundCall, Sound
  <2> QED
    BY <1>10, <2>1, <2>2, <2>3, BusyFacts, OneCallStands DEF Execute, Standing, Agree
<1>11. ASSUME NEW c \in Calls, NEW effect \in BOOLEAN, ExecuteFails(c, effect)
       PROVE  Standing'
  <2>1. calls[c] # None /\ calls[c].pc = "executing" /\ calls[c] \in Call
    BY <1>11 DEF ExecuteFails, TypeOK
  <2>2. /\ \A d \in Calls \ {c} : calls'[d] = calls[d]
        /\ calls'[c].of = calls[c].of /\ calls'[c].copy = calls[c].copy
    BY <1>11, <2>1 DEF ExecuteFails, TypeOK, Call
  <2>3. SoundCall(calls'[c], asked)
    BY <2>1, <2>2, BusyFacts DEF SoundCall
  <2> QED
    BY <1>11, <2>1, <2>2, <2>3, BusyFacts, OneCallStands DEF ExecuteFails, Standing, Agree
<1>12. ASSUME NEW c \in Calls, LoadsUnlocked(c)
       PROVE  Standing'
  <2>1. /\ calls'[c] = Starts("compact", "loaded", file)
        /\ \A d \in Calls \ {c} : calls'[d] = calls[d]
    BY <1>12 DEF LoadsUnlocked, TypeOK
  <2>2. calls'[c].copy = file /\ calls'[c].pc = "loaded" /\ calls'[c].op = "compact"
    BY <2>1 DEF Starts
  <2>3. SoundCall(calls'[c], asked)
    BY <1>12, <2>2 DEF SoundCall, LoadsUnlocked, Standing
  <2> QED
    BY <1>12, <2>1, <2>2, <2>3, OneCallStands DEF LoadsUnlocked, Standing, Agree
<1>13. ASSUME NEW c \in Calls, SavesUnlocked(c)
       PROVE  Standing'
  <2>1. /\ Sound(calls[c].copy, asked) /\ file' = calls[c].copy /\ asked' = asked
        /\ Returns(c)
    BY <1>13 DEF SavesUnlocked, InFlight, Standing, SoundCall
  <2>2. /\ overwrites' = 0 => overwrites = 0
        /\ file' = file \/ overwrites' # 0
    BY <1>13 DEF SavesUnlocked, TypeOK, SessionAssumption
  <2> QED
    BY <2>1, <2>2, ReturnStands
<1>14. CASE Delete
  BY <1>14 DEF Delete, Standing
<1>15. CASE Crash
  BY <1>15 DEF Crash, Standing, SoundCall, Busy
<1>16. CASE UNCHANGED <<file, calls, asked, overwrites>>
  BY <1>16 DEF Standing
<1>17. ASSUME \/ SaveSettings
              \/ \E a \in Approvals : Expire(a)
              \/ \E e \in Events : Announce(e)
              \/ UNCHANGED vars
       PROVE  UNCHANGED <<file, calls, asked, overwrites>>
  BY <1>17 DEF SaveSettings, Expire, Announce, vars
<1> QED
  BY <1>1, <1>2, <1>3, <1>4, <1>5, <1>6, <1>7, <1>8, <1>9, <1>10, <1>11, <1>12, <1>13,
     <1>14, <1>15, <1>16, <1>17 DEF Next, Turn, Decision, Unlocked

-----------------------------------------------------------------------------
(* Decisions stand.                                                        *)

\* A step leaves decided what was, and what no longer waits is decided.
Stand ==
  file # None /\ file' # None /\ overwrites' = 0 =>
    \A a \in Approvals :
      /\ file.decided[a] # None => file'.decided[a] = file.decided[a]
      /\ file.pending = a /\ file'.pending # a => file'.decided[a] # None

\* Whoever holds the lock decides the approval that waits, and nothing else.
LEMMA HolderStands ==
  ASSUME TypeOK, Standing, SessionAssumption, NoneAssumption,
         NEW c \in Calls, Busy(calls[c]), overwrites' = overwrites,
         file' # None =>
           \/ file'.decided = calls[c].copy.decided /\ calls[c].copy.pending = None
           \/ /\ calls[c].copy.pending \in Approvals
              /\ \E d \in Decisions :
                   file'.decided = [calls[c].copy.decided EXCEPT ![calls[c].copy.pending] = d]
  PROVE  Stand
<1> SUFFICES ASSUME file # None, file' # None, overwrites = 0, NEW a \in Approvals
             PROVE  /\ file.decided[a] # None => file'.decided[a] = file.decided[a]
                    /\ file.pending = a /\ file'.pending # a => file'.decided[a] # None
  BY DEF Stand
<1>1. /\ file.decided = calls[c].copy.decided /\ file.pending = calls[c].copy.pending
      /\ file.decided \in [Approvals -> Decisions \cup {None}]
      /\ file.pending # None => file.decided[file.pending] = None
  BY DEF Standing, Agree, Sound, TypeOK, Checkpoint
<1>2. CASE file'.decided = file.decided /\ file.pending = None
  BY <1>2 DEF SessionAssumption
<1>3. ASSUME file.pending \in Approvals, NEW d \in Decisions,
             file'.decided = [file.decided EXCEPT ![file.pending] = d]
      PROVE  /\ file.decided[a] # None => file'.decided[a] = file.decided[a]
             /\ file.pending = a => file'.decided[a] # None
  <2>1. d # None /\ file.decided[file.pending] = None
    BY <1>1, <1>3 DEF NoneAssumption, SessionAssumption
  <2> QED
    BY <1>1, <1>3, <2>1
<1> QED
  BY <1>1, <1>2, <1>3

\* Only the holder's saves and deletion change the file, but for older copies.
LEMMA StepStands ==
  ASSUME TypeOK, Order, Standing, SessionAssumption, NoneAssumption, [Next]_vars
  PROVE  Stand
<1> USE DEF outside, effects
<1>1. ASSUME NEW c \in Calls, RunExpires(c) \/ DecisionExpires(c)
      PROVE  Stand
  <2>1. /\ calls[c] # None /\ calls[c].pc = "loaded" /\ calls[c].op \in Serialized
        /\ file' = Expired(calls[c].copy) /\ overwrites' = overwrites
    BY <1>1 DEF RunExpires, DecisionExpires, InFlight, Serialized
  <2>2. /\ calls[c].copy \in Checkpoint /\ calls[c].copy.pending \in Approvals
    BY <2>1 DEF TypeOK, Call, Checkpoint, Order, CallsAreOrderly, Orderly, Serialized
  <2>3. file'.decided = [calls[c].copy.decided EXCEPT ![calls[c].copy.pending] = "expired"]
    BY <2>1, <2>2, ExpiredDecided
  <2> QED
    BY <2>1, <2>2, <2>3, HolderStands DEF Busy, Decisions
<1>2. ASSUME NEW c \in Calls, NEW a \in Approvals, NEW n \in 0 .. MaxItems,
             Pause(c, a, n) \/ Answer(c)
      PROVE  Stand
  <2>1. calls[c] \in Call /\ calls[c] # None /\ calls[c].pc = "thinking"
    BY <1>2 DEF Pause, Answer, TypeOK
  <2>2. PICK ck \in Checkpoint, b \in Approvals \cup {None} :
          ck.decided = calls[c].copy.decided /\ Saves(c, ck, b)
    <3>1. CASE Answer(c)
      BY <3>1, <2>1 DEF Answer, Call
    <3>2. CASE Pause(c, a, n)
      <4>1. n \in Nat /\ n <= Quota(calls[c])
        BY <3>2, <2>1 DEF Pause, Quota, Call, Checkpoint, SessionAssumption
      <4> QED
        BY <3>2, <2>1, <4>1, TakesType, TakesDecided DEF Pause
    <3> QED
      BY <1>2, <3>1, <3>2
  <2>3. overwrites' = overwrites
    BY <1>2 DEF Pause, Answer
  <2>4. /\ Busy(calls[c]) /\ calls[c].copy.pending = calls[c].of
        /\ calls[c].of # None => calls[c].outcome \in Decisions
    BY <2>1, BusyFacts
  <2>5. file'.decided = IF calls[c].of = None THEN ck.decided
                        ELSE [ck.decided EXCEPT ![calls[c].of] = calls[c].outcome]
    BY <2>1, <2>2, <2>4, EndedDecided DEF Saves
  <2>6. calls[c].of \in Approvals \cup {None}
    BY <2>1 DEF Call
  <2> QED
    BY <2>2, <2>3, <2>4, <2>5, <2>6, HolderStands
<1>3. ASSUME NEW c \in Calls, SavesUnlocked(c)
      PROVE  Stand
  BY <1>3 DEF SavesUnlocked, TypeOK, SessionAssumption, Stand
<1>4. CASE Delete
  BY <1>4 DEF Delete, Stand
<1>5. CASE UNCHANGED file
  BY <1>5 DEF Stand
<1>6. ASSUME NEW c \in Calls,
             \/ RunStarts(c) \/ RunLoadsExpired(c) \/ MarkInjected(c) \/ AgentRaises(c)
             \/ \E n \in 1 .. MaxItems, run \in BOOLEAN : Plan(c, n, run)
             \/ \E a \in Approvals, g \in BOOLEAN : Approve(c, a, g)
             \/ \E a \in Approvals : Deny(c, a)
             \/ \E n \in 0 .. MaxBatch : Execute(c, n)
             \/ ExecuteWithoutGrant(c)
             \/ \E effect \in BOOLEAN : ExecuteFails(c, effect)
             \/ LoadsUnlocked(c) \/ NotCompressed(c)
      PROVE  UNCHANGED file
  BY <1>6 DEF RunStarts, RunLoadsExpired, MarkInjected, AgentRaises, Plan, Approve, Deny,
     Execute, ExecuteWithoutGrant, ExecuteFails, LoadsUnlocked, NotCompressed
<1>7. ASSUME \/ Crash \/ SaveSettings
             \/ \E a \in Approvals : Expire(a)
             \/ \E e \in Events : Announce(e)
             \/ UNCHANGED vars
      PROVE  UNCHANGED file
  BY <1>7 DEF Crash, SaveSettings, Expire, Announce, vars
<1>8. ASSUME NEW c \in Calls, Answer(c)
      PROVE  Stand
  <2>1. CASE Approvals = {}
    BY <2>1 DEF Stand
  <2>2. CASE Approvals # {}
    <3>1. 0 \in 0 .. MaxItems
      BY DEF SessionAssumption
    <3> QED
      BY <1>2, <1>8, <2>2, <3>1
  <2> QED
    BY <2>1, <2>2
<1> QED
  BY <1>1, <1>2, <1>3, <1>4, <1>5, <1>6, <1>7, <1>8 DEF Next, Turn, Decision, Unlocked

\* The copies and the file are in step in every reachable state.
THEOREM HolderAgrees == Spec => []Standing
<1>1. Init => Standing
  BY DEF Init, Standing, SoundCall, SessionAssumption
<1>2. Inv /\ Inv' /\ Standing /\ [Next]_vars => Standing'
  BY StandingKept, SessionAssumption, NoneAssumption DEF Inv
<1> QED
  BY <1>1, <1>2, Invariance, PTL DEF Spec

(* A decision stands, and an approval leaves the checkpoint by a decision,  *)
(* whatever turns, decisions, answers and deaths of the process interleave, *)
(* unless an unlocked save brought back an older copy.                      *)
THEOREM DecisionsAlwaysStand == Spec => DecisionsStand
<1>1. Inv /\ Standing /\ [Next]_vars => [Stand]_vars
  BY StepStands, SessionAssumption, NoneAssumption DEF Inv
<1>2. Spec => [][Stand]_vars
  BY <1>1, Invariance, HolderAgrees, PTL DEF Spec
<1> QED
  BY <1>2 DEF DecisionsStand, Stand

-----------------------------------------------------------------------------
(* Decisions are true.                                                     *)

\* Checkpoint ck against the executions done, those lost, and n overwrites.
TellsDone(ck, done) ==
  \A a \in Approvals : ck.decided[a] = "approved" => done[a] > 0

TellsUndone(ck, done, lost, n) ==
  \A a \in Approvals : ck.decided[a] \in {"denied", "expired"} =>
    done[a] = 0 \/ lost[a] > 0 \/ n > 0

\* What call k has found out, and may record, is true.  What it has yet to
\* execute or to refuse was not executed without a loss.
TrueCall(k, done, lost, n) ==
  k # None =>
    /\ TellsDone(k.copy, done)
    /\ k.outcome = "approved" => k.of \in Approvals /\ done[k.of] > 0
    /\ k.outcome = "denied" => k.op = "deny"
    /\ k.outcome # "expired"
    /\ Busy(k) =>
         /\ TellsUndone(k.copy, done, lost, n)
         /\ ~ k.acted /\ k.copy.pending # None =>
              done[k.copy.pending] <= lost[k.copy.pending] + n

Truth ==
  /\ file # None =>
       TellsDone(file, executed) /\ TellsUndone(file, executed, cut, overwrites)
  /\ \A c \in Calls : TrueCall(calls[c], executed, cut, overwrites)

\* A step of call c alone, which executes nothing but what it holds.
LEMMA OneCallTrue ==
  ASSUME TypeOK, TypeOK', Order, Standing, Truth, SessionAssumption, NoneAssumption,
         NEW c \in Calls,
         \A d \in Calls \ {c} : calls'[d] = calls[d],
         \A a \in Approvals : executed[a] <= executed'[a] /\ cut[a] <= cut'[a],
         overwrites <= overwrites',
         \A a \in Approvals : executed'[a] # executed[a] =>
           lock = c /\ Busy(calls[c]) /\ calls[c].copy.pending = a,
         TrueCall(calls'[c], executed', cut', overwrites'),
         \/ file' = file
         \/ file' # None => /\ TellsDone(file', executed')
                            /\ TellsUndone(file', executed', cut', overwrites')
  PROVE  Truth'
<1>1. /\ \A a \in Approvals : /\ executed[a] \in Nat /\ executed'[a] \in Nat
                              /\ cut[a] \in Nat /\ cut'[a] \in Nat
      /\ overwrites \in Nat /\ overwrites' \in Nat
  BY DEF TypeOK, SessionAssumption
<1>2. ASSUME NEW d \in Calls \ {c}, calls[d] # None
      PROVE  TrueCall(calls[d], executed', cut', overwrites')
  <2>1. TrueCall(calls[d], executed, cut, overwrites) /\ calls[d] \in Call
    BY <1>2 DEF Truth, TypeOK
  <2>2. TellsDone(calls[d].copy, executed')
    BY <1>1, <1>2, <2>1 DEF TrueCall, TellsDone
  <2>3. calls[d].outcome = "approved" =>
          calls[d].of \in Approvals /\ executed'[calls[d].of] > 0
    BY <1>1, <1>2, <2>1 DEF TrueCall
  <2>4. ASSUME Busy(calls[d])
        PROVE  /\ TellsUndone(calls[d].copy, executed', cut', overwrites')
               /\ ~ calls[d].acted /\ calls[d].copy.pending # None =>
                    executed'[calls[d].copy.pending]
                      <= cut'[calls[d].copy.pending] + overwrites'
    <3>1. lock = d
      BY <2>4 DEF Busy, Order, LockIsHeld
    <3>2. \A a \in Approvals : executed'[a] = executed[a]
      BY <3>1
    <3>3. calls[d].copy.pending \in Approvals \cup {None}
      BY <2>1, <1>2 DEF Call, Checkpoint
    <3>4. TellsUndone(calls[d].copy, executed', cut', overwrites')
      BY <1>1, <1>2, <2>1, <2>4, <3>2 DEF TrueCall, TellsUndone
    <3>5. ~ calls[d].acted /\ calls[d].copy.pending # None =>
            executed'[calls[d].copy.pending] <= cut'[calls[d].copy.pending] + overwrites'
      BY <1>1, <1>2, <2>1, <2>4, <3>2, <3>3 DEF TrueCall
    <3> QED
      BY <3>4, <3>5
  <2> QED
    BY <1>2, <2>1, <2>2, <2>3, <2>4 DEF TrueCall
<1>3. ASSUME file' = file, file # None
      PROVE  /\ TellsDone(file, executed')
             /\ TellsUndone(file, executed', cut', overwrites')
  <2>1. TellsDone(file, executed')
    BY <1>1, <1>3 DEF Truth, TellsDone
  <2>2. ASSUME NEW a \in Approvals, file.decided[a] \in {"denied", "expired"},
               overwrites' = 0
        PROVE  executed'[a] = 0 \/ cut'[a] > 0
    <3>1. overwrites = 0
      BY <1>1, <2>2
    <3>2. executed[a] = 0 \/ cut[a] > 0
      BY <1>1, <1>3, <2>2, <3>1 DEF Truth, TellsUndone
    <3>3. executed'[a] = executed[a]
      <4> SUFFICES ASSUME executed'[a] # executed[a]
                   PROVE  FALSE
        OBVIOUS
      <4>1. Agree(calls[c], file) /\ calls[c].copy.pending = a
        BY <1>3, <3>1 DEF Standing
      <4>2. file.decided[a] = None
        BY <1>3, <4>1 DEF Standing, Sound, Agree, SessionAssumption
      <4> QED
        BY <2>2, <4>2 DEF NoneAssumption, Decisions
    <3> QED
      BY <1>1, <3>2, <3>3
  <2>3. TellsUndone(file, executed', cut', overwrites')
    BY <1>1, <2>2 DEF TellsUndone
  <2> QED
    BY <2>1, <2>3
<1>4. \A d \in Calls \ {c} : TrueCall(calls'[d], executed', cut', overwrites')
  BY <1>2 DEF TrueCall
<1> QED
  BY <1>3, <1>4 DEF Truth

\* The end of a call that leaves the file.
LEMMA ReturnTrue ==
  ASSUME TypeOK, TypeOK', Order, Standing, Truth, SessionAssumption, NoneAssumption,
         NEW c \in Calls, Returns(c),
         \A a \in Approvals : executed[a] <= executed'[a] /\ cut[a] <= cut'[a],
         overwrites <= overwrites',
         \A a \in Approvals : executed'[a] # executed[a] =>
           lock = c /\ Busy(calls[c]) /\ calls[c].copy.pending = a,
         \/ file' = file
         \/ file' # None => /\ TellsDone(file', executed')
                            /\ TellsUndone(file', executed', cut', overwrites')
  PROVE  Truth'
<1>1. calls'[c] = None /\ \A d \in Calls \ {c} : calls'[d] = calls[d]
  BY DEF Returns, TypeOK
<1>2. TrueCall(calls'[c], executed', cut', overwrites')
  BY <1>1 DEF TrueCall
<1> QED
  BY <1>1, <1>2, OneCallTrue

\* While nobody holds the lock, what waits was not executed without a loss.
LEMMA FreeApprovalIsUndone ==
  ASSUME TypeOK, Order, Counted, SessionAssumption, lock = None,
         file # None, file.pending \in Approvals
  PROVE  executed[file.pending] <= cut[file.pending] + overwrites
<1>1. ~ ActedOn(file.pending)
  BY OneIsBusy DEF ActedOn, SessionAssumption
<1>2. MayExecute(file.pending)
  BY DEF MayExecute
<1> QED
  BY <1>1, <1>2 DEF Counted, EarlierExecutionsWereLost

\* What expires or is saved tells the truth.
LEMMA ExpiredTrue ==
  ASSUME TypeOK, SessionAssumption, NEW k \in Call, Busy(k), ~ k.acted,
         k.copy.pending \in Approvals, TrueCall(k, executed, cut, overwrites), k # None
  PROVE  /\ TellsDone(Expired(k.copy), executed)
         /\ TellsUndone(Expired(k.copy), executed, cut, overwrites)
<1>1. k.copy \in Checkpoint /\ k.copy.decided \in [Approvals -> Decisions \cup {None}]
  BY DEF Call, Checkpoint
<1>2. Expired(k.copy).decided = [k.copy.decided EXCEPT ![k.copy.pending] = "expired"]
  BY <1>1, ExpiredDecided
<1>3. \A a \in Approvals : executed[a] \in Nat /\ cut[a] \in Nat /\ overwrites \in Nat
  BY DEF TypeOK, SessionAssumption
<1>4. executed[k.copy.pending] <= cut[k.copy.pending] + overwrites
  BY DEF TrueCall, SessionAssumption
<1>5. executed[k.copy.pending] = 0 \/ cut[k.copy.pending] > 0 \/ overwrites > 0
  BY <1>3, <1>4
<1> QED
  BY <1>1, <1>2, <1>5 DEF TrueCall, TellsDone, TellsUndone

\* What a turn that ends says of its decision is true.
LEMMA EndedTrue ==
  ASSUME TypeOK, SessionAssumption, NoneAssumption, NEW k \in Call, k # None, Busy(k),
         k.acted => k.op = "approve", k.copy.pending = k.of,
         k.of # None => k.outcome \in Decisions,
         NEW ck \in Checkpoint, ck.decided = k.copy.decided, NEW a,
         TrueCall(k, executed, cut, overwrites)
  PROVE  /\ TellsDone(Ended(k, ck, a), executed)
         /\ TellsUndone(Ended(k, ck, a), executed, cut, overwrites)
<1>1. ck.decided \in [Approvals -> Decisions \cup {None}] /\ k.of \in Approvals \cup {None}
  BY DEF Call, Checkpoint
<1>2. Ended(k, ck, a).decided =
        IF k.of = None THEN ck.decided ELSE [ck.decided EXCEPT ![k.of] = k.outcome]
  BY EndedDecided
<1>3. \A b \in Approvals : executed[b] \in Nat /\ cut[b] \in Nat /\ overwrites \in Nat
  BY DEF TypeOK, SessionAssumption
<1>4. k.of # None /\ k.outcome = "denied" =>
        executed[k.of] = 0 \/ cut[k.of] > 0 \/ overwrites > 0
  <2> SUFFICES ASSUME k.of # None, k.outcome = "denied"
               PROVE  executed[k.of] = 0 \/ cut[k.of] > 0 \/ overwrites > 0
    OBVIOUS
  <2>1. ~ k.acted
    BY DEF TrueCall
  <2>2. executed[k.of] <= cut[k.of] + overwrites
    BY <2>1 DEF TrueCall
  <2> QED
    BY <1>1, <1>3, <2>2
<1>5. /\ \A b \in Approvals : b # k.of => Ended(k, ck, a).decided[b] = ck.decided[b]
      /\ k.of # None => Ended(k, ck, a).decided[k.of] = k.outcome
      /\ k.of = None => Ended(k, ck, a).decided = ck.decided
  BY <1>1, <1>2
<1>6. TellsDone(ck, executed) /\ TellsUndone(ck, executed, cut, overwrites)
  BY DEF TrueCall, TellsDone, TellsUndone
<1>7. TellsDone(Ended(k, ck, a), executed)
  BY <1>1, <1>5, <1>6 DEF TrueCall, TellsDone
<1>8. TellsUndone(Ended(k, ck, a), executed, cut, overwrites)
  BY <1>1, <1>4, <1>5, <1>6 DEF TrueCall, TellsUndone
<1> QED
  BY <1>7, <1>8

\* A cut off call loses no loss.
LEMMA ForgetsMore ==
  ASSUME TypeOK, CallsAreOrderly, NEW ended, Forgets(ended),
         \A c \in ended : c \in Calls /\ calls[c] # None
  PROVE  \A a \in Approvals : cut[a] <= cut'[a]
<1>1. CASE lock \in ended /\ calls[lock].pc # "marking"
  BY <1>1 DEF Forgets, TypeOK
<1>2. CASE ~ (lock \in ended /\ calls[lock].pc # "marking")
  BY <1>2 DEF Forgets, TypeOK
<1> QED
  BY <1>1, <1>2

\* A saved turn.
LEMMA SaveTrue ==
  ASSUME TypeOK, TypeOK', Order, Standing, Truth, SessionAssumption, NoneAssumption,
         NEW c \in Calls, calls[c] # None, calls[c].pc = "thinking",
         NEW ck \in Checkpoint, ck.decided = calls[c].copy.decided,
         NEW a, Saves(c, ck, a), UNCHANGED <<executed, cut, overwrites>>
  PROVE  Truth'
<1>1. TrueCall(calls[c], executed, cut, overwrites)
  BY DEF Truth
<1>2. calls[c].acted => calls[c].op = "approve"
  BY DEF Order, CallsAreOrderly, Orderly
<1>3. /\ TellsDone(file', executed)
      /\ TellsUndone(file', executed, cut, overwrites)
  BY <1>1, <1>2, BusyFacts, EndedTrue DEF Saves
<1>4. \A b \in Approvals : executed[b] <= executed'[b] /\ cut[b] <= cut'[b]
  BY DEF TypeOK
<1>5. overwrites <= overwrites'
  BY DEF TypeOK, SessionAssumption
<1>6. CASE calls[c].seen = {}
  BY <1>3, <1>4, <1>5, <1>6, ReturnTrue DEF Saves
<1>7. CASE calls[c].seen # {}
  <2>1. calls' = [calls EXCEPT ![c].pc = "marking"]
    BY <1>7 DEF Saves
  <2>2. /\ \A d \in Calls \ {c} : calls'[d] = calls[d]
        /\ calls'[c].pc = "marking" /\ calls'[c].copy = calls[c].copy
        /\ calls'[c].outcome = calls[c].outcome /\ calls'[c].of = calls[c].of
        /\ calls'[c].op = calls[c].op
    BY <2>1, BusyFacts DEF TypeOK, Call
  <2>3. TrueCall(calls'[c], executed, cut, overwrites)
    BY <1>1, <2>2 DEF TrueCall, Busy
  <2> QED
    BY <1>3, <1>4, <1>5, <2>2, <2>3, OneCallTrue
<1> QED
  BY <1>6, <1>7

\* Every step keeps copies and outcomes true.
LEMMA TruthKept ==
  ASSUME TypeOK, TypeOK', Order, Counted, Standing, Truth,
         SessionAssumption, NoneAssumption, [Next]_vars
  PROVE  Truth'
<1> USE DEF outside, effects
<1>a. ASSUME UNCHANGED <<executed, cut, overwrites>>
      PROVE  /\ \A a \in Approvals : executed[a] <= executed'[a] /\ cut[a] <= cut'[a]
             /\ overwrites <= overwrites'
  BY <1>a DEF TypeOK, SessionAssumption
<1>b. None \notin {"approved", "denied", "failed", "expired"}
  BY DEF NoneAssumption, Decisions
<1>1. ASSUME NEW c \in Calls, RunStarts(c)
      PROVE  Truth'
  <2> DEFINE ck == IF file = None THEN NewCheckpoint ELSE file
  <2>1. /\ ck.pending = None /\ TellsDone(ck, executed)
        /\ TellsUndone(ck, executed, cut, overwrites)
    BY <1>1, <1>b DEF RunStarts, NewCheckpoint, Truth, TellsDone, TellsUndone
  <2>2. calls' = [calls EXCEPT ![c] = Thinks(ck)]
    BY <1>1 DEF RunStarts
  <2> HIDE DEF ck
  <2>3. calls'[c] = Thinks(ck) /\ \A d \in Calls \ {c} : calls'[d] = calls[d]
    BY <2>2 DEF TypeOK
  <2>4. calls'[c].copy = ck /\ calls'[c].outcome = None
    BY <2>3 DEF Thinks, Starts
  <2>5. TrueCall(calls'[c], executed, cut, overwrites)
    BY <1>b, <2>1, <2>4 DEF TrueCall
  <2> QED
    BY <1>1, <1>a, <2>3, <2>5, OneCallTrue DEF RunStarts
<1>2. ASSUME NEW c \in Calls, RunLoadsExpired(c)
      PROVE  Truth'
  <2>1. /\ calls'[c] = Starts("run", "loaded", file)
        /\ \A d \in Calls \ {c} : calls'[d] = calls[d]
    BY <1>2 DEF RunLoadsExpired, TypeOK
  <2>2. calls'[c].copy = file /\ calls'[c].outcome = None
    BY <2>1 DEF Starts
  <2>3. executed[file.pending] <= cut[file.pending] + overwrites
    BY <1>2, FreeApprovalIsUndone DEF RunLoadsExpired, TypeOK
  <2>4. TrueCall(calls'[c], executed, cut, overwrites)
    BY <1>2, <1>b, <2>2, <2>3 DEF TrueCall, RunLoadsExpired, Truth
  <2> QED
    BY <1>2, <1>a, <2>1, <2>4, OneCallTrue DEF RunLoadsExpired
<1>3. ASSUME NEW c \in Calls, RunExpires(c) \/ DecisionExpires(c)
      PROVE  Truth'
  <2> DEFINE ck == Expired(calls[c].copy)
  <2>1. /\ calls[c] # None /\ calls[c].pc = "loaded" /\ calls[c].op \in Serialized
        /\ file' = ck /\ UNCHANGED <<executed, cut, overwrites>>
    BY <1>3 DEF RunExpires, DecisionExpires, InFlight, Serialized
  <2>2. /\ calls[c] \in Call /\ calls[c].copy \in Checkpoint
        /\ calls[c].copy.pending \in Approvals /\ ~ calls[c].acted
    BY <2>1 DEF TypeOK, Call, Checkpoint, Order, CallsAreOrderly, Orderly, Serialized
  <2>3. /\ TellsDone(ck, executed) /\ TellsUndone(ck, executed, cut, overwrites)
        /\ ck.pending = None
    BY <2>1, <2>2, ExpiredTrue, ExpiredFields DEF Busy, Truth
  <2> HIDE DEF ck
  <2>4. CASE DecisionExpires(c)
    BY <1>a, <2>1, <2>3, <2>4, ReturnTrue DEF DecisionExpires
  <2>5. CASE RunExpires(c)
    <3>1. calls' = [calls EXCEPT ![c] = Thinks(ck)]
      BY <2>5 DEF RunExpires, ck
    <3>2. calls'[c] = Thinks(ck) /\ \A d \in Calls \ {c} : calls'[d] = calls[d]
      BY <3>1 DEF TypeOK
    <3>3. calls'[c].copy = ck /\ calls'[c].outcome = None
      BY <3>2 DEF Thinks, Starts
    <3>4. TrueCall(calls'[c], executed, cut, overwrites)
      BY <1>b, <2>3, <3>3 DEF TrueCall
    <3> QED
      BY <1>a, <2>1, <2>3, <3>2, <3>4, OneCallTrue
  <2> QED
    BY <1>3, <2>4, <2>5
<1>4. ASSUME NEW c \in Calls, NEW n \in 1 .. MaxItems, NEW run \in BOOLEAN, Plan(c, n, run)
      PROVE  Truth'
  <2>1. /\ calls[c] # None /\ calls[c].pc = "thinking" /\ calls[c] \in Call
        /\ UNCHANGED <<file, executed, cut, overwrites>>
    BY <1>4 DEF Plan, TypeOK
  <2>2. /\ \A d \in Calls \ {c} : calls'[d] = calls[d]
        /\ calls'[c].copy = Takes(calls[c], n)
        /\ calls'[c].of = calls[c].of /\ calls'[c].op = calls[c].op
        /\ calls'[c].outcome = calls[c].outcome /\ calls'[c].acted = calls[c].acted
    BY <1>4, <2>1 DEF Plan, TypeOK, Call
  <2>3. /\ calls'[c].copy.decided = calls[c].copy.decided
        /\ calls'[c].copy.pending = calls[c].copy.pending
    BY <2>1, <2>2, TakesDecided, TakesFields
  <2>4. TrueCall(calls[c], executed, cut, overwrites) /\ Busy(calls[c])
    BY <2>1, BusyFacts DEF Truth
  <2>5. TrueCall(calls'[c], executed, cut, overwrites)
    BY <2>1, <2>2, <2>3, <2>4 DEF TrueCall, TellsDone, TellsUndone
  <2> QED
    BY <1>a, <2>1, <2>2, <2>5, OneCallTrue
<1>5. ASSUME NEW c \in Calls, NEW a \in Approvals, NEW n \in 0 .. MaxItems, Pause(c, a, n)
      PROVE  Truth'
  <2>1. calls[c] \in Call /\ calls[c] # None /\ calls[c].pc = "thinking"
    BY <1>5 DEF Pause, TypeOK
  <2>2. n \in Nat /\ n <= Quota(calls[c])
    BY <1>5, <2>1 DEF Pause, Quota, Call, Checkpoint, SessionAssumption
  <2>3. /\ Takes(calls[c], n) \in Checkpoint
        /\ Takes(calls[c], n).decided = calls[c].copy.decided
    BY <2>1, <2>2, TakesType, TakesDecided
  <2>4. Saves(c, Takes(calls[c], n), a) /\ UNCHANGED <<executed, cut, overwrites>>
    BY <1>5 DEF Pause
  <2> QED
    BY <2>1, <2>3, <2>4, SaveTrue
<1>6. ASSUME NEW c \in Calls, Answer(c)
      PROVE  Truth'
  <2>1. calls[c] # None /\ calls[c].pc = "thinking" /\ calls[c].copy \in Checkpoint
    BY <1>6 DEF Answer, TypeOK, Call
  <2>2. Saves(c, calls[c].copy, None) /\ UNCHANGED <<executed, cut, overwrites>>
    BY <1>6 DEF Answer
  <2> QED
    BY <2>1, <2>2, SaveTrue
<1>7. ASSUME NEW c \in Calls, MarkInjected(c) \/ NotCompressed(c)
      PROVE  Truth'
  <2>1. Returns(c) /\ UNCHANGED <<file, executed, cut, overwrites>>
    BY <1>7 DEF MarkInjected, NotCompressed
  <2> QED
    BY <1>a, <2>1, ReturnTrue
<1>8. ASSUME NEW c \in Calls, AgentRaises(c)
      PROVE  Truth'
  <2>1. Returns(c) /\ Forgets({c}) /\ calls[c] # None /\ UNCHANGED <<file, executed, overwrites>>
    BY <1>8 DEF AgentRaises
  <2>2. \A a \in Approvals : executed[a] <= executed'[a] /\ cut[a] <= cut'[a]
    BY <2>1, ForgetsMore DEF TypeOK, Order
  <2>3. overwrites <= overwrites'
    BY <2>1 DEF TypeOK, SessionAssumption
  <2> QED
    BY <2>1, <2>2, <2>3, ReturnTrue
<1>9. ASSUME NEW c \in Calls, NEW a \in Approvals, NEW g \in BOOLEAN,
             Approve(c, a, g) \/ Deny(c, a)
      PROVE  Truth'
  <2>1. /\ file # None /\ file.pending = a /\ lock = None
        /\ UNCHANGED <<file, executed, cut, overwrites>>
    BY <1>9 DEF Approve, Deny, Asks
  <2>2. /\ calls'[c].copy = file
        /\ calls'[c].outcome = None
             \/ (calls'[c].outcome = "denied" /\ calls'[c].op = "deny")
        /\ \A d \in Calls \ {c} : calls'[d] = calls[d]
    <3>1. CASE Approve(c, a, g)
      BY <3>1 DEF Approve, Starts, TypeOK
    <3>2. CASE Deny(c, a)
      BY <3>2 DEF Deny, Starts, TypeOK
    <3> QED
      BY <1>9, <3>1, <3>2
  <2>3. executed[file.pending] <= cut[file.pending] + overwrites
    BY <2>1, FreeApprovalIsUndone
  <2>4. TrueCall(calls'[c], executed, cut, overwrites)
    BY <1>b, <2>1, <2>2, <2>3 DEF TrueCall, Truth
  <2> QED
    BY <1>a, <2>1, <2>2, <2>4, OneCallTrue
<1>10. ASSUME NEW c \in Calls,
              \/ \E n \in 0 .. MaxBatch : Execute(c, n)
              \/ ExecuteWithoutGrant(c)
              \/ \E effect \in BOOLEAN : ExecuteFails(c, effect)
       PROVE  Truth'
  <2>1. /\ calls[c] # None /\ calls[c].pc = "executing" /\ calls[c] \in Call
        /\ UNCHANGED <<file, overwrites>>
        /\ executed' \in {executed, [executed EXCEPT ![calls[c].of] = @ + 1]}
        /\ cut' \in {cut, [cut EXCEPT ![calls[c].of] = @ + 1]}
    BY <1>10 DEF Execute, ExecuteWithoutGrant, ExecuteFails, TypeOK
  <2>2. /\ calls[c].of \in Approvals /\ calls[c].copy.pending = calls[c].of
        /\ Busy(calls[c]) /\ lock = c /\ calls[c].op = "approve"
        /\ calls[c].copy.decided \in [Approvals -> Decisions \cup {None}]
        /\ calls[c].copy.decided[calls[c].of] = None /\ ~ calls[c].acted
    BY <2>1, BusyFacts DEF Order, CallsAreOrderly, Orderly, Call, Checkpoint, Sound,
       SessionAssumption
  <2>3. /\ \A a \in Approvals : executed[a] <= executed'[a] /\ cut[a] <= cut'[a]
        /\ \A a \in Approvals : executed'[a] # executed[a] => a = calls[c].of
        /\ \A a \in Approvals : /\ executed[a] \in Nat /\ cut[a] \in Nat
                               /\ executed'[a] \in Nat /\ cut'[a] \in Nat
        /\ overwrites <= overwrites' /\ overwrites \in Nat
    BY <2>1, <2>2 DEF TypeOK, SessionAssumption
  <2>4. TrueCall(calls[c], executed, cut, overwrites)
    BY DEF Truth
  <2>5. /\ TellsDone(calls[c].copy, executed')
        /\ TellsUndone(calls[c].copy, executed', cut', overwrites)
    BY <1>b, <2>1, <2>2, <2>3, <2>4 DEF TrueCall, TellsDone, TellsUndone
  <2>6. CASE ExecuteWithoutGrant(c)
    BY <2>1, <2>2, <2>3, <2>6, ReturnTrue DEF ExecuteWithoutGrant
  <2>7. ASSUME NEW n \in 0 .. MaxBatch, Execute(c, n)
        PROVE  Truth'
    <3>1. /\ \A d \in Calls \ {c} : calls'[d] = calls[d]
          /\ calls'[c].of = calls[c].of /\ calls'[c].op = calls[c].op
          /\ calls'[c].copy.decided = calls[c].copy.decided
          /\ calls'[c].copy.pending = calls[c].copy.pending
          /\ calls'[c].outcome = "approved" /\ calls'[c].acted
      BY <2>1, <2>7 DEF Execute, TypeOK, Call, Checkpoint
    <3>2. executed'[calls[c].of] > 0
      BY <2>2, <2>7 DEF Execute, TypeOK
    <3>3. TrueCall(calls'[c], executed', cut', overwrites)
      BY <2>2, <2>5, <3>1, <3>2 DEF TrueCall, TellsDone, TellsUndone
    <3> QED
      BY <2>1, <2>2, <2>3, <3>1, <3>3, OneCallTrue
  <2>8. ASSUME NEW effect \in BOOLEAN, ExecuteFails(c, effect)
        PROVE  Truth'
    <3>1. /\ \A d \in Calls \ {c} : calls'[d] = calls[d]
          /\ calls'[c].op = calls[c].op /\ calls'[c].copy = calls[c].copy
          /\ calls'[c].outcome = "failed" /\ calls'[c].acted = effect
      BY <2>1, <2>8 DEF ExecuteFails, TypeOK, Call
    <3>2. ~ effect => executed' = executed
      BY <2>8 DEF ExecuteFails
    <3>3. cut' = cut
      BY <2>8 DEF ExecuteFails
    <3>4. TrueCall(calls'[c], executed', cut', overwrites)
      <4>1. CASE effect = TRUE
        BY <2>2, <2>5, <3>1, <4>1 DEF TrueCall
      <4>2. CASE effect = FALSE
        <5>1. executed' = executed /\ ~ calls'[c].acted
          BY <3>1, <3>2, <4>2
        <5>2. executed[calls[c].copy.pending] <= cut[calls[c].copy.pending] + overwrites
          BY <2>1, <2>2, <2>4 DEF TrueCall, SessionAssumption
        <5> QED
          BY <2>2, <2>5, <3>1, <3>3, <5>1, <5>2 DEF TrueCall
      <4> QED
        BY <4>1, <4>2
    <3> QED
      BY <2>1, <2>2, <2>3, <3>1, <3>4, OneCallTrue
  <2> QED
    BY <1>10, <2>6, <2>7, <2>8
<1>11. ASSUME NEW c \in Calls, LoadsUnlocked(c)
       PROVE  Truth'
  <2>1. /\ calls'[c] = Starts("compact", "loaded", file)
        /\ \A d \in Calls \ {c} : calls'[d] = calls[d]
    BY <1>11 DEF LoadsUnlocked, TypeOK
  <2>2. calls'[c].copy = file /\ calls'[c].outcome = None /\ calls'[c].op = "compact"
    BY <2>1 DEF Starts
  <2>3. TrueCall(calls'[c], executed, cut, overwrites)
    BY <1>11, <1>b, <2>2 DEF TrueCall, LoadsUnlocked, Truth, Busy, Serialized
  <2> QED
    BY <1>11, <1>a, <2>1, <2>3, OneCallTrue DEF LoadsUnlocked
<1>12. ASSUME NEW c \in Calls, SavesUnlocked(c)
       PROVE  Truth'
  <2>1. /\ calls[c] # None /\ file' = calls[c].copy /\ Returns(c)
        /\ UNCHANGED <<executed, cut>>
        /\ overwrites' = IF file = calls[c].copy THEN overwrites ELSE overwrites + 1
    BY <1>12 DEF SavesUnlocked, InFlight
  <2>2. overwrites <= overwrites' /\ (file' = file \/ overwrites' > 0)
    BY <2>1 DEF TypeOK, SessionAssumption
  <2>3. \A a \in Approvals : executed[a] <= executed'[a] /\ cut[a] <= cut'[a]
    BY <2>1 DEF TypeOK
  <2>4. TellsDone(file', executed)
    BY <2>1 DEF Truth, TrueCall
  <2> QED
    BY <2>1, <2>2, <2>3, <2>4, ReturnTrue DEF TellsUndone
<1>13. CASE Delete
  BY <1>13 DEF Delete, Truth
<1>14. CASE Crash
  <2>1. \A a \in Approvals : cut[a] <= cut'[a]
    BY <1>14, ForgetsMore DEF Crash, Order
  <2>2. \A c \in Calls : calls'[c] = None
    BY <1>14 DEF Crash
  <2>3. UNCHANGED <<file, executed, overwrites>>
    BY <1>14 DEF Crash
  <2>4. \A a \in Approvals : cut[a] \in Nat /\ cut'[a] \in Nat
    BY DEF TypeOK
  <2>5. file # None => TellsUndone(file, executed, cut', overwrites)
    BY <2>1, <2>4 DEF Truth, TellsUndone
  <2> QED
    BY <2>2, <2>3, <2>5 DEF Truth, TrueCall
<1>15. CASE UNCHANGED <<file, calls, executed, cut, overwrites>>
  BY <1>15 DEF Truth
<1>16. ASSUME \/ SaveSettings
              \/ \E a \in Approvals : Expire(a)
              \/ \E e \in Events : Announce(e)
              \/ UNCHANGED vars
       PROVE  UNCHANGED <<file, calls, executed, cut, overwrites>>
  BY <1>16 DEF SaveSettings, Expire, Announce, vars
<1> QED
  BY <1>1, <1>2, <1>3, <1>4, <1>5, <1>6, <1>7, <1>8, <1>9, <1>10, <1>11, <1>12, <1>13,
     <1>14, <1>15, <1>16 DEF Next, Turn, Decision, Unlocked

(* What a checkpoint records of an approval happened: an approved tool took *)
(* effect, a denied or expired one did not, unless an attempt was cut off   *)
(* or an older copy saved.                                                  *)
THEOREM DecisionsTellTheTruth == Spec => []DecisionsAreTrue
<1>1. Init => Truth
  BY DEF Init, Truth, TrueCall
<1>2. Inv /\ Inv' /\ Standing /\ Truth /\ [Next]_vars => Truth'
  BY TruthKept, SessionAssumption, NoneAssumption DEF Inv
<1>3. Truth => DecisionsAreTrue
  BY DEF Truth, TellsDone, TellsUndone, DecisionsAreTrue
<1> QED
  BY <1>1, <1>2, <1>3, Invariance, HolderAgrees, PTL DEF Spec

-----------------------------------------------------------------------------
(* Downloads without a question.                                           *)

\* What the grant of a checkpoint still allows.
Room(ck) ==
  IF ck # None /\ ck.used # None /\ ck.used < MaxItems THEN MaxItems - ck.used ELSE 0

Allowance == MaxItems * consents

\* What was submitted and what may still be, by the holder from its copy, or by
\* the next from the file when the holder's share is lost.
WithinAllowance(k) ==
  /\ items + Room(k.copy) <= Allowance
  /\ items - k.auto + Room(file) <= Allowance
  /\ k.pc = "executing" => k.auto = 0

Grants ==
  overwrites = 0 =>
    /\ \A c \in Calls : Busy(calls[c]) => WithinAllowance(calls[c])
    /\ (\A c \in Calls : ~ Busy(calls[c])) => items + Room(file) <= Allowance

\* Grants and rooms are numbers.
LEMMA Numbers ==
  ASSUME TypeOK, SessionAssumption
  PROVE  /\ items \in Nat /\ Allowance \in Nat /\ Room(file) \in Nat
         /\ \A ck \in Checkpoint : Room(ck) \in 0 .. MaxItems
         /\ \A c \in Calls : calls[c] # None =>
              calls[c] \in Call /\ Room(calls[c].copy) \in Nat /\ calls[c].auto \in Nat
<1>1. \A ck \in Checkpoint : Room(ck) \in 0 .. MaxItems
  BY DEF SessionAssumption, Checkpoint, Room
<1>2. Room(file) \in Nat
  BY <1>1 DEF TypeOK, Room, SessionAssumption
<1>3. \A c \in Calls : calls[c] # None =>
        calls[c] \in Call /\ Room(calls[c].copy) \in Nat /\ calls[c].auto \in Nat
  BY <1>1 DEF TypeOK, Call, SessionAssumption
<1>4. consents \in Nat /\ items \in Nat /\ MaxItems \in Nat
  BY DEF TypeOK, SessionAssumption
<1>5. Allowance \in Nat
  BY <1>4 DEF Allowance
<1> QED
  BY <1>1, <1>2, <1>3, <1>4, <1>5

\* Only the lock's holder is busy.
LEMMA BusyHolds ==
  ASSUME Order
  PROVE  \A c \in Calls : Busy(calls[c]) => lock = c
BY DEF Busy, Order, LockIsHeld

\* A step of the holder, or of a call that becomes it.
LEMMA HolderGrants ==
  ASSUME TypeOK, Order, SessionAssumption, NEW c \in Calls,
         \A d \in Calls \ {c} : calls'[d] = calls[d],
         lock = None \/ lock = c,
         overwrites' = 0 /\ Busy(calls'[c]) => WithinAllowance(calls[c])',
         overwrites' = 0 /\ ~ Busy(calls'[c]) => (items + Room(file) <= Allowance)'
  PROVE  Grants'
<1>1. \A d \in Calls \ {c} : ~ Busy(calls'[d])
  BY BusyHolds DEF SessionAssumption
<1>2. (overwrites = 0 =>
         /\ \A d \in Calls : Busy(calls[d]) => WithinAllowance(calls[d])
         /\ (\A d \in Calls : ~ Busy(calls[d])) => items + Room(file) <= Allowance)'
  BY <1>1 DEF Busy
<1> QED
  BY <1>2 DEF Grants

\* A step that submits nothing and leaves the file and its holder.
LEMMA QuietGrants ==
  ASSUME Grants, UNCHANGED <<file, items, consents>>, overwrites' = 0 => overwrites = 0,
         \A d \in Calls : calls'[d] = calls[d] \/ (~ Busy(calls[d]) /\ ~ Busy(calls'[d]))
  PROVE  Grants'
<1>1. \A d \in Calls : Busy(calls'[d]) = Busy(calls[d])
  BY DEF Busy
<1>2. \A d \in Calls : Busy(calls[d]) => calls'[d] = calls[d]
  OBVIOUS
<1>3. Room(file)' = Room(file) /\ Allowance' = Allowance
  BY DEF Room, Allowance
<1>4. ASSUME overwrites' = 0, NEW d \in Calls, Busy(calls'[d])
      PROVE  WithinAllowance(calls[d])'
  BY <1>1, <1>2, <1>3, <1>4 DEF Grants, WithinAllowance
<1>5. ASSUME overwrites' = 0, \A d \in Calls : ~ Busy(calls'[d])
      PROVE  (items + Room(file) <= Allowance)'
  BY <1>1, <1>3, <1>5 DEF Grants
<1>6. (overwrites = 0 =>
         /\ \A d \in Calls : Busy(calls[d]) => WithinAllowance(calls[d])
         /\ (\A d \in Calls : ~ Busy(calls[d])) => items + Room(file) <= Allowance)'
  BY <1>4, <1>5 DEF Busy
<1> QED
  BY <1>6 DEF Grants

\* The holder saves: its share is now in the file.
LEMMA SaveGrants ==
  ASSUME TypeOK, TypeOK', Order, Standing, Grants, SessionAssumption, NoneAssumption,
         NEW c \in Calls, calls[c] # None, calls[c].pc = "thinking",
         NEW ck \in Checkpoint, Room(ck) <= Room(calls[c].copy),
         NEW a, Saves(c, ck, a), UNCHANGED <<items, consents, overwrites>>
  PROVE  Grants'
<1>1. Ended(calls[c], ck, a).used = ck.used
  BY BusyFacts, DecidedType DEF Ended, Decided, Checkpoint, Call
<1>2. file' \in Checkpoint \cup {None} /\ file' = Ended(calls[c], ck, a)
  BY DEF TypeOK, Saves
<1>3. Room(file') <= Room(ck)
  BY <1>1, <1>2, Numbers DEF Room, SessionAssumption
<1>4. lock = c /\ Busy(calls[c]) /\ calls[c] \in Call
  BY BusyFacts
<1>5. overwrites = 0 => items + Room(calls[c].copy) <= Allowance
  BY <1>4 DEF Grants, WithinAllowance
<1>6. Room(file') \in Nat /\ Room(ck) \in Nat
  BY <1>2, Numbers DEF Room, SessionAssumption
<1>7. overwrites = 0 => (items + Room(file) <= Allowance)'
  <2>1. Room(file)' = Room(file') /\ Allowance' = Allowance
    BY DEF Room, Allowance
  <2> QED
    BY <1>3, <1>5, <1>6, <2>1, Numbers
<1>8. ~ Busy(calls'[c]) /\ \A d \in Calls \ {c} : calls'[d] = calls[d]
  BY <1>4 DEF Saves, Returns, TypeOK, Busy, Call
<1> QED
  BY <1>4, <1>7, <1>8, HolderGrants

\* The holder's call ends without a save, and its share is taken back.
LEMMA LossGrants ==
  ASSUME TypeOK, Order, Grants, SessionAssumption,
         NEW ended, \A c \in ended : c \in Calls /\ calls[c] # None,
         Forgets(ended), UNCHANGED <<file, consents, overwrites>>,
         \A c \in Calls : calls[c] # None => c \in ended \/ ~ Busy(calls[c]),
         \A c \in Calls : ~ Busy(calls'[c])
  PROVE  Grants'
<1>1. ASSUME overwrites = 0
      PROVE  items' + Room(file) <= Allowance
  <2>1. CASE lock \in ended /\ calls[lock].pc # "marking"
    <3>1. Busy(calls[lock]) /\ lock \in Calls
      BY <2>1 DEF Busy, Order, LockIsHeld
    <3>2. items' = items - calls[lock].auto
      BY <2>1 DEF Forgets
    <3> QED
      BY <1>1, <3>1, <3>2 DEF Grants, WithinAllowance
  <2>2. CASE ~ (lock \in ended /\ calls[lock].pc # "marking")
    <3>1. \A c \in Calls : ~ Busy(calls[c])
      BY <2>2, BusyHolds DEF Busy
    <3>2. items' = items
      BY <2>2 DEF Forgets
    <3> QED
      BY <1>1, <3>1, <3>2 DEF Grants
  <2> QED
    BY <2>1, <2>2
<1>2. Room(file)' = Room(file) /\ Allowance' = Allowance
  BY DEF Room, Allowance
<1>3. (overwrites = 0 =>
         /\ \A d \in Calls : Busy(calls[d]) => WithinAllowance(calls[d])
         /\ (\A d \in Calls : ~ Busy(calls[d])) => items + Room(file) <= Allowance)'
  BY <1>1, <1>2 DEF Busy
<1> QED
  BY <1>3 DEF Grants

\* Every step keeps downloads within the grants.
LEMMA GrantsKept ==
  ASSUME TypeOK, TypeOK', Order, Standing, Grants,
         SessionAssumption, NoneAssumption, [Next]_vars
  PROVE  Grants'
<1> USE DEF outside, effects
<1>1. ASSUME NEW c \in Calls, RunStarts(c)
      PROVE  Grants'
  <2> DEFINE ck == IF file = None THEN NewCheckpoint ELSE file
  <2>1. Room(ck) = Room(file)
    BY DEF NewCheckpoint, Room
  <2>2. calls' = [calls EXCEPT ![c] = Thinks(ck)]
    BY <1>1 DEF RunStarts
  <2> HIDE DEF ck
  <2>3. calls'[c] = Thinks(ck) /\ \A d \in Calls \ {c} : calls'[d] = calls[d]
    BY <2>2 DEF TypeOK
  <2>4. calls'[c].copy = ck /\ calls'[c].auto = 0
    BY <2>3 DEF Thinks, Starts
  <2>5. lock = None /\ UNCHANGED <<file, items, consents, overwrites>>
    BY <1>1 DEF RunStarts
  <2>6. \A d \in Calls : ~ Busy(calls[d])
    BY <2>5, BusyHolds DEF SessionAssumption
  <2>7. overwrites = 0 => items + Room(file) <= Allowance
    BY <2>6 DEF Grants
  <2>8. Allowance' = Allowance /\ Room(file)' = Room(file)
    BY <2>5 DEF Allowance, Room
  <2>9. overwrites = 0 => WithinAllowance(calls[c])' /\ (items + Room(file) <= Allowance)'
    BY <2>1, <2>4, <2>5, <2>7, <2>8, Numbers DEF WithinAllowance
  <2> QED
    BY <2>3, <2>5, <2>9, HolderGrants
<1>2. ASSUME NEW c \in Calls,
             \/ RunLoadsExpired(c)
             \/ \E a \in Approvals, g \in BOOLEAN : Approve(c, a, g)
             \/ \E a \in Approvals : Deny(c, a)
      PROVE  Grants'
  <2> DEFINE Loads == /\ calls'[c].copy = file /\ calls'[c].auto = 0
                      /\ \A d \in Calls \ {c} : calls'[d] = calls[d]
  <2>1. Loads
    <3>1. CASE RunLoadsExpired(c)
      BY <3>1 DEF RunLoadsExpired, Starts, TypeOK
    <3>2. ASSUME NEW a \in Approvals, NEW g \in BOOLEAN, Approve(c, a, g)
          PROVE  Loads
      BY <3>2 DEF Approve, Starts, TypeOK
    <3>3. ASSUME NEW a \in Approvals, Deny(c, a)
          PROVE  Loads
      BY <3>3 DEF Deny, Starts, TypeOK
    <3> QED
      BY <1>2, <3>1, <3>2, <3>3
  <2>2. lock = None /\ UNCHANGED <<file, items, consents, overwrites>>
    BY <1>2 DEF RunLoadsExpired, Approve, Deny, Asks
  <2>3. \A d \in Calls : ~ Busy(calls[d])
    BY <2>2, BusyHolds DEF SessionAssumption
  <2>4. overwrites = 0 => items + Room(file) <= Allowance
    BY <2>3 DEF Grants
  <2>5. Allowance' = Allowance /\ Room(file)' = Room(file)
    BY <2>2 DEF Allowance, Room
  <2>6. overwrites = 0 => WithinAllowance(calls[c])' /\ (items + Room(file) <= Allowance)'
    BY <2>1, <2>2, <2>4, <2>5, Numbers DEF WithinAllowance
  <2> QED
    BY <2>1, <2>2, <2>6, HolderGrants
<1>3. ASSUME NEW c \in Calls, RunExpires(c) \/ DecisionExpires(c)
      PROVE  Grants'
  <2> DEFINE ck == Expired(calls[c].copy)
  <2>1. /\ calls[c] # None /\ calls[c].pc = "loaded" /\ calls[c].op \in Serialized
        /\ file' = ck /\ UNCHANGED <<items, consents, overwrites>>
    BY <1>3 DEF RunExpires, DecisionExpires, InFlight, Serialized
  <2>2. /\ calls[c] \in Call /\ calls[c].copy \in Checkpoint
        /\ calls[c].copy.pending \in Approvals
    BY <2>1 DEF TypeOK, Call, Checkpoint, Order, CallsAreOrderly, Orderly, Serialized
  <2>3. ck \in Checkpoint /\ ck.used = calls[c].copy.used /\ Busy(calls[c])
    BY <2>1, <2>2, ExpiredType DEF Expired, Decided, Checkpoint, Busy
  <2> HIDE DEF ck
  <2>4. lock = c
    BY <2>3, BusyHolds
  <2>5. Room(ck) = Room(calls[c].copy)
    BY <2>2, <2>3 DEF Room, NoneAssumption
  <2>6. overwrites = 0 => items + Room(ck) <= Allowance
    BY <2>3, <2>5 DEF Grants, WithinAllowance
  <2>7. Allowance' = Allowance /\ Room(file)' = Room(ck)
    BY <2>1 DEF Allowance, Room
  <2>8. overwrites' = 0 => (items + Room(file) <= Allowance)'
    BY <2>1, <2>6, <2>7
  <2>9. CASE DecisionExpires(c)
    <3>1. ~ Busy(calls'[c]) /\ \A d \in Calls \ {c} : calls'[d] = calls[d]
      BY <2>9 DEF DecisionExpires, Returns, TypeOK, Busy
    <3> QED
      BY <2>4, <2>8, <3>1, HolderGrants
  <2>10. CASE RunExpires(c)
    <3>1. calls' = [calls EXCEPT ![c] = Thinks(ck)]
      BY <2>10 DEF RunExpires, ck
    <3>2. calls'[c] = Thinks(ck) /\ \A d \in Calls \ {c} : calls'[d] = calls[d]
      BY <3>1 DEF TypeOK
    <3>3. calls'[c].copy = ck /\ calls'[c].auto = 0
      BY <3>2 DEF Thinks, Starts
    <3>4. overwrites' = 0 => WithinAllowance(calls[c])'
      BY <2>1, <2>6, <2>7, <3>3, Numbers DEF WithinAllowance
    <3> QED
      BY <2>4, <2>8, <3>2, <3>4, HolderGrants
  <2> QED
    BY <1>3, <2>9, <2>10
<1>4. ASSUME NEW c \in Calls, NEW n \in 1 .. MaxItems, NEW run \in BOOLEAN, Plan(c, n, run)
      PROVE  Grants'
  <2> DEFINE ran == IF run THEN n ELSE 0
  <2>1. /\ calls[c] # None /\ calls[c].pc = "thinking" /\ n \in 1 .. Quota(calls[c])
        /\ UNCHANGED <<file, consents, overwrites>> /\ items' = items + ran
    BY <1>4 DEF Plan
  <2>2. ran \in 0 .. n /\ n \in Nat
    BY DEF SessionAssumption
  <2>3. Busy(calls[c]) /\ lock = c /\ calls[c] \in Call /\ calls[c].copy \in Checkpoint
    BY <2>1, BusyFacts
  <2>4. /\ \A d \in Calls \ {c} : calls'[d] = calls[d]
        /\ calls'[c].copy = Takes(calls[c], n) /\ calls'[c].auto = calls[c].auto + ran
        /\ calls'[c].op = calls[c].op /\ calls'[c].pc = calls[c].pc
    BY <1>4, <2>3 DEF Plan, TypeOK, Call
  <2>5. calls'[c] # None
    BY <1>4, PlannedCall DEF NoneAssumption
  <2> HIDE DEF ran
  <2>6. /\ calls[c].copy.used \in Nat /\ calls[c].copy.used + n <= MaxItems
        /\ Room(calls[c].copy) = MaxItems - calls[c].copy.used
        /\ calls[c].copy # None
    BY <2>1, <2>3 DEF Quota, Room, Checkpoint, SessionAssumption, NoneAssumption
  <2>7. Takes(calls[c], n).used = calls[c].copy.used + n
    BY <2>2, <2>3, <2>1 DEF Takes, Checkpoint
  <2>8. Room(Takes(calls[c], n)) <= Room(calls[c].copy) - n
    BY <2>2, <2>6, <2>7 DEF Room, SessionAssumption
  <2>9. Room(Takes(calls[c], n)) \in Nat
    BY <2>2, <2>6, <2>7 DEF Room, SessionAssumption
  <2>10. overwrites = 0 => WithinAllowance(calls[c])
    BY <2>3 DEF Grants
  <2>11. Allowance' = Allowance /\ Room(file)' = Room(file)
    BY <2>1 DEF Allowance, Room
  <2>12. overwrites = 0 => items' + Room(calls'[c].copy) <= Allowance
    BY <2>1, <2>2, <2>4, <2>8, <2>9, <2>10, Numbers DEF WithinAllowance
  <2>13. overwrites = 0 => items' - calls'[c].auto + Room(file) <= Allowance
    BY <2>1, <2>2, <2>3, <2>4, <2>10, Numbers DEF WithinAllowance
  <2>14. overwrites' = 0 => WithinAllowance(calls[c])'
    BY <2>1, <2>4, <2>11, <2>12, <2>13 DEF WithinAllowance
  <2>15. Busy(calls'[c])
    BY <2>3, <2>4, <2>5 DEF Busy
  <2> QED
    BY <2>3, <2>4, <2>14, <2>15, HolderGrants
<1>5. ASSUME NEW c \in Calls, NEW a \in Approvals, NEW n \in 0 .. MaxItems, Pause(c, a, n)
      PROVE  Grants'
  <2>1. /\ calls[c] \in Call /\ calls[c] # None /\ calls[c].pc = "thinking"
        /\ calls[c].copy \in Checkpoint
    BY <1>5 DEF Pause, TypeOK, Call
  <2>2. n \in Nat /\ n <= Quota(calls[c])
    BY <1>5, <2>1 DEF Pause, Quota, Call, Checkpoint, SessionAssumption
  <2>3. Takes(calls[c], n) \in Checkpoint
    BY <2>1, <2>2, TakesType
  <2>4. Room(Takes(calls[c], n)) <= Room(calls[c].copy)
    <3>1. CASE n = 0
      BY <2>1, <3>1, Numbers DEF Takes
    <3>2. CASE n # 0
      <4>1. /\ calls[c].copy.used \in Nat /\ calls[c].copy.used + n <= MaxItems
            /\ Room(calls[c].copy) = MaxItems - calls[c].copy.used
        BY <2>1, <2>2, <3>2 DEF Quota, Room, Checkpoint, SessionAssumption, NoneAssumption
      <4>2. Takes(calls[c], n).used = calls[c].copy.used + n
        BY <2>1, <3>2 DEF Takes, Checkpoint
      <4> QED
        BY <2>2, <4>1, <4>2 DEF Room, SessionAssumption
    <3> QED
      BY <3>1, <3>2
  <2>5. Saves(c, Takes(calls[c], n), a) /\ UNCHANGED <<items, consents, overwrites>>
    BY <1>5 DEF Pause
  <2> QED
    BY <2>1, <2>3, <2>4, <2>5, SaveGrants
<1>6. ASSUME NEW c \in Calls, Answer(c)
      PROVE  Grants'
  <2>1. calls[c] # None /\ calls[c].pc = "thinking" /\ calls[c].copy \in Checkpoint
    BY <1>6 DEF Answer, TypeOK, Call
  <2>2. Saves(c, calls[c].copy, None) /\ UNCHANGED <<items, consents, overwrites>>
    BY <1>6 DEF Answer
  <2>3. Room(calls[c].copy) <= Room(calls[c].copy)
    BY <2>1, Numbers
  <2> QED
    BY <2>1, <2>2, <2>3, SaveGrants
<1>7. ASSUME NEW c \in Calls, MarkInjected(c) \/ NotCompressed(c) \/ LoadsUnlocked(c)
      PROVE  Grants'
  <2>1. /\ UNCHANGED <<file, items, consents, overwrites>>
        /\ ~ Busy(calls[c]) /\ ~ Busy(calls'[c])
        /\ \A d \in Calls \ {c} : calls'[d] = calls[d]
    BY <1>7 DEF MarkInjected, NotCompressed, LoadsUnlocked, InFlight, Returns, Starts, Busy,
       Serialized, TypeOK
  <2> QED
    BY <2>1, QuietGrants
<1>8. ASSUME NEW c \in Calls, AgentRaises(c) \/ ExecuteWithoutGrant(c)
      PROVE  Grants'
  <2>1. /\ calls[c] # None /\ calls[c].pc \in {"thinking", "executing"} /\ Returns(c)
        /\ UNCHANGED <<file, consents, overwrites>>
    BY <1>8 DEF AgentRaises, ExecuteWithoutGrant
  <2>2. ~ Busy(calls'[c]) /\ \A d \in Calls \ {c} : calls'[d] = calls[d]
    BY <2>1 DEF Returns, TypeOK, Busy
  <2>3. lock = c /\ Busy(calls[c])
    BY <2>1, BusyFacts
  <2>4. \A d \in Calls \ {c} : ~ Busy(calls[d])
    BY <2>3, BusyHolds
  <2>5. CASE AgentRaises(c)
    <3>1. Forgets({c})
      BY <2>5 DEF AgentRaises
    <3> QED
      BY <2>1, <2>2, <2>4, <3>1, LossGrants
  <2>6. CASE ExecuteWithoutGrant(c)
    <3>1. items' = items /\ calls[c].pc = "executing"
      BY <2>6 DEF ExecuteWithoutGrant
    <3>2. Allowance' = Allowance /\ Room(file)' = Room(file)
      BY <2>1 DEF Allowance, Room
    <3>3. overwrites = 0 => WithinAllowance(calls[c])
      BY <2>3 DEF Grants
    <3>4. overwrites' = 0 => (items + Room(file) <= Allowance)'
      BY <2>1, <3>1, <3>2, <3>3, Numbers DEF WithinAllowance
    <3> QED
      BY <2>2, <2>3, <3>4, HolderGrants
  <2> QED
    BY <1>8, <2>5, <2>6
<1>9. ASSUME NEW c \in Calls, NEW n \in 0 .. MaxBatch, Execute(c, n)
      PROVE  Grants'
  <2>1. /\ calls[c] # None /\ calls[c].pc = "executing"
        /\ UNCHANGED <<file, items, overwrites>>
        /\ consents' = IF calls[c].grants THEN consents + 1 ELSE consents
    BY <1>9 DEF Execute
  <2>2. lock = c /\ Busy(calls[c]) /\ calls[c] \in Call /\ calls[c].copy \in Checkpoint
    BY <2>1, BusyFacts
  <2>3. /\ \A d \in Calls \ {c} : calls'[d] = calls[d]
        /\ calls'[c] = [calls[c] EXCEPT !.pc = "thinking", !.acted = TRUE,
                           !.outcome = "approved",
                           !.copy.used = IF calls[c].grants THEN n ELSE @]
    BY <1>9 DEF Execute, TypeOK
  <2>4. /\ calls'[c].pc = "thinking" /\ calls'[c].auto = calls[c].auto
        /\ calls'[c].op = calls[c].op
        /\ calls'[c].copy = [calls[c].copy EXCEPT !.used = IF calls[c].grants THEN n ELSE @]
    BY <2>2, <2>3 DEF Call
  <2>5. calls'[c].copy \in Checkpoint
    BY <2>2, <2>4 DEF Checkpoint, SessionAssumption
  <2>6. overwrites = 0 => WithinAllowance(calls[c])
    BY <2>2 DEF Grants
  <2>7. Room(file)' = Room(file) /\ Busy(calls'[c])
    <3>1. calls'[c] \in Call
      BY <1>9, <2>3, ExecutedCall DEF Order
    <3> QED
      BY <2>1, <2>2, <2>4, <3>1 DEF Room, Busy, NoneAssumption
  <2>8. overwrites = 0 => items <= Allowance /\ calls[c].auto = 0
    BY <2>1, <2>2, <2>6, Numbers DEF WithinAllowance
  <2>9. CASE calls[c].grants
    <3>1. Allowance' = Allowance + MaxItems
      BY <2>1, <2>9 DEF Allowance, TypeOK, SessionAssumption
    <3>2. Room(calls'[c].copy) \in 0 .. MaxItems
      BY <2>5, Numbers
    <3>3. overwrites = 0 => items + Room(calls'[c].copy) <= Allowance + MaxItems
      BY <2>8, <3>2, Numbers DEF SessionAssumption
    <3>4. overwrites = 0 => items - calls'[c].auto + Room(file) <= Allowance + MaxItems
      BY <2>4, <2>6, <2>8, Numbers DEF WithinAllowance, SessionAssumption
    <3>5. overwrites' = 0 => WithinAllowance(calls[c])'
      BY <2>1, <2>4, <2>7, <3>1, <3>3, <3>4 DEF WithinAllowance
    <3> QED
      BY <2>2, <2>3, <2>7, <3>5, HolderGrants
  <2>10. CASE ~ calls[c].grants
    <3>1. Allowance' = Allowance
      BY <2>1, <2>10 DEF Allowance
    <3>2. calls'[c].copy = calls[c].copy
      BY <2>2, <2>4, <2>10 DEF Checkpoint
    <3>3. overwrites' = 0 => WithinAllowance(calls[c])'
      BY <2>1, <2>4, <2>6, <2>7, <3>1, <3>2 DEF WithinAllowance
    <3> QED
      BY <2>2, <2>3, <2>7, <3>3, HolderGrants
  <2> QED
    BY <2>9, <2>10
<1>10. ASSUME NEW c \in Calls, NEW effect \in BOOLEAN, ExecuteFails(c, effect)
       PROVE  Grants'
  <2>1. /\ calls[c] # None /\ calls[c].pc = "executing"
        /\ UNCHANGED <<file, items, consents, overwrites>>
    BY <1>10 DEF ExecuteFails
  <2>2. lock = c /\ Busy(calls[c]) /\ calls[c] \in Call
    BY <2>1, BusyFacts
  <2>3. /\ \A d \in Calls \ {c} : calls'[d] = calls[d]
        /\ calls'[c] = [calls[c] EXCEPT !.pc = "thinking", !.outcome = "failed",
                                        !.acted = effect]
    BY <1>10 DEF ExecuteFails, TypeOK
  <2>4. /\ calls'[c].pc = "thinking" /\ calls'[c].auto = calls[c].auto
        /\ calls'[c].op = calls[c].op /\ calls'[c].copy = calls[c].copy
    BY <2>2, <2>3 DEF Call
  <2>5. calls'[c] \in Call
    BY <1>10, <2>3, FailedCall
  <2>6. Busy(calls'[c])
    BY <2>2, <2>4, <2>5 DEF Busy, NoneAssumption
  <2>7. Room(file)' = Room(file) /\ Allowance' = Allowance
    BY <2>1 DEF Room, Allowance
  <2>8. overwrites' = 0 => WithinAllowance(calls[c])'
    BY <2>1, <2>2, <2>4, <2>7 DEF WithinAllowance, Grants
  <2> QED
    BY <2>2, <2>3, <2>6, <2>8, HolderGrants
<1>11. ASSUME NEW c \in Calls, SavesUnlocked(c)
       PROVE  Grants'
  <2>1. /\ calls[c] # None /\ calls[c].op = "compact" /\ file' = calls[c].copy
        /\ overwrites' = IF file = calls[c].copy THEN overwrites ELSE overwrites + 1
        /\ Returns(c) /\ UNCHANGED <<items, consents>>
    BY <1>11 DEF SavesUnlocked, InFlight
  <2>2. ~ Busy(calls[c]) /\ ~ Busy(calls'[c]) /\ \A d \in Calls \ {c} : calls'[d] = calls[d]
    BY <2>1 DEF Busy, Serialized, Returns, TypeOK
  <2>3. CASE file' = file
    <3>1. overwrites' = overwrites
      BY <2>1, <2>3
    <3> QED
      BY <2>1, <2>2, <2>3, <3>1, QuietGrants
  <2>4. CASE file' # file
    <3>1. overwrites' # 0
      BY <2>1, <2>4 DEF TypeOK, SessionAssumption
    <3> QED
      BY <3>1 DEF Grants
  <2> QED
    BY <2>3, <2>4
<1>12. CASE Delete
  <2>1. Room(file)' = 0 /\ Allowance' = Allowance
    BY <1>12 DEF Delete, Room, Allowance
  <2>2. UNCHANGED <<calls, items, consents, overwrites>>
    BY <1>12 DEF Delete
  <2>3. ASSUME overwrites = 0, NEW c \in Calls, Busy(calls[c])
        PROVE  WithinAllowance(calls[c])'
    <3>1. WithinAllowance(calls[c]) /\ calls[c] # None
      BY <2>3 DEF Grants, Busy
    <3> QED
      BY <2>1, <2>2, <3>1, Numbers DEF WithinAllowance
  <2>4. ASSUME overwrites = 0, \A c \in Calls : ~ Busy(calls[c])
        PROVE  (items + Room(file) <= Allowance)'
    <3>1. items + Room(file) <= Allowance
      BY <2>4 DEF Grants
    <3> QED
      BY <2>1, <2>2, <3>1, Numbers
  <2>5. (overwrites = 0 =>
           /\ \A c \in Calls : Busy(calls[c]) => WithinAllowance(calls[c])
           /\ (\A c \in Calls : ~ Busy(calls[c])) => items + Room(file) <= Allowance)'
    BY <2>2, <2>3, <2>4
  <2> QED
    BY <2>5 DEF Grants
<1>13. CASE Crash
  <2> DEFINE ended == {c \in Calls : calls[c] # None}
  <2>1. /\ Forgets(ended) /\ UNCHANGED <<file, consents, overwrites>>
        /\ calls' = [c \in Calls |-> None]
    BY <1>13 DEF Crash
  <2>2. \A c \in Calls : calls[c] # None => c \in ended
    OBVIOUS
  <2>3. \A c \in ended : c \in Calls /\ calls[c] # None
    OBVIOUS
  <2>4. \A c \in Calls : ~ Busy(calls'[c])
    BY <2>1 DEF Busy
  <2> HIDE DEF ended
  <2> QED
    BY <2>1, <2>2, <2>3, <2>4, LossGrants
<1>14. CASE UNCHANGED <<file, calls, items, consents, overwrites>>
  BY <1>14, QuietGrants
<1>15. ASSUME \/ SaveSettings
              \/ \E a \in Approvals : Expire(a)
              \/ \E e \in Events : Announce(e)
              \/ UNCHANGED vars
       PROVE  UNCHANGED <<file, calls, items, consents, overwrites>>
  BY <1>15 DEF SaveSettings, Expire, Announce, vars
<1> QED
  BY <1>1, <1>2, <1>3, <1>4, <1>5, <1>6, <1>7, <1>8, <1>9, <1>10, <1>11, <1>12, <1>13,
     <1>14, <1>15 DEF Next, Turn, Decision, Unlocked

(* A grant covers at most MaxItems downloads: what turns submit without a   *)
(* question stays within what the user's consents allow, as long as no      *)
(* unlocked save brought back an older copy.                                *)
THEOREM GrantsAreNotExceeded == Spec => []ItemsWithinGrants
<1>1. Init => Grants
  BY SessionAssumption DEF Init, Grants, Busy, Room, Allowance
<1>2. Inv /\ Inv' /\ Standing /\ Grants /\ [Next]_vars => Grants'
  BY GrantsKept, SessionAssumption, NoneAssumption DEF Inv
<1>3. Inv /\ Grants => ItemsWithinGrants
  <2> SUFFICES ASSUME Inv, Grants, overwrites = 0
               PROVE  items <= MaxItems * consents
    BY DEF ItemsWithinGrants
  <2>1. TypeOK
    BY DEF Inv
  <2>2. CASE \E c \in Calls : Busy(calls[c])
    <3>1. PICK c \in Calls : Busy(calls[c])
      BY <2>2
    <3>2. items + Room(calls[c].copy) <= Allowance /\ calls[c] # None
      BY <3>1 DEF Grants, WithinAllowance, Busy
    <3> QED
      BY <2>1, <3>2, Numbers, SessionAssumption DEF Allowance
  <2>3. CASE \A c \in Calls : ~ Busy(calls[c])
    <3>1. items + Room(file) <= Allowance
      BY <2>3 DEF Grants
    <3> QED
      BY <2>1, <3>1, Numbers, SessionAssumption DEF Allowance
  <2> QED
    BY <2>2, <2>3
<1> QED
  BY <1>1, <1>2, <1>3, Invariance, HolderAgrees, PTL DEF Spec
=============================================================================
