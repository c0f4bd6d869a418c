------------------------ MODULE TeachingAgentsProofs ------------------------
(***************************************************************************)
(* What the agents promise in every class, for any tools, windows and      *)
(* limits, over any number of turns, subtasks, files and restarts.         *)
(***************************************************************************)
EXTENDS TeachingAgents, PositionProofs

-----------------------------------------------------------------------------
(* The tools of the agent, through its subtasks.                           *)

\* A step of a class raises, or goes on with the agent as it is.
LEMMA StepsGoOn ==
  ASSUME ReActStep \/ PresetStep
  PROVE  \/ /\ pc \notin {"idle", "over", "answered"}
            /\ Raises \/ (StandStill /\ pc' \notin {"idle", "over", "start"})
         \/ StandStill /\ UNCHANGED pc /\ \E k \in DOMAIN round : EndCall(k)
<1>1. CASE ReActStep
  <2>1. CASE ReActStart
    BY <2>1 DEF ReActStart
  <2>2. CASE ReActModelFails \/ ReActAnswers \/ GiveUp
    BY <2>2 DEF ReActModelFails, ReActAnswers, GiveUp, Concludes
  <2>3. CASE \E response \in Responses : ReActAsks(response)
    BY <2>3 DEF ReActAsks
  <2>4. CASE Perform
    BY <2>4 DEF Perform, Concludes, StepDone
  <2>5. CASE StartCall
    BY <2>5 DEF StartCall
  <2>6. CASE \E k \in DOMAIN round : EndCall(k)
    BY <2>6 DEF EndCall
  <2>7. CASE Collect
    BY <2>7 DEF Collect, Concludes, StepDone
  <2>8. CASE StartDelivery
    BY <2>8 DEF StartDelivery
  <2>9. CASE Deliver
    BY <2>9 DEF Deliver, Concludes, StepDone
  <2>10. CASE ReActRaises
    BY <2>10 DEF ReActRaises
  <2> QED
    BY <1>1, <2>1, <2>2, <2>3, <2>4, <2>5, <2>6, <2>7, <2>8, <2>9, <2>10 DEF ReActStep
<1>2. CASE PresetStep
  <2>1. CASE PresetStart
    BY <2>1 DEF PresetStart, Request
  <2>2. CASE NoPlan \/ \E n \in 1 .. MaxPlan : Plan(n)
    BY <2>2 DEF NoPlan, Plan, Request, Concludes
  <2>3. CASE \E response \in UserResponses : PresetAsks(response)
    BY <2>3 DEF PresetAsks
  <2>4. CASE PresetPerform
    BY <2>4 DEF PresetPerform
  <2>5. CASE PresetRaises
    BY <2>5 DEF PresetRaises
  <2>6. ASSUME Responds
        PROVE  StandStill /\ pc' \notin {"idle", "over", "start"}
    <3>1. StandStill /\ (SimpleNext(work') \/ PlanNext(work') \/ ReflectNext(work'))
      BY <2>6 DEF Responds
    <3> QED
      BY <3>1 DEF SimpleNext, PlanNext, ReflectNext, ReflectRuns, ReflectStreams,
                  Answered, AsksAgain, Concludes, Request
  <2>7. CASE PresetAnswers \/ PresetModelFails \/ LastAnswers
    BY <2>7, <2>6 DEF PresetAnswers, PresetModelFails, LastAnswers
  <2> QED
    BY <1>2, <2>1, <2>2, <2>3, <2>4, <2>5, <2>7 DEF PresetStep
<1> QED
  BY <1>1, <1>2

\* The same for every action: who touches the tools of the agent.
LEMMA ToolsMove ==
  ASSUME Next
  PROVE  \/ UNCHANGED <<tools, disabled>>
         \/ \E filter \in Filters \cup {None}, steps \in {maxSteps, SubagentSteps} :
              EntersSubtask(filter, steps)
         \/ LeavesSubtask
         \/ RestartSession
<1>1. CASE \E m \in Modes : Begin(m)
  BY <1>1 DEF Begin, StandStill, session
<1>2. CASE \E filter \in Filters \cup {None}, steps \in {maxSteps, SubagentSteps} :
             Subtask(filter, steps)
  BY <1>2 DEF Subtask
<1>3. ASSUME EndsWithout
      PROVE  UNCHANGED <<tools, disabled>>
  BY <1>3 DEF EndsWithout, Ends
<1>4. CASE ReActStep \/ PresetStep
  <2>1. CASE pc \notin {"idle", "over", "answered"} /\ Raises
    BY <2>1, <1>3 DEF Raises
  <2>2. CASE StandStill /\ (pc' \notin {"idle", "over", "start"})
    BY <2>2 DEF StandStill, session
  <2>3. CASE StandStill /\ UNCHANGED pc /\ \E k \in DOMAIN round : EndCall(k)
    BY <2>3 DEF StandStill, session
  <2> QED
    BY <1>4, <2>1, <2>2, <2>3, StepsGoOn
<1>5. CASE Say
  BY <1>5 DEF Say, Ends
<1>6. CASE Return \/ ReturnCutShort
  BY <1>6 DEF Return, ReturnCutShort, LosesCaller
<1>7. CASE Interrupt
  BY <1>7, <1>3 DEF Interrupt
<1>8. CASE SessionOperation
  BY <1>8 DEF SessionOperation, LoadSession, ClearHistory
<1> QED
  BY <1>1, <1>2, <1>4, <1>5, <1>6, <1>7, <1>8 DEF Next, TurnStep

\* Through subtasks with and without a filter, interrupted or cut short, a tool
\* is registered or put aside for the next one to give back (run_as_subagent,
\* _apply_tool_filter, _restore_tools).
THEOREM ToolsAreFoundAgain == Spec => []NoToolIsLost
<1>1. RunInit => NoToolIsLost
  BY DEF RunInit, SessionInit, NoToolIsLost
<1>2. NoToolIsLost /\ [Next]_vars => NoToolIsLost'
  <2> SUFFICES ASSUME NoToolIsLost, [Next]_vars
               PROVE  NoToolIsLost'
    OBVIOUS
  <2>1. CASE UNCHANGED <<tools, disabled>>
    BY <2>1 DEF NoToolIsLost
  <2>2. ASSUME NEW filter, NEW steps, EntersSubtask(filter, steps)
        PROVE  NoToolIsLost'
    <3>1. tools' = tools \ Hidden(filter) /\ disabled' = disabled \cup Hidden(filter)
      BY <2>2 DEF EntersSubtask, PutAside
    <3>2. Hidden(filter) \subseteq tools
      BY DEF Hidden
    <3> QED
      BY <3>1, <3>2 DEF NoToolIsLost
  <2>3. CASE LeavesSubtask
    BY <2>3 DEF LeavesSubtask, NoToolIsLost
  <2>4. CASE RestartSession
    BY <2>4 DEF RestartSession, NoToolIsLost
  <2>5. CASE Next
    BY <2>1, <2>2, <2>3, <2>4, <2>5, ToolsMove
  <2> QED
    BY <2>1, <2>5 DEF vars, session
<1> QED
  BY <1>1, <1>2, PTL DEF Spec

-----------------------------------------------------------------------------
(* The order of the calls.                                                 *)

\* Order is a rearrangement of the calls of the response.
IsOrder(o, n) ==
  /\ o \in [1 .. n -> 1 .. n]
  /\ \A i \in 1 .. n, j \in 1 .. n : i # j => o[i] # o[j]
  /\ \A k \in 1 .. n : \E i \in 1 .. n : o[i] = k

\* Two parts of a list, one after the other, are all of it.
LEMMA Regrouped ==
  ASSUME NEW n \in Nat, NEW P \in SUBSET (1 .. n)
  PROVE  LET is == [i \in 1 .. n |-> i]
         IN  IsOrder(At(is, P) \o At(is, (1 .. n) \ P), n)
<1> DEFINE is == [i \in 1 .. n |-> i]
           Q == (1 .. n) \ P
           p == Cardinality(P)
           q == Cardinality(Q)
           o == At(is, P) \o At(is, Q)
<1>1. is \in Seq(1 .. n) /\ Len(is) = n /\ \A i \in 1 .. n : is[i] = i
  OBVIOUS
<1>2. Q \in SUBSET (1 .. n)
  OBVIOUS
<1>3. p \in Nat /\ q \in Nat /\ p + q = n
  <2>1. IsFiniteSet(1 .. n) /\ Cardinality(1 .. n) = n
    BY FS_Interval
  <2>2. IsFiniteSet(P) /\ p \in Nat /\ IsFiniteSet(Q) /\ q \in Nat
    BY <1>2, PositionsFinite
  <2>3. P \cup Q = 1 .. n /\ P \cap Q = {}
    OBVIOUS
  <2>4. Cardinality(P \cup Q) = p + q - Cardinality(P \cap Q)
    BY <2>2, FS_Union
  <2>5. Cardinality(P \cap Q) = 0
    BY <2>3, FS_EmptySet
  <2>6. Cardinality(P \cup Q) = n
    BY <2>1, <2>3
  <2> DEFINE both == Cardinality(P \cup Q)
             common == Cardinality(P \cap Q)
  <2>7. both = p + q - common /\ common = 0 /\ both = n
    BY <2>4, <2>5, <2>6
  <2> HIDE DEF Q, p, q, both, common
  <2> QED
    BY <2>2, <2>7
<1>4. /\ At(is, P) \in Seq(1 .. n) /\ Len(At(is, P)) = p
      /\ \A k \in 1 .. p : At(is, P)[k] = Nth(P, k) /\ Nth(P, k) \in P
  <2> HIDE DEF is
  <2>1. P \in SUBSET (1 .. Len(is))
    BY <1>1
  <2>2. /\ At(is, P) \in Seq(1 .. n) /\ Len(At(is, P)) = p
        /\ \A k \in 1 .. p : At(is, P)[k] = is[Nth(P, k)] /\ Nth(P, k) \in P
    BY <1>1, <2>1, AtFacts
  <2> QED
    BY <2>2, <1>1
<1>5. /\ At(is, Q) \in Seq(1 .. n) /\ Len(At(is, Q)) = q
      /\ \A k \in 1 .. q : At(is, Q)[k] = Nth(Q, k) /\ Nth(Q, k) \in Q
  <2> HIDE DEF is, Q
  <2>1. Q \in SUBSET (1 .. Len(is))
    BY <1>1, <1>2
  <2>2. /\ At(is, Q) \in Seq(1 .. n) /\ Len(At(is, Q)) = q
        /\ \A k \in 1 .. q : At(is, Q)[k] = is[Nth(Q, k)] /\ Nth(Q, k) \in Q
    BY <1>1, <2>1, AtFacts
  <2> QED
    BY <2>2, <1>1, <1>2
<1>6. /\ o \in Seq(1 .. n) /\ Len(o) = n
      /\ \A i \in 1 .. p : o[i] = Nth(P, i)
      /\ \A i \in 1 .. q : o[p + i] = Nth(Q, i)
  <2> DEFINE a == At(is, P)
             b == At(is, Q)
  <2>1. a \in Seq(1 .. n) /\ Len(a) = p /\ \A k \in 1 .. p : a[k] = Nth(P, k)
    BY <1>4
  <2>2. b \in Seq(1 .. n) /\ Len(b) = q /\ \A k \in 1 .. q : b[k] = Nth(Q, k)
    BY <1>5
  <2>3. o = a \o b
    OBVIOUS
  <2> HIDE DEF a, b, o, p, q, Q, is
  <2>4. /\ o \in Seq(1 .. n) /\ Len(o) = p + q
        /\ \A i \in 1 .. p + q : o[i] = IF i <= p THEN a[i] ELSE b[i - p]
    BY <2>1, <2>2, <2>3, ConcatProperties
  <2>5. ASSUME NEW i \in 1 .. p
        PROVE  o[i] = Nth(P, i)
    BY <2>4, <2>1, <1>3
  <2>6. ASSUME NEW i \in 1 .. q
        PROVE  o[p + i] = Nth(Q, i)
    <3> DEFINE m == p + i
    <3>1. m \in 1 .. p + q /\ ~ (m <= p) /\ m - p = i
      BY <1>3
    <3> HIDE DEF m
    <3>2. o[m] = b[i]
      BY <3>1, <2>4
    <3>3. o[m] = Nth(Q, i)
      BY <3>2, <2>2
    <3> QED
      BY <3>3 DEF m
  <2> QED
    BY <2>4, <2>5, <2>6, <1>3
<1>7. ASSUME NEW i \in 1 .. n
      PROVE  \/ i \in 1 .. p
             \/ \E k \in 1 .. q : i = p + k
  <2> HIDE DEF p, q
  <2>1. CASE i > p
    <3>1. i - p \in 1 .. q /\ i = p + (i - p)
      BY <1>3, <2>1
    <3> QED
      BY <3>1
  <2> QED
    BY <2>1, <1>3
<1>8. ASSUME NEW i \in 1 .. n, NEW j \in 1 .. n, i < j
      PROVE  o[i] # o[j]
  <2>1. CASE i \in 1 .. p /\ j \in 1 .. p
    <3>1. Nth(P, i) < Nth(P, j)
      BY <2>1, <1>8, NthOrder
    <3>2. Nth(P, i) \in 1 .. n /\ Nth(P, j) \in 1 .. n
      BY <2>1, <1>4
    <3> HIDE DEF o, p, q
    <3> QED
      BY <3>1, <3>2, <2>1, <1>6
  <2>2. CASE i \in 1 .. p /\ \E k \in 1 .. q : j = p + k
    <3>1. PICK k \in 1 .. q : j = p + k
      BY <2>2
    <3>2. o[i] \in P /\ o[j] \in Q
      <4> HIDE DEF o, p, q, Q, is
      <4> QED
        BY <2>2, <3>1, <1>4, <1>5, <1>6
    <3> HIDE DEF o
    <3> QED
      BY <3>2
  <2>3. ASSUME NEW k \in 1 .. q, NEW l \in 1 .. q, i = p + k, j = p + l
        PROVE  o[i] # o[j]
    <3>1. k < l
      <4> HIDE DEF p, q
      <4> QED
        BY <2>3, <1>8, <1>3
    <3>2. Nth(Q, k) < Nth(Q, l)
      <4> HIDE DEF Q
      <4> QED
        BY <1>2, <3>1, NthOrder DEF q
    <3>3. Nth(Q, k) \in 1 .. n /\ Nth(Q, l) \in 1 .. n
      BY <1>5
    <3> HIDE DEF o, p, q, Q
    <3> QED
      BY <3>2, <3>3, <2>3, <1>6
  <2>4. CASE j \in 1 .. p /\ \E k \in 1 .. q : i = p + k
    <3> HIDE DEF p, q
    <3> QED
      BY <2>4, <1>8, <1>3
  <2> HIDE DEF o, p, q
  <2> QED
    BY <1>7, <2>1, <2>2, <2>3, <2>4
<1>9. ASSUME NEW k \in 1 .. n
      PROVE  \E i \in 1 .. n : o[i] = k
  <2>1. CASE k \in P
    <3>1. PICK i \in 1 .. p : Nth(P, i) = k
      BY <2>1, NthOnto
    <3>2. i \in 1 .. n
      <4> HIDE DEF p, q
      <4> QED
        BY <1>3
    <3> HIDE DEF o, p
    <3> QED
      BY <3>1, <3>2, <1>6
  <2>2. CASE k \in Q
    <3>1. PICK i \in 1 .. q : Nth(Q, i) = k
      <4> HIDE DEF Q
      <4> QED
        BY <1>2, <2>2, NthOnto DEF q
    <3>2. p + i \in 1 .. n
      <4> HIDE DEF p, q
      <4> QED
        BY <1>3
    <3> HIDE DEF o, p, q
    <3> QED
      BY <3>1, <3>2, <1>6
  <2> QED
    BY <2>1, <2>2
<1> HIDE DEF o
<1>10. o \in [1 .. n -> 1 .. n]
  BY <1>6
<1>11. ASSUME NEW i \in 1 .. n, NEW j \in 1 .. n, i # j
       PROVE  o[i] # o[j]
  <2>1. CASE i < j
    BY <2>1, <1>8
  <2>2. CASE j < i
    BY <2>2, <1>8
  <2> QED
    BY <1>11, <2>1, <2>2
<1>12. IsOrder(o, n)
  BY <1>9, <1>10, <1>11 DEF IsOrder
<1> QED
  BY <1>12 DEF o, Q

LEMMA OrderFacts ==
  ASSUME round \in Seq(Calls)
  PROVE  IsOrder(Order, Len(round)) /\ Len(Order) = Len(round)
<1> DEFINE n == Len(round)
           B == {k \in DOMAIN round : Builtin(k)}
           is == [i \in 1 .. n |-> i]
<1>1. n \in Nat /\ DOMAIN round = 1 .. n
  BY LenProperties
<1>2. B \in SUBSET (1 .. n)
  BY <1>1
<1>3. Order = IF cls = "react" /\ mode # "run"
              THEN At(is, B) \o At(is, (1 .. n) \ B) ELSE is
  BY <1>1 DEF Order
<1>4. IsOrder(Order, n)
  <2>1. IsOrder(At(is, B) \o At(is, (1 .. n) \ B), n)
    <3> HIDE DEF n, B
    <3> QED
      BY <1>1, <1>2, Regrouped
  <2>2. IsOrder(is, n)
    <3> HIDE DEF n
    <3> QED
      BY <1>1 DEF IsOrder
  <2> QED
    BY <1>3, <2>1, <2>2
<1>5. Order \in [1 .. n -> 1 .. n]
  <2> HIDE DEF n
  <2> QED
    BY <1>4 DEF IsOrder
<1>6. Len(Order) = n
  <2> HIDE DEF n
  <2> QED
    BY <1>1, <1>5, LenProperties
<1> QED
  BY <1>4, <1>6

-----------------------------------------------------------------------------
(* Every call has its result when the model is called.                     *)

\* The first calls of an order.
Firsts(o, n) == {o[i] : i \in 1 .. n}

LEMMA FirstsFacts ==
  ASSUME NEW n \in Nat, NEW o, IsOrder(o, n), NEW c \in 0 .. n
  PROVE  /\ Firsts(o, c) \subseteq 1 .. n
         /\ IsFiniteSet(Firsts(o, c)) /\ Cardinality(Firsts(o, c)) = c
         /\ Firsts(o, n) = 1 .. n
<1>1. /\ o \in [1 .. n -> 1 .. n]
      /\ \A i \in 1 .. n, j \in 1 .. n : i # j => o[i] # o[j]
      /\ \A k \in 1 .. n : \E i \in 1 .. n : o[i] = k
  BY DEF IsOrder
<1>2. \A i \in 1 .. c : i \in 1 .. n
  OBVIOUS
<1>3. Firsts(o, c) \subseteq 1 .. n
  BY <1>1, <1>2 DEF Firsts
<1>4. IsFiniteSet(Firsts(o, c)) /\ Cardinality(Firsts(o, c)) = c
  <2> DEFINE F == Firsts(o, c)
             f == [i \in 1 .. c |-> o[i]]
  <2>1. f \in Bijection(1 .. c, F)
    <3>1. f \in [1 .. c -> F] /\ \A y \in F : \E i \in 1 .. c : f[i] = y
      BY DEF Firsts
    <3>2. \A i \in 1 .. c, j \in 1 .. c : f[i] = f[j] => i = j
      BY <1>1, <1>2
    <3> HIDE DEF f, F
    <3> QED
      BY <3>1, <3>2 DEF Bijection, Injection, Surjection, IsInjective
  <2>2. IsFiniteSet(1 .. c) /\ Cardinality(1 .. c) = c
    BY FS_Interval
  <2> HIDE DEF f, F
  <2>3. IsFiniteSet(F) /\ Cardinality(F) = c
    BY <2>1, <2>2, FS_Bijection DEF ExistsBijection
  <2> QED
    BY <2>3 DEF F
<1>5. Firsts(o, n) = 1 .. n
  BY <1>1 DEF Firsts
<1> QED
  BY <1>3, <1>4, <1>5

LEMMA NextOfOrder ==
  ASSUME NEW n \in Nat, NEW o, IsOrder(o, n), NEW c \in Nat, c < n
  PROVE  /\ o[c + 1] \in (1 .. n) \ Firsts(o, c)
         /\ Firsts(o, c + 1) = Firsts(o, c) \cup {o[c + 1]}
<1> DEFINE d == c + 1
<1>1. d \in 1 .. n /\ d \notin 1 .. c /\ 1 .. d = (1 .. c) \cup {d}
  OBVIOUS
<1>2. \A i \in 1 .. c : i \in 1 .. n
  OBVIOUS
<1> HIDE DEF d
<1>3. o[d] \in (1 .. n) \ Firsts(o, c)
  BY <1>1, <1>2 DEF Firsts, IsOrder
<1>4. Firsts(o, d) = Firsts(o, c) \cup {o[d]}
  BY <1>1 DEF Firsts
<1> QED
  BY <1>3, <1>4 DEF d

CallsTyped ==
  round \in Seq(Calls) /\ done \in Seq(DOMAIN round) /\ busy \in SUBSET DOMAIN round

LEMMA HandledFacts ==
  ASSUME CallsTyped
  PROVE  /\ Handled \subseteq DOMAIN round /\ IsFiniteSet(Handled)
         /\ Cardinality(Handled) \in 0 .. Len(round)
         /\ Handled # DOMAIN round => Cardinality(Handled) < Len(round)
<1>1. Len(round) \in Nat /\ DOMAIN round = 1 .. Len(round)
  BY LenProperties DEF CallsTyped
<1>2. \A i \in DOMAIN done : done[i] \in DOMAIN round
  BY ElementOfSeq, LenProperties DEF CallsTyped
<1>3. Handled \in SUBSET (1 .. Len(round))
  BY <1>1, <1>2 DEF Handled, ToSet, CallsTyped
<1>4. IsFiniteSet(1 .. Len(round)) /\ Cardinality(1 .. Len(round)) = Len(round)
  <2> DEFINE n == Len(round)
  <2> HIDE DEF n
  <2>1. n \in Nat
    BY <1>1 DEF n
  <2>2. IsFiniteSet(1 .. n) /\ Cardinality(1 .. n) = n
    BY <2>1, FS_Interval
  <2> QED
    BY <2>2 DEF n
<1>5. /\ IsFiniteSet(Handled) /\ Cardinality(Handled) <= Len(round)
      /\ Cardinality(Handled) = Len(round) => Handled = 1 .. Len(round)
  BY <1>3, <1>4, FS_Subset
<1>6. Cardinality(Handled) \in Nat
  BY <1>5, FS_CardinalityType
<1> QED
  BY <1>1, <1>3, <1>5, <1>6

\* A place of a turn belongs to some classes and methods only.
Placed ==
  /\ pc = "deliver" => cls = "react" /\ mode = "stream"
  /\ pc = "gave_up" => cls = "react"
  /\ pc = "planning" => cls = "plan"
  /\ pc \in {"last", "broken"} => cls # "react"

\* The calls are executed one after the other, or in groups.
InTurn == pc = "deliver" \/ (pc = "execute" /\ (cls # "react" \/ mode = "run"))
InGroups == pc = "execute" /\ cls = "react" /\ mode # "run"

\* The calls of a response are handled in their order, none of them twice.
CallsInv ==
  /\ CallsTyped
  /\ EveryCallAnswered
  /\ pc \in {"idle", "start", "over", "planning"} => round = <<>> /\ done = <<>>
  /\ pc \in {"execute", "deliver"} => round # <<>>
  /\ InTurn => /\ Len(done) < Len(round)
               /\ \A i \in 1 .. Len(done) : done[i] = Order[i]
  /\ InGroups => /\ Handled = Firsts(Order, Cardinality(Handled))
                 /\ busy \cap ToSet(done) = {}
  /\ ~ InGroups /\ pc \notin {"gave_up", "answered"} => busy = {}

LEMMA PlacedInit == RunInit => Placed
  BY DEF RunInit, Placed

LEMMA PlacedStep ==
  ASSUME Placed, [Next]_vars
  PROVE  Placed'
<1> USE DEF Placed
<1>1. CASE UNCHANGED vars
  BY <1>1 DEF vars, turn
<1>2. CASE \E m \in Modes : Begin(m)
  BY <1>2 DEF Begin
<1>3. CASE \E filter \in Filters \cup {None}, steps \in {maxSteps, SubagentSteps} :
             Subtask(filter, steps)
  BY <1>3 DEF Subtask
<1>4. ASSUME pc' \in {"idle", "over"}
      PROVE  Placed'
  BY <1>4
<1>5. CASE Say \/ Return \/ ReturnCutShort \/ Interrupt \/ SessionOperation
  BY <1>5, <1>4 DEF Say, Return, ReturnCutShort, Interrupt, SessionOperation, EndsWithout, Ends, turn
<1>6. CASE ReActStep
  <2>1. CASE ReActStart \/ ReActModelFails \/ ReActAnswers \/ GiveUp
    BY <2>1 DEF ReActStart, ReActModelFails, ReActAnswers, GiveUp, Concludes, StandStill,
                Raises, EndsWithout, Ends
  <2>2. CASE \E response \in Responses : ReActAsks(response)
    BY <2>2 DEF ReActAsks
  <2>3. CASE Perform
    BY <2>3 DEF Perform, Concludes, StepDone, StandStill
  <2>4. CASE StartCall \/ (\E k \in DOMAIN round : EndCall(k))
    BY <2>4 DEF StartCall, EndCall, StandStill
  <2>5. CASE Collect
    BY <2>5 DEF Collect, Concludes, StepDone, StandStill
  <2>6. CASE StartDelivery
    BY <2>6 DEF StartDelivery, StandStill
  <2>7. CASE Deliver
    BY <2>7 DEF Deliver, Concludes, StepDone, StandStill
  <2>8. CASE ReActRaises
    BY <2>8, <1>4 DEF ReActRaises, Raises, EndsWithout, Ends, StandStill
  <2> QED
    BY <1>6, <2>1, <2>2, <2>3, <2>4, <2>5, <2>6, <2>7, <2>8 DEF ReActStep
<1>7. CASE PresetStep
  <2>1. CASE PresetStart
    BY <2>1 DEF PresetStart, Request, IsPreset, StandStill
  <2>2. CASE NoPlan \/ \E n \in 1 .. MaxPlan : Plan(n)
    BY <2>2 DEF NoPlan, Plan, Request, Concludes, StandStill
  <2>3. CASE \E response \in UserResponses : PresetAsks(response)
    BY <2>3 DEF PresetAsks, StandStill
  <2>4. CASE PresetPerform
    BY <2>4 DEF PresetPerform, IsPreset, StandStill
  <2>5. CASE PresetRaises
    BY <2>5, <1>4 DEF PresetRaises, Raises, EndsWithout, Ends
  <2>6. ASSUME Responds
        PROVE  Placed'
    <3>1. /\ cls' = cls
          /\ pc' \in {"model", "last", "answered", "broken"}
          /\ cls # "react"
      BY <2>6 DEF Responds, SimpleNext, PlanNext, ReflectNext, ReflectRuns, ReflectStreams,
                  Answered, AsksAgain, Concludes, Request, StandStill
    <3> QED
      BY <3>1
  <2>7. CASE PresetAnswers \/ PresetModelFails \/ LastAnswers
    BY <2>7, <2>6 DEF PresetAnswers, PresetModelFails, LastAnswers, IsPreset, StandStill
  <2> QED
    BY <1>7, <2>1, <2>2, <2>3, <2>4, <2>5, <2>7 DEF PresetStep
<1> QED
  BY <1>1, <1>2, <1>3, <1>5, <1>6, <1>7 DEF Next, TurnStep

LEMMA OrderStays ==
  ASSUME UNCHANGED <<round, cls, mode>>
  PROVE  Order' = Order
BY DEF Order, Builtin

\* The next of the calls that are executed one after the other.
LEMMA NextInTurn ==
  ASSUME CallsInv, InTurn
  PROVE  /\ busy = {}
         /\ NextCall \in DOMAIN round /\ NextCall = Order[Len(done) + 1]
         /\ Append(done, NextCall) \in Seq(DOMAIN round)
         /\ Len(Append(done, NextCall)) = Len(done) + 1
         /\ \A i \in 1 .. Len(done) + 1 : Append(done, NextCall)[i] = Order[i]
         /\ Len(done) + 1 = Len(round) => Append(done, NextCall) = Order
         /\ cls # "react" \/ mode = "run" => NextCall = Len(done) + 1
         /\ Len(done) \in Nat /\ Len(round) \in Nat /\ Len(done) + 1 <= Len(round)
<1> DEFINE n == Len(round)
           c == Len(done)
<1>1. /\ round \in Seq(Calls) /\ done \in Seq(DOMAIN round)
      /\ n \in Nat /\ DOMAIN round = 1 .. n
      /\ c \in Nat /\ DOMAIN done = 1 .. c
  BY LenProperties DEF CallsInv, CallsTyped
<1>2. busy = {}
  BY DEF CallsInv, InTurn, InGroups
<1>3. c < n /\ \A i \in 1 .. c : done[i] = Order[i]
  BY DEF CallsInv
<1>4. IsOrder(Order, n) /\ Len(Order) = n
  BY <1>1, OrderFacts
<1>5. Handled = Firsts(Order, c)
  BY <1>1, <1>2, <1>3 DEF Handled, ToSet, Firsts
<1>6. /\ Cardinality(Firsts(Order, c)) = c
      /\ Order[c + 1] \in 1 .. n
  <2> HIDE DEF n, c
  <2>1. c \in 0 .. n
    BY <1>1, <1>3
  <2> QED
    BY <1>1, <1>3, <1>4, <2>1, FirstsFacts, NextOfOrder
<1>7. NextCall = Order[c + 1] /\ NextCall \in DOMAIN round
  BY <1>1, <1>5, <1>6 DEF NextCall
<1> DEFINE appended == Append(done, NextCall)
<1>8. /\ appended \in Seq(DOMAIN round) /\ Len(appended) = c + 1
      /\ \A i \in 1 .. c + 1 : appended[i] = Order[i]
  <2>1. /\ appended \in Seq(DOMAIN round) /\ Len(appended) = c + 1
        /\ \A i \in 1 .. c : appended[i] = done[i]
        /\ appended[c + 1] = NextCall
    BY <1>1, <1>7, AppendProperties
  <2> HIDE DEF appended, c
  <2> QED
    BY <2>1, <1>1, <1>3, <1>7
<1>9. ASSUME c + 1 = n
      PROVE  appended = Order
  <2>1. Order \in [1 .. n -> 1 .. n]
    BY <1>4 DEF IsOrder
  <2>2. DOMAIN appended = 1 .. n /\ appended \in Seq(DOMAIN round)
    BY <1>8, <1>9, LenProperties
  <2>3. \A i \in 1 .. n : appended[i] = Order[i]
    BY <1>8, <1>9
  <2>4. appended = [i \in 1 .. n |-> appended[i]]
    <3> HIDE DEF appended, n
    <3> QED
      BY <2>2
  <2> HIDE DEF appended, n
  <2> QED
    BY <2>1, <2>3, <2>4
<1>10. ASSUME cls # "react" \/ mode = "run"
       PROVE  NextCall = c + 1
  <2>1. Order = [i \in 1 .. n |-> i]
    BY <1>1, <1>10 DEF Order
  <2>2. c + 1 \in 1 .. n
    <3> HIDE DEF c, n
    <3> QED
      BY <1>1, <1>3
  <2> HIDE DEF c, n
  <2> QED
    BY <2>1, <2>2, <1>7
<1>11. c + 1 <= n
  <2> HIDE DEF c, n
  <2> QED
    BY <1>1, <1>3
<1> QED
  BY <1>1, <1>2, <1>7, <1>8, <1>9, <1>10, <1>11

LEMMA CallsNone ==
  ASSUME round' = <<>>, done' = <<>>, busy' = {}, pc' \notin {"execute", "deliver"}
  PROVE  CallsInv'
<1>1. CallsTyped'
  BY EmptySeq DEF CallsTyped
<1>2. EveryCallAnswered'
  BY DEF EveryCallAnswered, ToSet
<1> QED
  BY <1>1, <1>2 DEF CallsInv, InTurn, InGroups

LEMMA CallsLate ==
  ASSUME CallsTyped', pc' \in {"gave_up", "answered"}
  PROVE  CallsInv'
BY DEF CallsInv, InTurn, InGroups, EveryCallAnswered

LEMMA CallsDone ==
  ASSUME CallsTyped', done' = Order', busy' = {}, pc' \in {"model", "last"}
  PROVE  CallsInv'
<1>1. IsOrder(Order, Len(round))' /\ (Len(Order) = Len(round))'
  BY OrderFacts, PTL DEF CallsTyped
<1> DEFINE n == Len(round')
           o == Order'
<1>2. DOMAIN round' = 1 .. n /\ n \in Nat
  BY LenProperties DEF CallsTyped
<1>3. o \in [1 .. n -> 1 .. n] /\ \A k \in 1 .. n : \E i \in 1 .. n : o[i] = k
  BY <1>1 DEF IsOrder
<1>4. ToSet(o) = 1 .. n
  <2> HIDE DEF o, n
  <2> QED
    BY <1>3 DEF ToSet
<1>5. Len(done') = Len(round') /\ ToSet(done') = DOMAIN round'
  BY <1>1, <1>2, <1>4
<1> QED
  BY <1>5 DEF CallsInv, InTurn, InGroups, EveryCallAnswered

\* Nothing happens to the calls.
LEMMA CallsStay ==
  ASSUME CallsInv, UNCHANGED <<round, done, busy, cls, mode>>,
         \/ pc' = pc
         \/ pc' \in {"gave_up", "answered"}
         \/ pc = "model" /\ pc' = "last"
         \/ pc \in {"model", "last"} /\ pc' = "broken"
         \/ pc = "idle" /\ pc' = "start"
         \/ pc = "over" /\ pc' = "idle"
         \/ pc = "start" /\ pc' \in {"model", "planning", "last"}
  PROVE  CallsInv'
<1>1. Order' = Order /\ Handled' = Handled
  BY OrderStays DEF Handled
<1>2. CallsTyped'
  BY DEF CallsInv, CallsTyped
<1>3. CASE pc' = pc
  BY <1>1, <1>2, <1>3 DEF CallsInv, InTurn, InGroups, EveryCallAnswered
<1>4. CASE pc' \in {"gave_up", "answered"}
  BY <1>2, <1>4, CallsLate
<1>5. CASE pc \in {"model", "last"} /\ pc' \in {"last", "broken"}
  BY <1>2, <1>5 DEF CallsInv, InTurn, InGroups, EveryCallAnswered
<1>6. CASE pc \in {"idle", "start", "over"} /\ pc' \notin {"execute", "deliver"}
  <2>1. round = <<>> /\ done = <<>> /\ busy = {}
    BY <1>6 DEF CallsInv, InGroups
  <2> QED
    BY <1>6, <2>1, CallsNone
<1> QED
  BY <1>3, <1>4, <1>5, <1>6

LEMMA CallsEnd ==
  ASSUME Resets, pc' \in {"idle", "over"}
  PROVE  CallsInv'
BY CallsNone DEF Resets

LEMMA CallsAsked ==
  ASSUME CallsInv, pc = "model", pc' = "execute", NEW response \in Responses,
         round' = response, done' = <<>>, UNCHANGED <<busy, cls, mode>>
  PROVE  CallsInv'
<1>1. response \in Seq(Calls) /\ response # <<>> /\ Len(response) \in Nat \ {0}
  <2>1. PICK n \in 1 .. MaxRound : response \in [1 .. n -> Calls]
    BY DEF Responses
  <2> QED
    BY <2>1, RunAssumption DEF RunAssumption
<1>2. busy' = {}
  BY DEF CallsInv, InGroups
<1>3. CallsTyped'
  BY <1>1, <1>2, EmptySeq DEF CallsTyped
<1>4. Handled' = {} /\ Firsts(Order', 0) = {} /\ Cardinality({}) = 0
  BY <1>2, FS_EmptySet DEF Handled, ToSet, Firsts
<1>5. Len(done') = 0
  OBVIOUS
<1> QED
  BY <1>1, <1>2, <1>3, <1>4, <1>5 DEF CallsInv, InTurn, InGroups, EveryCallAnswered

LEMMA CallsRequested ==
  ASSUME CallsInv, Request, pc \in {"model", "last", "planning", "start"}, UNCHANGED busy
  PROVE  CallsInv'
<1>1. busy = {}
  BY DEF CallsInv, InGroups
<1> QED
  BY <1>1, CallsNone DEF Request

\* One more call of a response is handled in turn.
LEMMA CallsInTurn ==
  ASSUME CallsInv, InTurn, done' = Append(done, NextCall), UNCHANGED <<busy, round, cls, mode>>,
         \/ Len(done) + 1 < Len(round) /\ pc' = pc
         \/ Len(done) + 1 = Len(round) /\ pc' \in {"model", "last"}
         \/ pc' \in {"gave_up", "answered"}
  PROVE  CallsInv'
<1>1. /\ busy = {}
      /\ done' \in Seq(DOMAIN round)
      /\ Len(done') = Len(done) + 1
      /\ \A i \in 1 .. Len(done) + 1 : done'[i] = Order[i]
      /\ Len(done) + 1 = Len(round) => done' = Order
  BY NextInTurn
<1>2. Order' = Order
  BY OrderStays
<1>3. CallsTyped'
  BY <1>1 DEF CallsInv, CallsTyped
<1>4. CASE Len(done) + 1 < Len(round) /\ pc' = pc
  <2>1. Len(done') < Len(round') /\ \A i \in 1 .. Len(done') : done'[i] = Order'[i]
    BY <1>1, <1>2, <1>4
  <2>2. InTurn' /\ ~ InGroups' /\ pc' \in {"execute", "deliver"}
    BY <1>4 DEF InTurn, InGroups
  <2> QED
    BY <2>1, <2>2, <1>1, <1>3 DEF CallsInv, InTurn, EveryCallAnswered
<1>5. CASE Len(done) + 1 = Len(round) /\ pc' \in {"model", "last"}
  BY <1>1, <1>2, <1>3, <1>5, CallsDone
<1>6. CASE pc' \in {"gave_up", "answered"}
  BY <1>3, <1>6, CallsLate
<1> QED
  BY <1>4, <1>5, <1>6

LEMMA AppendedElements ==
  ASSUME NEW S, NEW s \in Seq(S), NEW x \in S
  PROVE  /\ Append(s, x) \in Seq(S)
         /\ ToSet(Append(s, x)) = ToSet(s) \cup {x}
<1> DEFINE n == Len(s)
           t == Append(s, x)
<1>1. n \in Nat /\ DOMAIN s = 1 .. n
  BY LenProperties
<1>2. /\ t \in Seq(S) /\ Len(t) = n + 1
      /\ \A i \in 1 .. n : t[i] = s[i]
      /\ t[n + 1] = x
  BY AppendProperties
<1>3. DOMAIN t = 1 .. n + 1
  BY <1>2, LenProperties
<1>4. 1 .. n + 1 = (1 .. n) \cup {n + 1}
  <2> HIDE DEF n
  <2> QED
    BY <1>1
<1>5. ToSet(t) = ToSet(s) \cup {x}
  <2> HIDE DEF t, n
  <2> QED
    BY <1>1, <1>2, <1>3, <1>4 DEF ToSet
<1> QED
  BY <1>2, <1>5

\* A call of a group starts, or has its result at once.
LEMMA CallsStarted ==
  ASSUME CallsInv, StartCall
  PROVE  CallsInv'
<1> DEFINE n == Len(round)
           c == Cardinality(Handled)
<1>1. InGroups /\ InGroups' /\ UNCHANGED <<round, cls, mode, pc>>
  BY DEF StartCall, InGroups, StandStill
<1>2. /\ round \in Seq(Calls) /\ done \in Seq(DOMAIN round) /\ busy \in SUBSET DOMAIN round
      /\ n \in Nat /\ DOMAIN round = 1 .. n
  BY LenProperties DEF CallsInv, CallsTyped
<1>3. c \in 0 .. n /\ c < n /\ IsFiniteSet(Handled)
  BY <1>2, HandledFacts DEF CallsInv, StartCall
<1>4. IsOrder(Order, n)
  BY <1>2, OrderFacts
<1>5. Handled = Firsts(Order, c)
  BY <1>1 DEF CallsInv
<1>6. /\ Order[c + 1] \in (1 .. n) \ Firsts(Order, c)
      /\ Firsts(Order, c + 1) = Firsts(Order, c) \cup {Order[c + 1]}
  <2> HIDE DEF n, c
  <2>1. n \in Nat /\ c \in 0 .. n /\ c < n
    BY <1>2, <1>3
  <2> QED
    BY <2>1, <1>4, NextOfOrder
<1> DEFINE k == NextCall
<1>7. k \in DOMAIN round /\ k \notin Handled /\ Firsts(Order, c + 1) = Handled \cup {k}
  BY <1>2, <1>5, <1>6 DEF NextCall
<1>8. Append(done, k) \in Seq(DOMAIN round) /\ ToSet(Append(done, k)) = ToSet(done) \cup {k}
  <2> HIDE DEF k
  <2> QED
    BY <1>2, <1>7, AppendedElements
<1>9. \/ busy' = busy \cup {k} /\ done' = done
      \/ busy' = busy /\ done' = Append(done, k)
  BY DEF StartCall, Reported
<1>10. CallsTyped'
  <2> HIDE DEF k
  <2> QED
    BY <1>1, <1>2, <1>7, <1>8, <1>9 DEF CallsTyped
<1>11. Handled' = Handled \cup {k} /\ busy' \cap ToSet(done') = {}
  <2>1. busy \cap ToSet(done) = {} /\ k \notin busy /\ k \notin ToSet(done)
    BY <1>1, <1>7 DEF CallsInv, Handled
  <2>2. Handled' = busy' \cup ToSet(done') /\ Handled = busy \cup ToSet(done)
    BY DEF Handled
  <2> HIDE DEF k
  <2> QED
    BY <2>1, <2>2, <1>8, <1>9
<1>12. Cardinality(Handled') = c + 1
  <2> HIDE DEF k
  <2> QED
    BY <1>3, <1>7, <1>11, FS_AddElement
<1>13. Order' = Order
  BY <1>1, OrderStays
<1>14. Handled' = Firsts(Order', Cardinality(Handled'))
  BY <1>7, <1>11, <1>12, <1>13
<1> QED
  BY <1>1, <1>10, <1>11, <1>14 DEF CallsInv, InTurn, InGroups, EveryCallAnswered

LEMMA CallsEnded ==
  ASSUME CallsInv, NEW k \in DOMAIN round, EndCall(k)
  PROVE  CallsInv'
<1>1. /\ UNCHANGED <<round, cls, mode, pc>>
      /\ busy' = busy \ {k} /\ done' = Append(done, k) /\ k \in busy
  BY DEF EndCall, StandStill, Reported
<1>2. round \in Seq(Calls) /\ done \in Seq(DOMAIN round) /\ busy \in SUBSET DOMAIN round
  BY DEF CallsInv, CallsTyped
<1>3. done' \in Seq(DOMAIN round) /\ ToSet(done') = ToSet(done) \cup {k}
  BY <1>1, <1>2, AppendedElements
<1>4. CallsTyped'
  BY <1>1, <1>2, <1>3 DEF CallsTyped
<1>5. CASE InGroups
  <2>1. Handled' = Handled /\ Order' = Order
    BY <1>1, <1>3, OrderStays DEF Handled
  <2>2. busy' \cap ToSet(done') = {}
    BY <1>1, <1>3, <1>5 DEF CallsInv
  <2>3. Handled' = Firsts(Order', Cardinality(Handled'))
    BY <2>1, <1>5 DEF CallsInv
  <2> QED
    BY <1>1, <1>4, <1>5, <2>2, <2>3 DEF CallsInv, InTurn, InGroups, EveryCallAnswered
<1>6. CASE ~ InGroups
  <2>1. pc' \in {"gave_up", "answered"}
    BY <1>1, <1>6 DEF CallsInv
  <2> QED
    BY <2>1, <1>4, CallsLate
<1> QED
  BY <1>5, <1>6

\* The calls of the groups have ended, and none is executed any more.
LEMMA GroupsOver ==
  ASSUME CallsInv, InGroups, AllEnded
  PROVE  busy = {}
BY DEF CallsInv, CallsTyped, AllEnded

LEMMA CallsCollected ==
  ASSUME CallsInv, Collect
  PROVE  CallsInv'
<1>1. UNCHANGED <<round, busy, cls, mode>> /\ busy = {}
  BY GroupsOver DEF Collect, StandStill, InGroups
<1>2. \/ pc' = "answered" /\ done' = done
      \/ pc' \in {"model", "gave_up"} /\ done' = Order
  BY DEF Collect, Concludes, StepDone
<1>3. round \in Seq(Calls) /\ done \in Seq(DOMAIN round) /\ DOMAIN round = 1 .. Len(round)
  BY LenProperties DEF CallsInv, CallsTyped
<1>4. Order \in Seq(DOMAIN round)
  <2>1. Order \in [1 .. Len(round) -> 1 .. Len(round)] /\ Len(round) \in Nat
    BY <1>3, OrderFacts, LenProperties DEF IsOrder
  <2> QED
    BY <2>1, <1>3, SeqDef
<1>5. CallsTyped'
  BY <1>1, <1>2, <1>3, <1>4 DEF CallsTyped
<1>6. Order' = Order
  BY <1>1, OrderStays
<1> QED
  BY <1>1, <1>2, <1>5, <1>6, CallsLate, CallsDone

LEMMA DeliveryStarts ==
  ASSUME CallsInv, StartDelivery
  PROVE  CallsInv'
<1>1. UNCHANGED <<round, busy, cls, mode>> /\ busy = {} /\ done' = <<>> /\ pc' = "deliver"
  BY GroupsOver DEF StartDelivery, StandStill, InGroups
<1>2. round \in Seq(Calls) /\ round # <<>>
  BY DEF CallsInv, CallsTyped, StartDelivery
<1>3. Len(done') < Len(round') /\ \A i \in 1 .. Len(done') : done'[i] = Order'[i]
  BY <1>1, <1>2, EmptySeq, LenProperties
<1>4. CallsTyped'
  BY <1>1, <1>2, EmptySeq DEF CallsTyped
<1> QED
  BY <1>1, <1>2, <1>3, <1>4 DEF CallsInv, InTurn, InGroups, EveryCallAnswered

LEMMA CallsInit == RunInit => CallsInv
BY EmptySeq DEF RunInit, NoTurn, CallsInv, CallsTyped, InTurn, InGroups, EveryCallAnswered

LEMMA CallsStep ==
  ASSUME Placed, CallsInv, [Next]_vars
  PROVE  CallsInv'
<1>1. CASE UNCHANGED vars
  BY <1>1, CallsStay DEF vars, turn
<1>2. CASE \E m \in Modes : Begin(m)
  <2>1. round = <<>> /\ done = <<>> /\ busy = {}
    BY <1>2 DEF Begin, CallsInv, InGroups
  <2> QED
    BY <1>2, <2>1, CallsNone DEF Begin
<1>3. CASE \E filter \in Filters \cup {None}, steps \in {maxSteps, SubagentSteps} :
             Subtask(filter, steps)
  BY <1>3, CallsStay DEF Subtask, turn
<1>4. CASE Say \/ Interrupt
  BY <1>4, CallsEnd DEF Say, Interrupt, EndsWithout, Ends
<1>5. CASE Return \/ ReturnCutShort \/ SessionOperation
  BY <1>5, CallsStay DEF Return, ReturnCutShort, SessionOperation, turn
<1>6. ASSUME Raises
      PROVE  CallsInv'
  BY <1>6, CallsEnd DEF Raises, EndsWithout, Ends
<1>7. CASE ReActStep
  <2>1. CASE ReActStart \/ ReActModelFails \/ ReActAnswers \/ GiveUp
    BY <2>1, <1>6, CallsStay
       DEF ReActStart, ReActModelFails, ReActAnswers, GiveUp, Concludes, StandStill
  <2>2. CASE \E response \in Responses : ReActAsks(response)
    BY <2>2, CallsAsked DEF ReActAsks, StandStill
  <2>3. CASE Perform
    <3>1. InTurn /\ UNCHANGED <<busy, round, cls, mode>>
      BY <2>3 DEF Perform, StandStill, InTurn
    <3>2. CASE Finishes(NextCall)
      BY <2>3, <3>1, <3>2, CallsStay DEF Perform, Concludes
    <3>3. CASE ~ Finishes(NextCall)
      <4>1. done' = Append(done, NextCall)
        BY <2>3, <3>3 DEF Perform, Reported
      <4>2. /\ NextCall = Len(done) + 1 /\ Len(done) + 1 <= Len(round)
            /\ Len(done) \in Nat /\ Len(round) \in Nat
        BY <3>1, <2>3, NextInTurn DEF Perform
      <4>3. \/ NextCall = Len(round) /\ pc' \in {"model", "gave_up"}
            \/ NextCall # Len(round) /\ pc' = pc
        BY <2>3, <3>3 DEF Perform, StepDone
      <4> QED
        BY <3>1, <4>1, <4>2, <4>3, CallsInTurn
    <3> QED
      BY <3>2, <3>3
  <2>4. CASE StartCall
    BY <2>4, CallsStarted
  <2>5. CASE \E k \in DOMAIN round : EndCall(k)
    BY <2>5, CallsEnded
  <2>6. CASE Collect
    BY <2>6, CallsCollected
  <2>7. CASE StartDelivery
    BY <2>7, DeliveryStarts
  <2>8. CASE Deliver
    <3>1. InTurn /\ UNCHANGED <<busy, round, cls, mode>>
      BY <2>8 DEF Deliver, StandStill, InTurn
    <3>2. done' = Append(done, NextCall)
      BY <2>8 DEF Deliver, Reported
    <3>3. Len(done) + 1 <= Len(round) /\ Len(done) \in Nat /\ Len(round) \in Nat
      BY <3>1, NextInTurn
    <3>4. \/ pc' = "answered"
          \/ Len(done) + 1 = Len(round) /\ pc' \in {"model", "gave_up"}
          \/ Len(done) + 1 # Len(round) /\ pc' = pc
      BY <2>8 DEF Deliver, Concludes, StepDone
    <3> QED
      BY <3>1, <3>2, <3>3, <3>4, CallsInTurn
  <2>9. CASE ReActRaises
    BY <2>9, <1>6, CallsStay DEF ReActRaises, StandStill
  <2> QED
    BY <1>7, <2>1, <2>2, <2>3, <2>4, <2>5, <2>6, <2>7, <2>8, <2>9 DEF ReActStep
<1>8. CASE PresetStep
  <2>1. CASE PresetStart
    BY <2>1, CallsStay, CallsRequested DEF PresetStart, StandStill
  <2>2. CASE NoPlan \/ \E n \in 1 .. MaxPlan : Plan(n)
    BY <2>2, CallsStay, CallsRequested DEF NoPlan, Plan, Concludes, StandStill
  <2>3. CASE \E response \in UserResponses : PresetAsks(response)
    BY <2>3, CallsAsked DEF PresetAsks, UserResponses, StandStill
  <2>4. CASE PresetPerform
    <3>1. InTurn /\ UNCHANGED <<busy, round, cls, mode>> /\ cls # "react"
      BY <2>4 DEF PresetPerform, IsPreset, StandStill, InTurn
    <3>2. done' = Append(done, NextCall)
      BY <2>4 DEF PresetPerform, Reported
    <3>3. /\ NextCall = Len(done) + 1 /\ Len(done) + 1 <= Len(round)
          /\ Len(done) \in Nat /\ Len(round) \in Nat
      BY <3>1, NextInTurn
    <3>4. \/ NextCall < Len(round) /\ pc' = pc
          \/ ~ (NextCall < Len(round)) /\ pc' \in {"model", "last"}
      BY <2>4 DEF PresetPerform
    <3> QED
      BY <3>1, <3>2, <3>3, <3>4, CallsInTurn
  <2>5. CASE PresetRaises
    BY <2>5, <1>6 DEF PresetRaises
  <2>6. ASSUME Responds, pc \in {"model", "last"}
        PROVE  CallsInv'
    <3>1. CASE Request /\ UNCHANGED busy
      BY <2>6, <3>1, CallsRequested
    <3>2. CASE /\ UNCHANGED <<round, done, busy, cls, mode>>
               /\ pc' \in {"answered", "broken"}
      BY <2>6, <3>2, CallsStay
    <3> QED
      BY <2>6, <3>1, <3>2
         DEF Responds, SimpleNext, PlanNext, ReflectNext, ReflectRuns, ReflectStreams,
             Answered, AsksAgain, Concludes, StandStill
  <2>7. CASE PresetAnswers \/ PresetModelFails \/ LastAnswers
    BY <2>7, <2>6, CallsStay
       DEF PresetAnswers, PresetModelFails, LastAnswers, StandStill, turn
  <2> QED
    BY <1>8, <2>1, <2>2, <2>3, <2>4, <2>5, <2>7 DEF PresetStep
<1> QED
  BY <1>1, <1>2, <1>3, <1>4, <1>5, <1>7, <1>8 DEF Next, TurnStep

THEOREM CallsInvHolds == Spec => [](Placed /\ CallsInv)
<1>1. RunInit => Placed /\ CallsInv
  BY PlacedInit, CallsInit
<1>2. Placed /\ CallsInv /\ [Next]_vars => (Placed /\ CallsInv)'
  BY PlacedStep, CallsStep
<1> QED
  BY <1>1, <1>2, PTL DEF Spec

\* When the model is called, each call of its last response has one result:
\* refused, failed and malformed ones, those of groups executed together and
\* those of a stream as well (ReActAgent, SimpleAgent and the others).
THEOREM CallsAreAnswered == Spec => []EveryCallAnswered
<1>1. CallsInv => EveryCallAnswered
  BY DEF CallsInv
<1> QED
  BY <1>1, CallsInvHolds, PTL

-----------------------------------------------------------------------------
(* The answer of a turn.                                                   *)

LEMMA NthFirst ==
  ASSUME NEW n \in Nat, NEW P \in SUBSET (1 .. n), P # {}
  PROVE  Nth(P, 1) \in P /\ \A j \in P : Nth(P, 1) <= j
<1>1. Cardinality(P) \in Nat \ {0}
  <2>1. IsFiniteSet(P) /\ Cardinality(P) \in 0 .. n
    BY PositionsFinite
  <2>2. Cardinality(P) # 0
    BY <2>1, FS_EmptySet
  <2> QED
    BY <2>1, <2>2
<1>2. 1 \in 1 .. Cardinality(P)
  BY <1>1
<1>3. Nth(P, 1) \in P
  BY <1>2, NthFacts
<1>4. ASSUME NEW j \in P
      PROVE  Nth(P, 1) <= j
  <2>1. PICK k \in 1 .. Cardinality(P) : Nth(P, k) = j
    BY NthOnto
  <2>2. CASE k = 1
    BY <2>1, <2>2, <1>3
  <2>3. CASE k # 1
    <3>1. 1 < k
      BY <2>3
    <3>2. Nth(P, 1) < Nth(P, k)
      BY <1>2, <3>1, NthOrder
    <3>3. Nth(P, 1) \in 1 .. n /\ j \in 1 .. n
      BY <1>3
    <3> QED
      BY <2>1, <3>2, <3>3
  <2> QED
    BY <2>2, <2>3
<1> QED
  BY <1>3, <1>4

\* Calls of builtin tools keep their order, in groups as well.
LEMMA BuiltinsInOrder ==
  ASSUME round \in Seq(Calls), NEW i \in 1 .. Len(round), NEW j \in 1 .. Len(round), i <= j,
         Builtin(Order[j])
  PROVE  Order[i] <= Order[j]
<1> DEFINE n == Len(round)
           B == {k \in DOMAIN round : Builtin(k)}
           Q == DOMAIN round \ B
           is == [k \in DOMAIN round |-> k]
           p == Cardinality(B)
<1>1. n \in Nat /\ DOMAIN round = 1 .. n
  BY LenProperties
<1>2. B \in SUBSET (1 .. n) /\ Q \in SUBSET (1 .. n)
  BY <1>1
<1>3. CASE ~ (cls = "react" /\ mode # "run")
  <2>1. Order = is
    BY <1>3 DEF Order
  <2> QED
    BY <2>1, <1>1
<1>4. CASE cls = "react" /\ mode # "run"
  <2>1. Order = At(is, B) \o At(is, Q)
    BY <1>4 DEF Order
  <2>2. is \in Seq(1 .. n) /\ Len(is) = n /\ \A k \in 1 .. n : is[k] = k
    BY <1>1
  <2> DEFINE a == At(is, B)
             b == At(is, Q)
  <2>3. a \in Seq(1 .. n) /\ Len(a) = p /\ \A k \in 1 .. p : a[k] = Nth(B, k) /\ Nth(B, k) \in B
    <3> HIDE DEF is, B
    <3>1. B \in SUBSET (1 .. Len(is)) /\ \A k \in B : is[k] = k
      BY <1>1, <1>2, <2>2
    <3>2. /\ a \in Seq(1 .. n) /\ Len(a) = p
          /\ \A k \in 1 .. p : a[k] = is[Nth(B, k)] /\ Nth(B, k) \in B
      BY <2>2, <3>1, AtFacts
    <3> QED
      BY <3>1, <3>2
  <2>4. /\ b \in Seq(1 .. n) /\ Len(b) = Cardinality(Q)
        /\ \A k \in 1 .. Len(b) : b[k] = Nth(Q, k) /\ Nth(Q, k) \in Q
    <3> HIDE DEF is, Q
    <3>1. Q \in SUBSET (1 .. Len(is)) /\ \A k \in Q : is[k] = k
      BY <1>1, <1>2, <2>2
    <3>2. /\ b \in Seq(1 .. n) /\ Len(b) = Cardinality(Q)
          /\ \A k \in 1 .. Cardinality(Q) : b[k] = is[Nth(Q, k)] /\ Nth(Q, k) \in Q
      BY <2>2, <3>1, AtFacts
    <3> QED
      BY <3>1, <3>2
  <2>5. /\ p \in Nat /\ Len(b) \in Nat
        /\ Len(Order) = p + Len(b)
        /\ \A k \in 1 .. p + Len(b) : Order[k] = IF k <= p THEN a[k] ELSE b[k - p]
    <3>1. p \in Nat /\ Len(b) \in Nat
      BY <2>3, <2>4, LenProperties
    <3>2. Order = a \o b
      BY <2>1
    <3> HIDE DEF a, b, p
    <3> QED
      BY <2>3, <2>4, <3>1, <3>2, ConcatProperties
  <2>6. Len(Order) = n
    BY OrderFacts
  <2>7. j <= p
    <3> SUFFICES ASSUME ~ (j <= p)
                 PROVE  FALSE
      OBVIOUS
    <3> DEFINE m == j - p
    <3>1. m \in 1 .. Len(b) /\ Order[j] = b[m]
      <4> HIDE DEF a, b, p, n
      <4> QED
        BY <2>5, <2>6, <1>1
    <3>2. Order[j] \in Q
      <4> HIDE DEF b, Q, m
      <4> QED
        BY <3>1, <2>4
    <3> QED
      BY <3>2
  <2>8. i \in 1 .. p /\ j \in 1 .. p /\ Order[i] = Nth(B, i) /\ Order[j] = Nth(B, j)
    <3> HIDE DEF a, b, p, n
    <3> QED
      BY <2>3, <2>5, <2>6, <2>7, <1>1
  <2>9. Nth(B, i) \in 1 .. n /\ Nth(B, j) \in 1 .. n
    <3> HIDE DEF B
    <3> QED
      BY <2>3, <2>8, <1>2
  <2>10. i < j => Nth(B, i) < Nth(B, j)
    <3> HIDE DEF B
    <3> QED
      BY <2>8, <1>1, <1>2, NthOrder DEF p
  <2> QED
    <3> HIDE DEF B, p, n
    <3>1. CASE i = j
      BY <3>1, <2>8, <2>9
    <3>2. CASE i < j
      BY <3>2, <2>8, <2>9, <2>10
    <3>3. i = j \/ i < j
      OBVIOUS
    <3> QED
      BY <3>1, <3>2, <3>3
<1> QED
  BY <1>3, <1>4

CallAnswers ==
  pc = "answered" /\ answer.of = "call" /\ mode # "stream" =>
    /\ Finishes(answer.at)
    /\ \A k \in DOMAIN round : Finishes(k) => answer.at <= k

\* A call of Finish ends the turn, so that none is left behind.
FinishInv ==
  /\ pc = "execute" /\ cls = "react" /\ mode = "run" =>
       \A i \in 1 .. Len(done) : ~ Finishes(i)
  /\ CallAnswers

LEMMA FirstFinishes ==
  ASSUME CallsInv, Collect, pc' = "answered"
  PROVE  CallAnswers'
<1> DEFINE n == Len(round)
           finishing == {i \in DOMAIN Order : Finishes(Order[i])}
           e == Nth(finishing, 1)
<1>1. round \in Seq(Calls) /\ n \in Nat /\ DOMAIN round = 1 .. n
  BY LenProperties DEF CallsInv, CallsTyped
<1>2. Order \in [1 .. n -> 1 .. n] /\ \A k \in 1 .. n : \E i \in 1 .. n : Order[i] = k
  BY <1>1, OrderFacts DEF IsOrder
<1>3. finishing \in SUBSET (1 .. n)
  BY <1>2
<1>4. finishing # {} /\ answer' = OfCall(Order[e]) /\ UNCHANGED round
  BY DEF Collect, Concludes, StepDone
<1>5. e \in finishing /\ \A j \in finishing : e <= j
  <2> HIDE DEF finishing, n
  <2> QED
    BY <1>1, <1>3, <1>4, NthFirst
<1>6. e \in 1 .. n /\ Finishes(Order[e])
  BY <1>3, <1>5
<1>7. ASSUME NEW k \in DOMAIN round, Finishes(k)
      PROVE  Order[e] <= k
  <2>1. PICK j \in 1 .. n : Order[j] = k
    BY <1>1, <1>2
  <2>2. j \in finishing
    BY <2>1, <1>2, <1>7
  <2>3. e <= j
    <3> HIDE DEF finishing, e
    <3> QED
      BY <2>2, <1>5
  <2>4. Builtin(Order[j])
    BY <2>1, <1>7 DEF Finishes, Builtin
  <2>5. Order[e] <= Order[j]
    <3> HIDE DEF e
    <3> QED
      BY <1>1, <1>6, <2>3, <2>4, BuiltinsInOrder
  <2> QED
    BY <2>1, <2>5
<1>8. answer'.at = Order[e]
  <2> HIDE DEF e
  <2> QED
    BY <1>4 DEF OfCall
<1> HIDE DEF e
<1>9. \A k : Finishes(k)' = Finishes(k)
  BY <1>4 DEF Finishes
<1> QED
  BY <1>4, <1>6, <1>7, <1>8, <1>9 DEF CallAnswers

LEMMA FinishStay ==
  ASSUME FinishInv, UNCHANGED <<round, done, cls, mode, pc, answer>>
  PROVE  FinishInv'
BY DEF FinishInv, CallAnswers, Finishes

LEMMA FinishElsewhere ==
  ASSUME \/ pc' \notin {"execute", "answered"}
         \/ pc' = "answered" /\ (answer'.of # "call" \/ mode' = "stream")
         \/ pc' = "execute" /\ (cls' # "react" \/ mode' # "run" \/ done' = <<>>)
  PROVE  FinishInv'
BY DEF FinishInv, CallAnswers

LEMMA FinishStep ==
  ASSUME Placed, CallsInv, FinishInv, [Next]_vars
  PROVE  FinishInv'
<1>1. CASE UNCHANGED vars
  BY <1>1, FinishStay DEF vars, turn
<1>2. CASE \E m \in Modes : Begin(m)
  BY <1>2, FinishElsewhere DEF Begin
<1>3. CASE \E filter \in Filters \cup {None}, steps \in {maxSteps, SubagentSteps} :
             Subtask(filter, steps)
  BY <1>3, FinishElsewhere DEF Subtask
<1>4. CASE Say \/ Interrupt \/ Return \/ ReturnCutShort
  BY <1>4, FinishElsewhere DEF Say, Interrupt, EndsWithout, Ends, Return, ReturnCutShort
<1>5. CASE SessionOperation
  BY <1>5, FinishStay DEF SessionOperation, turn
<1>6. ASSUME Raises
      PROVE  FinishInv'
  BY <1>6, FinishElsewhere DEF Raises, EndsWithout, Ends
<1>7. CASE ReActStep
  <2>1. CASE ReActStart \/ ReActModelFails \/ ReActAnswers \/ GiveUp
    BY <2>1, <1>6, FinishElsewhere
       DEF ReActStart, ReActModelFails, ReActAnswers, GiveUp, Concludes, Text, Apology
  <2>2. CASE \E response \in Responses : ReActAsks(response)
    BY <2>2, FinishElsewhere DEF ReActAsks
  <2>3. CASE Perform
    <3>1. /\ InTurn /\ UNCHANGED <<busy, round, cls, mode>>
          /\ pc = "execute" /\ cls = "react" /\ mode = "run"
      BY <2>3 DEF Perform, StandStill, InTurn
    <3>2. NextCall = Len(done) + 1 /\ Len(done) \in Nat /\ Len(round) \in Nat
          /\ Len(Append(done, NextCall)) = Len(done) + 1 /\ DOMAIN round = 1 .. Len(round)
      <4>1. DOMAIN round = 1 .. Len(round)
        BY LenProperties DEF CallsInv, CallsTyped
      <4> QED
        BY <3>1, <4>1, NextInTurn
    <3>3. \A i \in 1 .. Len(done) : ~ Finishes(i)
      BY <3>1 DEF FinishInv
    <3>4. \A k : Finishes(k)' = Finishes(k)
      BY <3>1 DEF Finishes
    <3>5. CASE Finishes(NextCall)
      <4>1. pc' = "answered" /\ answer'.of = "call" /\ answer'.at = NextCall
        BY <2>3, <3>5 DEF Perform, Concludes, OfCall
      <4>2. \A k \in DOMAIN round : Finishes(k) => NextCall <= k
        BY <3>2, <3>3
      <4> QED
        BY <4>1, <4>2, <3>1, <3>4, <3>5 DEF FinishInv, CallAnswers
    <3>6. CASE ~ Finishes(NextCall)
      <4>1. done' = Append(done, NextCall) /\ pc' # "answered"
        BY <2>3, <3>6 DEF Perform, Reported, StepDone
      <4>2. \A i \in 1 .. Len(done') : ~ Finishes(i)
        BY <4>1, <3>2, <3>3, <3>6
      <4> QED
        BY <4>1, <4>2, <3>4 DEF FinishInv, CallAnswers
    <3> QED
      BY <3>5, <3>6
  <2>4. CASE StartCall
    BY <2>4, FinishElsewhere DEF StartCall
  <2>5. ASSUME NEW k \in DOMAIN round, EndCall(k)
        PROVE  FinishInv'
    <3>1. UNCHANGED <<round, cls, mode, pc, answer>> /\ busy # {}
      BY <2>5 DEF EndCall, StandStill
    <3>2. ~ (pc = "execute" /\ cls = "react" /\ mode = "run")
      BY <3>1 DEF CallsInv, InGroups
    <3> QED
      BY <3>1, <3>2 DEF FinishInv, CallAnswers, Finishes
  <2>6. CASE Collect
    <3>1. pc' \in {"answered", "model", "gave_up"}
      BY <2>6 DEF Collect, Concludes, StepDone
    <3>2. CASE pc' = "answered"
      BY <2>6, <3>2, FirstFinishes DEF FinishInv
    <3>3. CASE pc' # "answered"
      BY <3>1, <3>3, FinishElsewhere
    <3> QED
      BY <3>2, <3>3
  <2>7. CASE StartDelivery
    BY <2>7, FinishElsewhere DEF StartDelivery
  <2>8. CASE Deliver
    <3>1. mode' = "stream" /\ pc' # "execute"
      BY <2>8 DEF Deliver, Concludes, StepDone, Placed
    <3> QED
      BY <3>1, FinishElsewhere
  <2>9. CASE ReActRaises
    BY <2>9, <1>6, FinishElsewhere DEF ReActRaises
  <2> QED
    BY <1>7, <2>1, <2>2, <2>3, <2>4, <2>5, <2>6, <2>7, <2>8, <2>9 DEF ReActStep
<1>8. CASE PresetStep
  <2>1. CASE PresetStart
    BY <2>1, FinishElsewhere DEF PresetStart, Request
  <2>2. CASE NoPlan \/ \E n \in 1 .. MaxPlan : Plan(n)
    BY <2>2, FinishElsewhere DEF NoPlan, Plan, Request, Concludes, Text, Apology
  <2>3. CASE \E response \in UserResponses : PresetAsks(response)
    BY <2>3, FinishElsewhere DEF PresetAsks
  <2>4. CASE PresetPerform
    BY <2>4, FinishElsewhere DEF PresetPerform, IsPreset, StandStill
  <2>5. CASE PresetRaises
    BY <2>5, <1>6 DEF PresetRaises
  <2>6. ASSUME Responds
        PROVE  FinishInv'
    <3>1. \/ pc' \in {"model", "last", "broken"}
          \/ pc' = "answered" /\ \E k \in {1, Len(work'), LastExecution(work')} : answer' = OfWork(k)
      BY <2>6 DEF Responds, SimpleNext, PlanNext, ReflectNext, ReflectRuns, ReflectStreams,
                  Answered, AsksAgain, Concludes, Request
    <3>2. \A k : OfWork(k).of # "call"
      BY DEF OfWork
    <3> QED
      BY <3>1, <3>2, FinishElsewhere
  <2>7. CASE PresetAnswers \/ PresetModelFails \/ LastAnswers
    BY <2>7, <2>6, FinishElsewhere DEF PresetAnswers, PresetModelFails, LastAnswers
  <2> QED
    BY <1>8, <2>1, <2>2, <2>3, <2>4, <2>5, <2>7 DEF PresetStep
<1> QED
  BY <1>1, <1>2, <1>3, <1>4, <1>5, <1>7, <1>8 DEF Next, TurnStep

LEMMA MaxFacts ==
  ASSUME NEW n \in Nat, NEW U \in SUBSET (0 .. n), U # {}
  PROVE  Max(U) \in U /\ \A z \in U : z <= Max(U)
<1> DEFINE T == {n - x : x \in U}
<1>1. T \in SUBSET Nat /\ T # {}
  <2>1. \A x \in U : n - x \in Nat
    OBVIOUS
  <2>2. PICK x : x \in U
    OBVIOUS
  <2> QED
    BY <2>1, <2>2
<1>2. \E y \in T : \A z \in T : y <= z
  <2> HIDE DEF T
  <2> QED
    BY <1>1, LeastPosition
<1>3. \E x \in U : \A z \in U : x >= z
  <2>1. PICK x \in U : \A z \in U : n - x <= n - z
    BY <1>2
  <2>2. \A z \in U : x >= z
    BY <2>1
  <2> QED
    BY <2>2
<1>4. Max(U) \in U /\ \A z \in U : Max(U) >= z
  BY <1>3 DEF Max
<1> QED
  BY <1>4

\* What the phases of a turn produce.
Works == {"execution", "reflection", "final", "result"}

LEMMA LastExecutionFacts ==
  ASSUME NEW w \in Seq(Works), Attempts(w) # {}
  PROVE  /\ LastExecution(w) \in DOMAIN w /\ w[LastExecution(w)] = "execution"
         /\ \A k \in DOMAIN w : k > LastExecution(w) => w[k] # "execution"
<1> DEFINE n == Len(w)
           A == Attempts(w)
<1>1. n \in Nat /\ DOMAIN w = 1 .. n
  BY LenProperties
<1>2. A \in SUBSET (0 .. n)
  BY <1>1 DEF Attempts
<1>3. Max(A) \in A /\ \A z \in A : z <= Max(A)
  <2> HIDE DEF A, n
  <2> QED
    BY <1>1, <1>2, MaxFacts DEF A
<1>4. LastExecution(w) = Max(A)
  BY DEF LastExecution
<1> DEFINE m == Max(A)
<1>5. m \in DOMAIN w /\ w[m] = "execution"
  BY <1>3 DEF Attempts
<1>6. ASSUME NEW k \in DOMAIN w, k > m
      PROVE  w[k] # "execution"
  <2>1. m \in 1 .. n /\ k \in 1 .. n
    BY <1>1, <1>5
  <2>2. w[k] = "execution" => k <= m
    BY <1>3 DEF Attempts
  <2> HIDE DEF m, n
  <2> QED
    BY <2>1, <2>2, <1>6
<1> QED
  BY <1>4, <1>5, <1>6

Requesting == pc \in {"model", "last", "execute"}

WorkAnswers ==
  pc = "answered" /\ answer.of = "work" =>
    /\ cls = "plan" => answer.at = IF mode = "stream" THEN planned + 1 ELSE planned
    /\ cls = "reflect" =>
         /\ work[answer.at] = "execution"
         /\ \A k \in DOMAIN work : k > answer.at => work[k] # "execution"

\* A plan has no request too many, and a reflection follows an attempt.
WorkInv ==
  /\ work \in Seq(Works) /\ planned \in Nat
  /\ pc \in {"idle", "start", "over", "planning"} => work = <<>>
  /\ cls = "plan" /\ Requesting => Len(work) < PlanRequests
  /\ cls = "reflect" /\ work # <<>> => work[1] = "execution"
  /\ cls = "reflect" /\ mode = "stream" /\ Requesting => work = <<>>
  /\ WorkAnswers

LEMMA WorkInit == RunInit => WorkInv
BY EmptySeq DEF RunInit, NoTurn, WorkInv, WorkAnswers, Requesting

\* The work of the turn is left alone.
LEMMA WorkStay ==
  ASSUME WorkInv, UNCHANGED <<work, planned, cls, mode>>,
         \/ UNCHANGED <<pc, answer>>
         \/ pc' = "answered" /\ answer'.of # "work"
         \/ pc' \in {"gave_up", "deliver", "broken"}
         \/ Requesting /\ Requesting'
         \/ pc' \in {"model", "execute"} /\ cls = "react"
         \/ pc \in {"idle", "over", "start"} /\ pc' \in {"idle", "start", "planning"}
         \/ pc = "start" /\ pc' \in {"model", "last"} /\ cls # "plan"
  PROVE  WorkInv'
BY DEF WorkInv, WorkAnswers, Requesting, PlanRequests

LEMMA WorkEnds ==
  ASSUME Resets, pc' \in {"idle", "over"}
  PROVE  WorkInv'
BY EmptySeq DEF Resets, WorkInv, WorkAnswers, Requesting

LEMMA KindFacts ==
  /\ Kind \in Works
  /\ cls = "reflect" /\ Len(work) = 0 => Kind = "execution"
BY DEF Kind, Works

\* A request with an answer: the next request, or the answer of the turn.
LEMMA WorkResponds ==
  ASSUME Placed, WorkInv, Responds, pc \in {"model", "last"}
  PROVE  WorkInv'
<1> DEFINE c == Len(work)
           w == Append(work, Kind)
<1>1. /\ work \in Seq(Works) /\ planned \in Nat /\ c \in Nat
      /\ UNCHANGED <<cls, mode, planned>> /\ work' = w
  BY LenProperties DEF WorkInv, Responds, StandStill
<1>2. /\ w \in Seq(Works) /\ Len(w) = c + 1 /\ DOMAIN w = 1 .. c + 1
      /\ \A i \in 1 .. c : w[i] = work[i]
      /\ w[c + 1] = Kind
  <2>1. Kind \in Works
    BY KindFacts
  <2>2. /\ w \in Seq(Works) /\ Len(w) = c + 1
        /\ \A i \in 1 .. c : w[i] = work[i]
        /\ w[c + 1] = Kind
    <3> HIDE DEF w
    <3> QED
      BY <1>1, <2>1, AppendProperties DEF w
  <2> QED
    BY <2>2, LenProperties
<1>3. work'[1] = "execution" \/ cls # "reflect"
  <2> SUFFICES ASSUME cls = "reflect"
               PROVE  w[1] = "execution"
    BY <1>1
  <2>1. CASE c = 0
    BY <1>2, <2>1, KindFacts
  <2>2. CASE c # 0
    <3>1. 1 \in 1 .. c /\ work # <<>>
      BY <1>1, <2>2
    <3> HIDE DEF w, c
    <3> QED
      BY <3>1, <1>2 DEF WorkInv
  <2> QED
    BY <2>1, <2>2
<1>4. Requesting
  BY DEF Requesting
<1>5. CASE cls = "simple"
  <2>1. pc' = "answered"
    BY <1>5 DEF Responds, SimpleNext, Answered, Concludes
  <2> QED
    BY <2>1, <1>1, <1>2, <1>5 DEF WorkInv, WorkAnswers, Requesting
<1>6. CASE cls = "plan"
  <2>1. c < PlanRequests /\ PlanRequests \in Nat
    BY <1>1, <1>4, <1>6 DEF WorkInv, PlanRequests
  <2>2. PlanRequests' = PlanRequests
    BY <1>1 DEF PlanRequests
  <2>3. PlanNext(w)
    BY <1>1, <1>6 DEF Responds
  <2>4. CASE c + 1 < PlanRequests
    <3>1. pc' \in {"model", "last"}
      BY <2>3, <2>4, <1>2 DEF PlanNext, AsksAgain, Request
    <3> HIDE DEF w
    <3> QED
      BY <3>1, <2>2, <2>4, <1>1, <1>2, <1>6 DEF WorkInv, WorkAnswers
  <2>5. CASE ~ (c + 1 < PlanRequests)
    <3>1. pc' = "answered" /\ answer' = OfWork(c + 1)
      BY <2>3, <2>5, <1>2 DEF PlanNext, Answered, Concludes
    <3>2. c + 1 = PlanRequests
      <4> HIDE DEF c
      <4> QED
        BY <2>1, <2>5, <1>1
    <3>3. answer'.at = IF mode = "stream" THEN planned + 1 ELSE planned
      <4> HIDE DEF c
      <4> QED
        BY <3>1, <3>2 DEF OfWork, PlanRequests
    <3> HIDE DEF w
    <3> QED
      BY <3>1, <3>3, <1>1, <1>2, <1>6 DEF WorkInv, WorkAnswers, Requesting
  <2> QED
    BY <2>4, <2>5
<1>7. CASE cls = "reflect" /\ mode # "stream"
  <2>1. \/ pc' \in {"model", "last"}
        \/ pc' = "answered" /\ answer' = OfWork(LastExecution(w))
    BY <1>1, <1>7 DEF Responds, ReflectNext, ReflectRuns, AsksAgain, Request, Answered, Concludes
  <2>2. CASE pc' \in {"model", "last"}
    <3> HIDE DEF w
    <3> QED
      BY <2>2, <1>1, <1>2, <1>3, <1>7 DEF WorkInv, WorkAnswers
  <2>3. CASE pc' = "answered" /\ answer' = OfWork(LastExecution(w))
    <3> DEFINE m == LastExecution(w)
    <3>1. Attempts(w) # {}
      BY <1>1, <1>2, <1>3, <1>7 DEF Attempts
    <3>2. w[m] = "execution" /\ \A k \in DOMAIN w : k > m => w[k] # "execution"
      <4> HIDE DEF w
      <4> QED
        BY <1>2, <3>1, LastExecutionFacts
    <3>3. answer'.at = m
      BY <2>3 DEF OfWork
    <3> HIDE DEF w, m
    <3> QED
      BY <2>3, <3>2, <3>3, <1>1, <1>2, <1>3, <1>7 DEF WorkInv, WorkAnswers, Requesting
  <2> QED
    BY <2>1, <2>2, <2>3
<1>8. CASE cls = "reflect" /\ mode = "stream"
  <2>1. c = 0
    BY <1>4, <1>8 DEF WorkInv
  <2>2. \/ pc' = "broken"
        \/ pc' = "answered" /\ answer' = OfWork(1)
    BY <1>1, <1>2, <1>8, <2>1 DEF Responds, ReflectNext, ReflectStreams, Answered, Concludes
  <2>3. w[1] = "execution" /\ DOMAIN w = 1 .. 1
    BY <1>1, <1>2, <1>3, <1>8, <2>1
  <2>4. answer' = OfWork(1) => answer'.at = 1
    BY DEF OfWork
  <2> HIDE DEF w
  <2> QED
    BY <2>2, <2>3, <2>4, <1>1, <1>2, <1>8 DEF WorkInv, WorkAnswers, Requesting
<1> QED
  BY <1>5, <1>6, <1>7, <1>8 DEF Responds

LEMMA WorkStep ==
  ASSUME Placed, WorkInv, [Next]_vars
  PROVE  WorkInv'
<1>1. CASE UNCHANGED vars
  BY <1>1, WorkStay DEF vars, turn
<1>2. CASE \E m \in Modes : Begin(m)
  <2>1. work' = <<>> /\ work = <<>> /\ planned' = planned /\ pc' = "start"
    BY <1>2 DEF Begin, WorkInv
  <2> QED
    BY <2>1 DEF WorkInv, WorkAnswers, Requesting
<1>3. CASE \E filter \in Filters \cup {None}, steps \in {maxSteps, SubagentSteps} :
             Subtask(filter, steps)
  BY <1>3, WorkStay DEF Subtask, turn
<1>4. CASE Say \/ Interrupt
  BY <1>4, WorkEnds DEF Say, Interrupt, EndsWithout, Ends
<1>5. CASE Return \/ ReturnCutShort \/ SessionOperation
  BY <1>5, WorkStay DEF Return, ReturnCutShort, SessionOperation, turn
<1>6. ASSUME Raises
      PROVE  WorkInv'
  BY <1>6, WorkEnds DEF Raises, EndsWithout, Ends
<1>7. CASE ReActStep
  <2>1. CASE ReActStart \/ ReActModelFails \/ ReActAnswers \/ GiveUp
    BY <2>1, <1>6, WorkStay
       DEF ReActStart, ReActModelFails, ReActAnswers, GiveUp, Concludes, StandStill, Text, Apology
  <2>2. CASE \E response \in Responses : ReActAsks(response)
    BY <2>2, WorkStay DEF ReActAsks, StandStill
  <2>3. \A k : OfCall(k).of # "work"
    BY DEF OfCall
  <2>4. CASE Perform
    <3>1. /\ UNCHANGED <<work, planned, cls, mode>> /\ cls = "react"
          /\ \/ UNCHANGED <<pc, answer>>
             \/ pc' = "answered" /\ answer' = OfCall(NextCall)
             \/ pc' \in {"model", "gave_up"}
      BY <2>4 DEF Perform, Concludes, StepDone, StandStill
    <3> QED
      BY <3>1, <2>3, WorkStay
  <2>5. CASE StartCall \/ (\E k \in DOMAIN round : EndCall(k))
    BY <2>5, WorkStay DEF StartCall, EndCall, StandStill
  <2>6. CASE Collect
    <3>1. /\ UNCHANGED <<work, planned, cls, mode>> /\ cls = "react"
          /\ \/ pc' = "answered" /\ \E k : answer' = OfCall(k)
             \/ pc' \in {"model", "gave_up"}
      BY <2>6 DEF Collect, Concludes, StepDone, StandStill
    <3> QED
      BY <3>1, <2>3, WorkStay
  <2>7. CASE StartDelivery
    BY <2>7, WorkStay DEF StartDelivery, StandStill
  <2>8. CASE Deliver
    <3>1. /\ UNCHANGED <<work, planned, cls, mode>> /\ cls = "react"
          /\ \/ UNCHANGED <<pc, answer>>
             \/ pc' = "answered" /\ \E k : answer' = OfCall(k)
             \/ pc' \in {"model", "gave_up"}
      BY <2>8 DEF Deliver, Concludes, StepDone, StandStill, Placed
    <3> QED
      BY <3>1, <2>3, WorkStay
  <2>9. CASE ReActRaises
    BY <2>9, <1>6, WorkStay DEF ReActRaises, StandStill
  <2> QED
    BY <1>7, <2>1, <2>2, <2>4, <2>5, <2>6, <2>7, <2>8, <2>9 DEF ReActStep
<1>8. CASE PresetStep
  <2>1. CASE PresetStart
    BY <2>1, WorkStay DEF PresetStart, Request, StandStill
  <2>2. CASE NoPlan
    BY <2>2, WorkStay DEF NoPlan, Concludes, StandStill, Text, Apology
  <2>3. ASSUME NEW n \in 1 .. MaxPlan, Plan(n)
        PROVE  WorkInv'
    <3>1. n \in Nat \ {0}
      BY PresetAssumption DEF PresetAssumption
    <3>2. /\ UNCHANGED <<work, cls, mode>> /\ work = <<>> /\ cls = "plan"
          /\ planned' = n /\ pc' \in {"model", "last"}
      BY <2>3 DEF Plan, Request, StandStill, WorkInv, Placed
    <3>3. Len(work') = 0 /\ 0 < PlanRequests'
      BY <3>1, <3>2 DEF PlanRequests
    <3> QED
      BY <3>1, <3>2, <3>3 DEF WorkInv, WorkAnswers
  <2>4. CASE \E response \in UserResponses : PresetAsks(response)
    BY <2>4, WorkStay DEF PresetAsks, StandStill, Requesting
  <2>5. CASE PresetPerform
    BY <2>5, WorkStay DEF PresetPerform, StandStill, Requesting
  <2>6. CASE PresetRaises
    BY <2>6, <1>6 DEF PresetRaises
  <2>7. CASE PresetAnswers \/ PresetModelFails \/ LastAnswers
    <3>1. CASE Responds /\ pc \in {"model", "last"}
      BY <3>1, WorkResponds
    <3>2. CASE pc = "model" /\ pc' = "last" /\ UNCHANGED turn /\ StandStill
      BY <3>2, WorkStay DEF turn, StandStill, Requesting
    <3> QED
      BY <2>7, <3>1, <3>2 DEF PresetAnswers, PresetModelFails, LastAnswers
  <2> QED
    BY <1>8, <2>1, <2>2, <2>3, <2>4, <2>5, <2>6, <2>7 DEF PresetStep
<1> QED
  BY <1>1, <1>2, <1>3, <1>4, <1>5, <1>7, <1>8 DEF Next, TurnStep

\* An answer is what the class promises, whatever happened before it: the first
\* readable call of Finish, the last request of the plan, the last attempt of
\* ReflectionAgent and never a reflection.
THEOREM AnswersAreWhatIsPromised == Spec => []AnswersAreFinal
<1> DEFINE Inv == Placed /\ CallsInv /\ FinishInv /\ WorkInv
<1>1. RunInit => Inv
  BY PlacedInit, CallsInit, WorkInit, FinishElsewhere
     DEF RunInit, FinishInv, CallAnswers
<1>2. Inv /\ [Next]_vars => Inv'
  BY PlacedStep, CallsStep, FinishStep, WorkStep
<1>3. Inv => AnswersAreFinal
  BY DEF FinishInv, WorkInv, CallAnswers, WorkAnswers, AnswersAreFinal
<1> QED
  BY <1>1, <1>2, <1>3, PTL DEF Spec

-----------------------------------------------------------------------------
(* The events of a turn.                                                   *)

EventNames == {"agent_start", "step_start", "tool", "step_finish", "error", "agent_finish"}

\* One event after the others.
LEMMA OneByOne ==
  ASSUME NEW S, NEW s \in Seq(S), NEW a \in S, NEW b \in S
  PROVE  /\ s \o <<>> = s
         /\ s \o <<a>> = Append(s, a)
         /\ s \o <<a, b>> = Append(Append(s, a), b)
<1>1. s \o <<>> = s
  BY ConcatEmptySeq
<1>2. s \o <<a>> = Append(s, a)
  BY AppendIsConcat
<1>3. s \o <<a, b>> = Append(Append(s, a), b)
  OBVIOUS
<1> QED
  BY <1>1, <1>2, <1>3

LEMMA LastOne ==
  ASSUME NEW S, NEW s \in Seq(S), NEW t \in Seq(S), NEW a \in S
  PROVE  s \o Append(t, a) = Append(s \o t, a)
OBVIOUS

\* Where an event stands, how often it does, and how often it came before.
Sent(ev, e) == {i \in DOMAIN ev : ev[i] = e}
Times(ev, e) == Cardinality(Sent(ev, e))
Before(ev, e, i) == Cardinality({j \in Sent(ev, e) : j < i})

LEMMA SentFacts ==
  ASSUME NEW ev \in Seq(EventNames), NEW x \in EventNames, NEW e
  PROVE  LET t == Append(ev, x)
             n == Len(ev)
         IN  /\ t \in Seq(EventNames) /\ n \in Nat
             /\ Sent(ev, e) \in SUBSET (1 .. n) /\ Times(ev, e) \in Nat
             /\ Sent(t, e) = Sent(ev, e) \cup (IF x = e THEN {n + 1} ELSE {})
             /\ Times(t, e) = Times(ev, e) + (IF x = e THEN 1 ELSE 0)
             /\ \A i \in 1 .. n : Before(t, e, i) = Before(ev, e, i)
             /\ Before(t, e, n + 1) = Times(ev, e)
<1> DEFINE t == Append(ev, x)
           n == Len(ev)
           m == n + 1
           s == Sent(ev, e)
<1>1. n \in Nat /\ DOMAIN ev = 1 .. n
  BY LenProperties
<1>2. /\ t \in Seq(EventNames) /\ DOMAIN t = 1 .. m
      /\ \A i \in 1 .. n : t[i] = ev[i]
      /\ t[m] = x
  BY AppendProperties, LenProperties
<1>3. /\ 1 .. m = (1 .. n) \cup {m} /\ m \notin 1 .. n /\ m \in Nat
      /\ \A i \in 1 .. n : i < m /\ ~ (m < i)
      /\ ~ (m < m)
  BY <1>1
<1>4. s \in SUBSET (1 .. n)
  BY <1>1 DEF Sent
<1>5. IsFiniteSet(s) /\ Cardinality(s) \in Nat
  <2> HIDE DEF s, n
  <2> QED
    BY <1>1, <1>4, PositionsFinite
<1>6. Sent(t, e) = s \cup (IF x = e THEN {m} ELSE {})
  <2> HIDE DEF t, n, m
  <2>1. \A i \in DOMAIN t : t[i] = e <=> (i \in s \/ (i = m /\ x = e))
    BY <1>1, <1>2, <1>3 DEF Sent
  <2>2. \A i \in s : i \in DOMAIN t
    BY <1>2, <1>3, <1>4
  <2>3. m \in DOMAIN t
    BY <1>2, <1>3
  <2> HIDE DEF s
  <2> QED
    BY <2>1, <2>2, <2>3 DEF Sent
<1>7. Times(t, e) = Times(ev, e) + (IF x = e THEN 1 ELSE 0)
  <2>1. m \notin s
    <3> HIDE DEF n, m, s
    <3> QED
      BY <1>3, <1>4
  <2>2. Cardinality(s \cup {m}) = Cardinality(s) + 1
    <3> HIDE DEF m, s
    <3> QED
      BY <1>5, <2>1, FS_AddElement
  <2>3. Times(ev, e) = Cardinality(s) /\ Times(t, e) = Cardinality(Sent(t, e))
    BY DEF Times
  <2> HIDE DEF s, m, t
  <2>4. CASE x = e
    BY <2>2, <2>3, <2>4, <1>6
  <2>5. CASE x # e
    <3>1. Sent(t, e) = s
      BY <1>6, <2>5
    <3> QED
      BY <3>1, <2>3, <2>5, <1>5
  <2> QED
    BY <2>4, <2>5
<1>8. ASSUME NEW i \in 1 .. n
      PROVE  Before(t, e, i) = Before(ev, e, i)
  <2>1. {j \in Sent(t, e) : j < i} = {j \in s : j < i}
    <3> HIDE DEF t, n, m, s
    <3> QED
      BY <1>3, <1>6
  <2> QED
    BY <2>1 DEF Before
<1>9. Before(t, e, m) = Times(ev, e)
  <2>1. {j \in Sent(t, e) : j < m} = s
    <3> HIDE DEF t, n, m, s
    <3> QED
      BY <1>3, <1>4, <1>6
  <2> QED
    BY <2>1 DEF Before, Times
<1> QED
  BY <1>1, <1>2, <1>4, <1>5, <1>6, <1>7, <1>8, <1>9 DEF Times

\* A well-formed stream, and one that goes on, inside a step or not.
Shape(ev) ==
  /\ Sent(ev, "agent_start") = IF ev = <<>> THEN {} ELSE {1}
  /\ \A i \in Sent(ev, "step_start") :
       Before(ev, "step_start", i) = Before(ev, "step_finish", i)
  /\ \A i \in Sent(ev, "step_finish") \cup Sent(ev, "tool") :
       Before(ev, "step_start", i) = Before(ev, "step_finish", i) + 1
  /\ Sent(ev, "agent_finish") \subseteq {Len(ev)}

Stream(ev, open) ==
  /\ Shape(ev) /\ ev # <<>> /\ Sent(ev, "agent_finish") = {}
  /\ Times(ev, "step_start") = Times(ev, "step_finish") + (IF open THEN 1 ELSE 0)

LEMMA NothingSent ==
  /\ \A e : Sent(<<>>, e) = {} /\ Times(<<>>, e) = 0
  /\ Shape(<<>>)
<1>1. \A e : Sent(<<>>, e) = {} /\ Times(<<>>, e) = 0
  BY FS_EmptySet DEF Sent, Times
<1> QED
  BY <1>1 DEF Shape

LEMMA StreamStarts ==
  /\ Append(<<>>, "agent_start") \in Seq(EventNames)
  /\ Stream(Append(<<>>, "agent_start"), FALSE)
<1> DEFINE ev == <<>>
           t == Append(ev, "agent_start")
<1>1. ev \in Seq(EventNames) /\ "agent_start" \in EventNames /\ Len(ev) = 0
  BY EmptySeq DEF EventNames
<1>2. t \in Seq(EventNames) /\ t # <<>>
  BY <1>1, AppendProperties
<1>3. \A e : /\ Sent(ev, e) = {} /\ Times(ev, e) = 0
             /\ Sent(t, e) = IF "agent_start" = e THEN {1} ELSE {}
             /\ Times(t, e) = IF "agent_start" = e THEN 1 ELSE 0
  <2> TAKE e
  <2>1. Sent(ev, e) = {} /\ Times(ev, e) = 0
    BY NothingSent
  <2>2. /\ Sent(t, e) = Sent(ev, e) \cup (IF "agent_start" = e THEN {0 + 1} ELSE {})
        /\ Times(t, e) = Times(ev, e) + (IF "agent_start" = e THEN 1 ELSE 0)
    <3>1. ASSUME NEW v \in Seq(EventNames), NEW x \in EventNames
          PROVE  /\ Sent(Append(v, x), e) = Sent(v, e) \cup (IF x = e THEN {Len(v) + 1} ELSE {})
                 /\ Times(Append(v, x), e) = Times(v, e) + (IF x = e THEN 1 ELSE 0)
      BY SentFacts
    <3> HIDE DEF ev
    <3> QED
      BY <3>1, <1>1
  <2> HIDE DEF ev, t
  <2> QED
    BY <2>1, <2>2
<1> HIDE DEF ev, t
<1>4. Stream(t, FALSE)
  BY <1>2, <1>3 DEF Stream, Shape
<1> QED
  BY <1>2, <1>4 DEF t, ev

\* An event that is in its place leaves a stream well-formed.
LEMMA StreamGoesOn ==
  ASSUME NEW ev \in Seq(EventNames), NEW open \in BOOLEAN, Stream(ev, open),
         NEW x \in EventNames, NEW next \in BOOLEAN,
         \/ x = "step_start" /\ ~ open /\ next
         \/ x = "step_finish" /\ open /\ ~ next
         \/ x = "tool" /\ open /\ next
         \/ x = "error" /\ next = open
  PROVE  Append(ev, x) \in Seq(EventNames) /\ Stream(Append(ev, x), next)
<1> DEFINE t == Append(ev, x)
           n == Len(ev)
           m == n + 1
<1>1. /\ t \in Seq(EventNames) /\ n \in Nat /\ Len(t) = m
      /\ \A i \in 1 .. n : i # m
  BY AppendProperties, LenProperties
<1>2. \A e : /\ Sent(ev, e) \in SUBSET (1 .. n) /\ Times(ev, e) \in Nat
             /\ Sent(t, e) = Sent(ev, e) \cup (IF x = e THEN {m} ELSE {})
             /\ Times(t, e) = Times(ev, e) + (IF x = e THEN 1 ELSE 0)
             /\ \A i \in 1 .. n : Before(t, e, i) = Before(ev, e, i)
             /\ Before(t, e, m) = Times(ev, e)
  BY SentFacts
<1>3. t # <<>>
  BY <1>1
<1>4. /\ Sent(ev, "agent_start") = {1} /\ Sent(ev, "agent_finish") = {}
      /\ \A i \in Sent(ev, "step_start") :
           Before(ev, "step_start", i) = Before(ev, "step_finish", i)
      /\ \A i \in Sent(ev, "step_finish") \cup Sent(ev, "tool") :
           Before(ev, "step_start", i) = Before(ev, "step_finish", i) + 1
      /\ Times(ev, "step_start") = Times(ev, "step_finish") + (IF open THEN 1 ELSE 0)
  BY DEF Stream, Shape
<1> HIDE DEF t, n, m
<1>5. Sent(t, "agent_start") = {1} /\ Sent(t, "agent_finish") = {}
  BY <1>2, <1>4
<1>6. ASSUME NEW i \in Sent(t, "step_start")
      PROVE  Before(t, "step_start", i) = Before(t, "step_finish", i)
  <2>1. CASE i \in Sent(ev, "step_start")
    <3>1. i \in 1 .. n
      BY <2>1, <1>2
    <3> QED
      BY <2>1, <3>1, <1>2, <1>4
  <2>2. CASE i = m /\ x = "step_start"
    BY <2>2, <1>2, <1>4
  <2> QED
    BY <2>1, <2>2, <1>2
<1>7. ASSUME NEW i \in Sent(t, "step_finish") \cup Sent(t, "tool")
      PROVE  Before(t, "step_start", i) = Before(t, "step_finish", i) + 1
  <2>1. CASE i \in Sent(ev, "step_finish") \cup Sent(ev, "tool")
    <3>1. i \in 1 .. n
      BY <2>1, <1>2
    <3> QED
      BY <2>1, <3>1, <1>2, <1>4
  <2>2. CASE i = m /\ x \in {"step_finish", "tool"}
    BY <2>2, <1>2, <1>4
  <2> QED
    BY <2>1, <2>2, <1>2
<1>8. Times(t, "step_start") = Times(t, "step_finish") + (IF next THEN 1 ELSE 0)
  BY <1>2, <1>4
<1>9. Shape(t)
  BY <1>3, <1>5, <1>6, <1>7 DEF Shape
<1>10. Stream(t, next)
  BY <1>3, <1>5, <1>8, <1>9 DEF Stream
<1> QED
  BY <1>1, <1>10 DEF t

LEMMA StreamEnds ==
  ASSUME NEW ev \in Seq(EventNames), NEW open \in BOOLEAN, Stream(ev, open)
  PROVE  LET t == Append(ev, "agent_finish")
         IN  t \in Seq(EventNames) /\ Shape(t) /\ Sent(t, "agent_finish") # {}
<1> DEFINE x == "agent_finish"
           t == Append(ev, x)
           n == Len(ev)
           m == n + 1
<1>1. /\ x \in EventNames /\ t \in Seq(EventNames) /\ n \in Nat /\ Len(t) = m
      /\ \A i \in 1 .. n : i # m
  BY AppendProperties, LenProperties DEF EventNames
<1>2. \A e : /\ Sent(ev, e) \in SUBSET (1 .. n) /\ Times(ev, e) \in Nat
             /\ Sent(t, e) = Sent(ev, e) \cup (IF x = e THEN {m} ELSE {})
             /\ \A i \in 1 .. n : Before(t, e, i) = Before(ev, e, i)
  <2> HIDE DEF x
  <2> QED
    BY <1>1, SentFacts
<1>3. t # <<>>
  BY <1>1
<1> HIDE DEF t, n, m
<1>4. /\ Sent(t, "agent_start") = {1} /\ Sent(t, "agent_finish") = {m}
      /\ Sent(t, "step_start") = Sent(ev, "step_start")
      /\ Sent(t, "step_finish") = Sent(ev, "step_finish")
      /\ Sent(t, "tool") = Sent(ev, "tool")
  BY <1>2 DEF Stream, Shape
<1>5. Shape(t)
  BY <1>1, <1>2, <1>3, <1>4 DEF Stream, Shape
<1> QED
  BY <1>1, <1>4, <1>5 DEF t

\* Where a turn goes on, and where a step of its stream is open.
Talking == pc \in {"model", "execute", "deliver", "gave_up", "planning", "last", "broken"}
StepOpen ==
  IF cls = "react" THEN pc \in {"model", "execute", "deliver"}
  ELSE mode = "stream" /\ cls # "simple"

\* What a consumer has seen when the turn goes on.
Streaming ==
  IF mode = "run" THEN events = <<>>
  ELSE \E open \in BOOLEAN : Stream(events, open) /\ (StepOpen => open)

EventsInv ==
  /\ events \in Seq(EventNames)
  /\ Talking \/ pc \in {"idle", "start", "over", "answered"}
  /\ mode = "run" \/ pc \in {"idle", "start", "over"} => events = <<>>
  /\ Talking => Streaming
  /\ pc = "answered" =>
       /\ Shape(events)
       /\ mode = "stream" => Sent(events, "agent_finish") # {}

LEMMA EventsInit == RunInit => EventsInv
BY EmptySeq DEF RunInit, NoTurn, EventsInv, Talking

LEMMA EventsEnd ==
  ASSUME Resets, pc' \in {"idle", "over"}
  PROVE  EventsInv'
BY EmptySeq DEF Resets, EventsInv, Talking

\* Nothing is sent.
LEMMA EventsStay ==
  ASSUME EventsInv, UNCHANGED <<events, cls, mode>>,
         \/ pc' = pc
         \/ Talking /\ Talking' /\ (StepOpen' => StepOpen)
         \/ Talking /\ pc' = "answered" /\ mode # "stream"
         \/ pc \in {"idle", "over"} /\ pc' \in {"idle", "start"}
  PROVE  EventsInv'
<1>1. CASE pc' = pc
  BY <1>1 DEF EventsInv, Talking, Streaming, StepOpen
<1>2. CASE Talking /\ Talking' /\ (StepOpen' => StepOpen)
  BY <1>2 DEF EventsInv, Streaming, Talking
<1>3. CASE Talking /\ pc' = "answered" /\ mode # "stream"
  <2>1. Shape(events)
    BY <1>3, NothingSent DEF EventsInv, Streaming, Stream
  <2> QED
    BY <1>3, <2>1 DEF EventsInv, Talking
<1>4. CASE pc \in {"idle", "over"} /\ pc' \in {"idle", "start"}
  BY <1>4 DEF EventsInv, Talking
<1> QED
  BY <1>1, <1>2, <1>3, <1>4

\* A list of events is sent, and the turn goes on.
LEMMA EventsSent ==
  ASSUME EventsInv, UNCHANGED <<cls, mode>>, NEW seq, Emits(seq), Talking',
         NEW open \in BOOLEAN,
         mode # "run" =>
           events \o seq \in Seq(EventNames) /\ Stream(events \o seq, open),
         StepOpen' => open \/ mode = "run"
  PROVE  EventsInv'
<1>1. CASE mode = "run"
  <2>1. events' = <<>>
    BY <1>1 DEF Emits, EventsInv
  <2> QED
    BY <1>1, <2>1, EmptySeq DEF EventsInv, Talking, Streaming
<1>2. CASE mode # "run"
  <2> DEFINE ev == events \o seq
  <2>1. events' = ev /\ ev \in Seq(EventNames) /\ Stream(ev, open)
    BY <1>2 DEF Emits
  <2> HIDE DEF ev
  <2>2. Stream(events', open)
    BY <2>1
  <2>3. Streaming'
    BY <1>2, <2>2 DEF Streaming
  <2> QED
    BY <1>2, <2>1, <2>3 DEF EventsInv, Talking
<1> QED
  BY <1>1, <1>2

\* The answer is announced.
LEMMA EventsConclude ==
  ASSUME EventsInv, UNCHANGED <<cls, mode>>, NEW a, NEW seq \in Seq(EventNames),
         Concludes(a, seq), NEW open \in BOOLEAN,
         mode # "run" =>
           events \o seq \in Seq(EventNames) /\ Stream(events \o seq, open)
  PROVE  EventsInv'
<1>1. CASE mode = "run"
  <2>1. events' = <<>>
    BY <1>1 DEF Concludes, Emits, EventsInv
  <2> QED
    BY <1>1, <2>1, EmptySeq, NothingSent DEF EventsInv, Talking, Streaming, Concludes
<1>2. CASE mode = "stream"
  <2> DEFINE ev == events \o seq
  <2>1. ev \in Seq(EventNames) /\ Stream(ev, open) /\ events \in Seq(EventNames)
    BY <1>2 DEF EventsInv
  <2>2. "agent_finish" \in EventNames
    BY DEF EventNames
  <2>3. events' = Append(ev, "agent_finish")
    <3>1. events' = events \o Append(seq, "agent_finish")
      BY <1>2 DEF Concludes, Emits
    <3>2. events \o Append(seq, "agent_finish") = Append(events \o seq, "agent_finish")
      BY <2>1, <2>2, LastOne
    <3> QED
      BY <3>1, <3>2
  <2> HIDE DEF ev
  <2>4. events' \in Seq(EventNames) /\ Shape(events') /\ Sent(events', "agent_finish") # {}
    BY <2>1, <2>3, StreamEnds
  <2> QED
    BY <1>2, <2>4 DEF EventsInv, Talking, Streaming, Concludes
<1>3. CASE mode \notin {"run", "stream"}
  <2> DEFINE ev == events \o seq
  <2>1. events' = ev /\ ev \in Seq(EventNames) /\ Stream(ev, open)
    BY <1>3 DEF Concludes, Emits
  <2> HIDE DEF ev
  <2> QED
    BY <1>3, <2>1 DEF EventsInv, Talking, Streaming, Concludes, Stream
<1> QED
  BY <1>1, <1>2, <1>3

\* The lists of events that are sent in the middle of a turn.
LEMMA Lists ==
  ASSUME NEW ev \in Seq(EventNames), NEW open \in BOOLEAN, Stream(ev, open)
  PROVE  /\ ev \o <<>> \in Seq(EventNames) /\ Stream(ev \o <<>>, open)
         /\ ev \o <<"error">> \in Seq(EventNames) /\ Stream(ev \o <<"error">>, open)
         /\ open => /\ ev \o <<"tool">> \in Seq(EventNames)
                    /\ Stream(ev \o <<"tool">>, TRUE)
                    /\ ev \o <<"step_finish">> \in Seq(EventNames)
                    /\ Stream(ev \o <<"step_finish">>, FALSE)
                    /\ ev \o <<"tool", "step_finish">> \in Seq(EventNames)
                    /\ Stream(ev \o <<"tool", "step_finish">>, FALSE)
                    /\ ev \o <<"step_finish", "step_start">> \in Seq(EventNames)
                    /\ Stream(ev \o <<"step_finish", "step_start">>, TRUE)
<1>1. {"step_start", "step_finish", "tool", "error"} \subseteq EventNames
  BY DEF EventNames
<1>2. ev \o <<>> = ev
  BY OneByOne, <1>1
<1>3. \A a \in EventNames : ev \o <<a>> = Append(ev, a)
  BY OneByOne
<1>4. \A a, b \in EventNames : ev \o <<a, b>> = Append(Append(ev, a), b)
  BY OneByOne
<1>5. Append(ev, "error") \in Seq(EventNames) /\ Stream(Append(ev, "error"), open)
  BY <1>1, StreamGoesOn
<1>6. ASSUME open
      PROVE  /\ Append(ev, "tool") \in Seq(EventNames) /\ Stream(Append(ev, "tool"), TRUE)
             /\ Append(ev, "step_finish") \in Seq(EventNames)
             /\ Stream(Append(ev, "step_finish"), FALSE)
  BY <1>1, <1>6, StreamGoesOn
<1>7. ASSUME open
      PROVE  /\ Append(Append(ev, "tool"), "step_finish") \in Seq(EventNames)
             /\ Stream(Append(Append(ev, "tool"), "step_finish"), FALSE)
             /\ Append(Append(ev, "step_finish"), "step_start") \in Seq(EventNames)
             /\ Stream(Append(Append(ev, "step_finish"), "step_start"), TRUE)
  BY <1>1, <1>6, <1>7, StreamGoesOn
<1> QED
  BY <1>1, <1>2, <1>3, <1>4, <1>5, <1>6, <1>7

LEMMA StepDoneSends ==
  ASSUME EventsInv, cls = "react", UNCHANGED <<cls, mode>>, NEW seq \in Seq(EventNames),
         StepDone(seq),
         mode # "run" =>
           events \o seq \in Seq(EventNames) /\ Stream(events \o seq, FALSE)
  PROVE  EventsInv'
<1>1. CASE step < maxSteps
  <2> DEFINE ss == "step_start"
             longer == Append(seq, ss)
  <2>1. Emits(longer) /\ pc' = "model"
    BY <1>1 DEF StepDone
  <2>2. ASSUME mode # "run"
        PROVE  events \o longer \in Seq(EventNames) /\ Stream(events \o longer, TRUE)
    <3> DEFINE ev == events \o seq
    <3>1. ev \in Seq(EventNames) /\ Stream(ev, FALSE) /\ ss \in EventNames
      BY <2>2 DEF EventNames
    <3>2. events \o longer = Append(ev, ss)
      BY <3>1, LastOne DEF EventsInv
    <3>3. Append(ev, ss) \in Seq(EventNames) /\ Stream(Append(ev, ss), TRUE)
      <4> HIDE DEF ev
      <4> QED
        BY <3>1, StreamGoesOn
    <3> QED
      BY <3>2, <3>3
  <2> HIDE DEF longer
  <2> QED
    BY <2>1, <2>2, EventsSent DEF Talking
<1>2. CASE ~ (step < maxSteps)
  <2>1. Emits(seq) /\ pc' = "gave_up"
    BY <1>2 DEF StepDone
  <2> QED
    BY <2>1, EventsSent DEF Talking, StepOpen
<1> QED
  BY <1>1, <1>2

\* What is seen of a turn that goes on, with a step that is open.
LEMMA Seen ==
  ASSUME EventsInv, Talking, mode # "run"
  PROVE  /\ events \in Seq(EventNames)
         /\ \E open \in BOOLEAN : Stream(events, open)
         /\ StepOpen => Stream(events, TRUE)
BY DEF EventsInv, Streaming

LEMMA ReActEvents ==
  ASSUME Placed, EventsInv, ReActStep
  PROVE  EventsInv'
<1> DEFINE ev == events
<1>1. <<>> \in Seq(EventNames) /\ <<"tool">> \in Seq(EventNames)
      /\ <<"step_finish">> \in Seq(EventNames) /\ <<"tool", "step_finish">> \in Seq(EventNames)
  BY DEF EventNames
<1>2. ASSUME Raises
      PROVE  EventsInv'
  BY <1>2, EventsEnd DEF Raises, EndsWithout, Ends
<1>3. CASE ReActStart
  <2>1. CASE Raises
    BY <2>1, <1>2
  <2>2. CASE ~ Raises
    <3>1. /\ UNCHANGED <<cls, mode>> /\ pc' = "model" /\ events = <<>>
          /\ Emits(<<"agent_start", "step_start">>)
      BY <1>3, <2>2 DEF ReActStart, StandStill, EventsInv
    <3> DEFINE one == Append(<<>>, "agent_start")
               two == Append(one, "step_start")
    <3>2. one \in Seq(EventNames) /\ Stream(one, FALSE) /\ "step_start" \in EventNames
      BY StreamStarts DEF EventNames
    <3>3. two \in Seq(EventNames) /\ Stream(two, TRUE)
      <4> HIDE DEF one
      <4> QED
        BY <3>2, StreamGoesOn
    <3>4. events \o <<"agent_start", "step_start">> = two
      BY <3>1
    <3> HIDE DEF two
    <3>5. events \o <<"agent_start", "step_start">> \in Seq(EventNames)
          /\ Stream(events \o <<"agent_start", "step_start">>, TRUE)
      BY <3>3, <3>4
    <3> QED
      BY <3>1, <3>5, EventsSent DEF Talking
  <2> QED
    BY <2>1, <2>2
<1>4. CASE ReActModelFails \/ (ReActRaises /\ mode = "stream" /\ ~ Raises)
  <2>1. /\ UNCHANGED <<cls, mode>> /\ pc' = "gave_up" /\ Emits(<<"error">>)
        /\ Talking /\ cls = "react"
    BY <1>4 DEF ReActModelFails, ReActRaises, StandStill, Talking
  <2>2. CASE mode = "run"
    BY <2>1, <2>2, EventsSent DEF Talking, StepOpen
  <2>3. CASE mode # "run"
    <3>1. PICK open \in BOOLEAN : Stream(events, open)
      BY <2>1, <2>3, Seen
    <3>2. events \o <<"error">> \in Seq(EventNames) /\ Stream(events \o <<"error">>, open)
      BY <3>1, Lists DEF EventsInv
    <3> QED
      BY <2>1, <3>2, EventsSent DEF Talking, StepOpen
  <2> QED
    BY <2>2, <2>3
<1>5. CASE ReActAnswers \/ GiveUp
  <2>1. PICK a : Concludes(a, <<>>)
    BY <1>5 DEF ReActAnswers, GiveUp
  <2>2. UNCHANGED <<cls, mode>> /\ Talking
    BY <1>5 DEF ReActAnswers, GiveUp, StandStill, Talking
  <2>3. \E open \in BOOLEAN :
          mode # "run" => /\ events \o <<>> \in Seq(EventNames)
                          /\ Stream(events \o <<>>, open)
    BY <2>2, Seen, Lists
  <2> QED
    BY <2>1, <2>2, <2>3, <1>1, EventsConclude
<1>6. CASE \E response \in Responses : ReActAsks(response)
  BY <1>6, EventsStay DEF ReActAsks, StandStill, Talking, StepOpen
<1>7. CASE Perform
  <2>1. UNCHANGED <<cls, mode>> /\ mode = "run" /\ cls = "react" /\ Talking
    BY <1>7 DEF Perform, StandStill, Talking
  <2>2. \/ \E a : Concludes(a, <<>>)
        \/ StepDone(<<>>)
        \/ UNCHANGED <<pc, events>>
    BY <1>7 DEF Perform
  <2> QED
    BY <2>1, <2>2, <1>1, EventsConclude, StepDoneSends, EventsStay
<1>8. CASE StartCall
  <2>1. /\ UNCHANGED <<cls, mode, pc>> /\ mode # "run" /\ cls = "react"
        /\ Talking /\ Talking' /\ StepOpen
        /\ Emits(<<"tool">>) \/ Emits(<<>>)
    BY <1>8 DEF StartCall, StandStill, Talking, StepOpen
  <2>2. events \in Seq(EventNames) /\ Stream(events, TRUE)
    BY <2>1, Seen
  <2>3. /\ events \o <<>> \in Seq(EventNames) /\ Stream(events \o <<>>, TRUE)
        /\ events \o <<"tool">> \in Seq(EventNames) /\ Stream(events \o <<"tool">>, TRUE)
    BY <2>2, Lists
  <2> QED
    BY <2>1, <2>3, EventsSent
<1>9. CASE \E k \in DOMAIN round : EndCall(k)
  BY <1>9, EventsStay DEF EndCall, StandStill
<1>10. CASE Collect
  <2>1. /\ UNCHANGED <<cls, mode>> /\ cls = "react" /\ mode # "run"
        /\ Talking /\ StepOpen
        /\ (\E a : Concludes(a, <<>>)) \/ StepDone(<<"step_finish">>)
    BY <1>10 DEF Collect, StandStill, Talking, StepOpen
  <2>2. events \in Seq(EventNames) /\ Stream(events, TRUE)
    BY <2>1, Seen
  <2>3. /\ events \o <<>> \in Seq(EventNames) /\ Stream(events \o <<>>, TRUE)
        /\ events \o <<"step_finish">> \in Seq(EventNames)
        /\ Stream(events \o <<"step_finish">>, FALSE)
    BY <2>2, Lists
  <2> QED
    BY <2>1, <2>3, <1>1, EventsConclude, StepDoneSends
<1>11. CASE StartDelivery
  BY <1>11, EventsStay DEF StartDelivery, StandStill, Talking, StepOpen
<1>12. CASE Deliver
  <2>1. /\ UNCHANGED <<cls, mode>> /\ cls = "react" /\ mode = "stream"
        /\ Talking /\ StepOpen
        /\ \/ \E a : Concludes(a, <<"tool">>)
           \/ StepDone(<<"tool", "step_finish">>)
           \/ Emits(<<"tool">>) /\ UNCHANGED pc
    BY <1>12 DEF Deliver, StandStill, Talking, StepOpen, Placed
  <2>2. events \in Seq(EventNames) /\ Stream(events, TRUE)
    BY <2>1, Seen
  <2>3. /\ events \o <<"tool">> \in Seq(EventNames) /\ Stream(events \o <<"tool">>, TRUE)
        /\ events \o <<"tool", "step_finish">> \in Seq(EventNames)
        /\ Stream(events \o <<"tool", "step_finish">>, FALSE)
    BY <2>2, Lists
  <2>4. CASE Emits(<<"tool">>) /\ UNCHANGED pc
    <3>1. Talking'
      BY <2>1, <2>4 DEF Talking
    <3> QED
      BY <2>1, <2>3, <2>4, <3>1, EventsSent
  <2> QED
    BY <2>1, <2>3, <2>4, <1>1, EventsConclude, StepDoneSends
<1>13. CASE ReActRaises
  BY <1>13, <1>2, <1>4 DEF ReActRaises
<1> QED
  BY <1>3, <1>4, <1>5, <1>6, <1>7, <1>8, <1>9, <1>10, <1>11, <1>12, <1>13 DEF ReActStep

LEMMA PresetEvents ==
  ASSUME Placed, EventsInv, PresetStep
  PROVE  EventsInv'
<1>1. <<>> \in Seq(EventNames) /\ <<"error">> \in Seq(EventNames)
      /\ <<"step_finish">> \in Seq(EventNames)
  BY DEF EventNames
<1>2. ASSUME Raises
      PROVE  EventsInv'
  BY <1>2, EventsEnd DEF Raises, EndsWithout, Ends
<1>3. CASE PresetStart
  <2>1. /\ UNCHANGED <<cls, mode>> /\ Talking' /\ events = <<>> /\ cls # "react"
        /\ pc' \in {"planning", "model", "last"}
    BY <1>3 DEF PresetStart, Request, IsPreset, StandStill, Talking, EventsInv
  <2> DEFINE one == Append(<<>>, "agent_start")
             two == Append(one, "step_start")
  <2>2. one \in Seq(EventNames) /\ Stream(one, FALSE) /\ "step_start" \in EventNames
    BY StreamStarts DEF EventNames
  <2>3. two \in Seq(EventNames) /\ Stream(two, TRUE)
    <3> HIDE DEF one
    <3> QED
      BY <2>2, StreamGoesOn
  <2>4. events \o <<"agent_start", "step_start">> = two /\ events \o <<"agent_start">> = one
    BY <2>1
  <2> HIDE DEF one, two
  <2>5. CASE mode = "stream" /\ cls # "simple"
    <3>1. Emits(<<"agent_start", "step_start">>)
      BY <1>3, <2>5 DEF PresetStart
    <3>2. events \o <<"agent_start", "step_start">> \in Seq(EventNames)
          /\ Stream(events \o <<"agent_start", "step_start">>, TRUE)
      BY <2>3, <2>4
    <3> QED
      BY <2>1, <3>1, <3>2, EventsSent
  <2>6. CASE ~ (mode = "stream" /\ cls # "simple")
    <3>1. Emits(<<"agent_start">>)
      BY <1>3, <2>6 DEF PresetStart
    <3>2. events \o <<"agent_start">> \in Seq(EventNames)
          /\ Stream(events \o <<"agent_start">>, FALSE)
      BY <2>2, <2>4
    <3>3. ~ StepOpen'
      BY <2>1, <2>6 DEF StepOpen
    <3> QED
      BY <2>1, <3>1, <3>2, <3>3, EventsSent
  <2> QED
    BY <2>5, <2>6
<1>4. CASE NoPlan
  <2>1. UNCHANGED <<cls, mode>> /\ Talking
    BY <1>4 DEF NoPlan, StandStill, Talking
  <2>2. \E a : Concludes(a, <<"error">>) \/ Concludes(a, <<>>)
    BY <1>4 DEF NoPlan
  <2>3. \E open \in BOOLEAN :
          mode # "run" => /\ events \o <<>> \in Seq(EventNames)
                          /\ Stream(events \o <<>>, open)
                          /\ events \o <<"error">> \in Seq(EventNames)
                          /\ Stream(events \o <<"error">>, open)
    BY <2>1, Seen, Lists
  <2> QED
    BY <2>1, <2>2, <2>3, <1>1, EventsConclude
<1>5. ASSUME Talking, UNCHANGED <<cls, mode>>, cls \notin {"react", "simple"}, Talking',
             Emits(IF mode = "stream" THEN <<"step_finish", "step_start">> ELSE <<>>)
      PROVE  EventsInv'
  <2>1. CASE mode = "stream"
    <3>1. events \in Seq(EventNames) /\ Stream(events, TRUE)
      BY <1>5, <2>1, Seen DEF StepOpen
    <3>2. /\ events \o <<"step_finish", "step_start">> \in Seq(EventNames)
          /\ Stream(events \o <<"step_finish", "step_start">>, TRUE)
      BY <3>1, Lists
    <3> QED
      BY <1>5, <2>1, <3>2, EventsSent
  <2>2. CASE mode # "stream"
    <3>1. Emits(<<>>) /\ ~ StepOpen'
      BY <1>5, <2>2 DEF StepOpen
    <3>2. \E open \in BOOLEAN :
            mode # "run" => /\ events \o <<>> \in Seq(EventNames)
                            /\ Stream(events \o <<>>, open)
      BY <1>5, Seen, Lists
    <3> QED
      BY <1>5, <3>1, <3>2, EventsSent
  <2> QED
    BY <2>1, <2>2
<1>6. CASE \E n \in 1 .. MaxPlan : Plan(n)
  <2>1. /\ UNCHANGED <<cls, mode>> /\ cls = "plan" /\ Talking /\ Talking'
        /\ Emits(IF mode = "stream" THEN <<"step_finish", "step_start">> ELSE <<>>)
    BY <1>6 DEF Plan, Request, StandStill, Talking, Placed
  <2> QED
    BY <2>1, <1>5
<1>7. CASE \E response \in UserResponses : PresetAsks(response)
  BY <1>7, EventsStay DEF PresetAsks, IsPreset, StandStill, Talking, StepOpen
<1>8. CASE PresetPerform
  BY <1>8, EventsStay DEF PresetPerform, IsPreset, StandStill, Talking, StepOpen
<1>9. CASE PresetRaises
  BY <1>9, <1>2 DEF PresetRaises
<1>10. ASSUME Responds, pc \in {"model", "last"}
       PROVE  EventsInv'
  <2>1. UNCHANGED <<cls, mode>> /\ Talking /\ cls \in {"simple", "plan", "reflect"}
    BY <1>10 DEF Responds, StandStill, Talking
  <2>2. CASE \E a : Concludes(a, <<>>)
    <3>1. \E open \in BOOLEAN :
            mode # "run" => /\ events \o <<>> \in Seq(EventNames)
                            /\ Stream(events \o <<>>, open)
      BY <2>1, Seen, Lists
    <3> QED
      BY <2>1, <2>2, <3>1, <1>1, EventsConclude
  <2>3. CASE AsksAgain(<<>>) /\ cls # "simple"
    <3>1. Talking' /\ Emits(IF mode = "stream" THEN <<>> \o <<"step_finish", "step_start">> ELSE <<>>)
      BY <2>3 DEF AsksAgain, Request, Talking
    <3>2. <<>> \o <<"step_finish", "step_start">> = <<"step_finish", "step_start">>
      OBVIOUS
    <3>3. Emits(IF mode = "stream" THEN <<"step_finish", "step_start">> ELSE <<>>)
      BY <3>1, <3>2
    <3> QED
      BY <2>1, <2>3, <3>1, <3>3, <1>5
  <2>4. CASE \E a : Concludes(a, <<"step_finish">>) /\ mode = "stream" /\ cls = "reflect"
    <3>1. events \in Seq(EventNames) /\ Stream(events, TRUE)
      BY <2>1, <2>4, Seen DEF StepOpen
    <3>2. /\ events \o <<"step_finish">> \in Seq(EventNames)
          /\ Stream(events \o <<"step_finish">>, FALSE)
      BY <3>1, Lists
    <3> QED
      BY <2>1, <2>4, <3>2, <1>1, EventsConclude
  <2>5. CASE /\ pc' = "broken" /\ mode = "stream" /\ cls = "reflect"
             /\ Emits(<<"step_finish", "step_start">>)
    <3>1. Talking'
      BY <2>5 DEF Talking
    <3> QED
      BY <2>1, <2>5, <3>1, <1>5
  <2>6. CASE SimpleNext(work')
    BY <2>2, <2>6 DEF SimpleNext, Answered
  <2>7. CASE cls = "plan" /\ PlanNext(work')
    BY <2>2, <2>3, <2>7 DEF PlanNext, Answered
  <2>8. CASE cls = "reflect" /\ ReflectNext(work')
    BY <2>2, <2>3, <2>4, <2>5, <2>8 DEF ReflectNext, ReflectRuns, ReflectStreams, Answered
  <2> QED
    BY <1>10, <2>6, <2>7, <2>8 DEF Responds
<1>11. CASE PresetAnswers \/ PresetModelFails \/ LastAnswers
  <2>1. CASE Responds /\ pc \in {"model", "last"}
    BY <2>1, <1>10
  <2>2. CASE pc = "model" /\ pc' = "last" /\ UNCHANGED turn /\ StandStill /\ cls # "react"
    BY <2>2, EventsStay DEF turn, StandStill, Talking, StepOpen
  <2> QED
    BY <1>11, <2>1, <2>2 DEF PresetAnswers, PresetModelFails, LastAnswers, IsPreset
<1> QED
  BY <1>3, <1>4, <1>6, <1>7, <1>8, <1>9, <1>11 DEF PresetStep

LEMMA EventsStep ==
  ASSUME Placed, EventsInv, [Next]_vars
  PROVE  EventsInv'
<1>1. CASE UNCHANGED vars
  BY <1>1, EventsStay DEF vars, turn
<1>2. CASE \E m \in Modes : Begin(m)
  <2>1. events = <<>> /\ events' = events /\ pc' = "start"
    BY <1>2 DEF Begin, EventsInv
  <2> QED
    BY <2>1, EmptySeq DEF EventsInv, Talking
<1>3. CASE \E filter \in Filters \cup {None}, steps \in {maxSteps, SubagentSteps} :
             Subtask(filter, steps)
  BY <1>3, EventsStay DEF Subtask, turn
<1>4. CASE Say \/ Interrupt
  BY <1>4, EventsEnd DEF Say, Interrupt, EndsWithout, Ends
<1>5. CASE Return \/ ReturnCutShort \/ SessionOperation
  BY <1>5, EventsStay DEF Return, ReturnCutShort, SessionOperation, turn
<1> QED
  BY <1>1, <1>2, <1>3, <1>4, <1>5, ReActEvents, PresetEvents DEF Next, TurnStep

\* What a consumer sees is well-formed in every class: one start, steps that are
\* closed before the next one opens, tool results inside a step, and nothing
\* after the end, which every answered stream has (arun and arun_stream).
THEOREM EventsAreWellFormed == Spec => []EventsWellFormed
<1> DEFINE Inv == Placed /\ EventsInv
<1>1. RunInit => Inv
  BY PlacedInit, EventsInit
<1>2. Inv /\ [Next]_vars => Inv'
  BY PlacedStep, EventsStep
<1>3. Inv => EventsWellFormed
  <2> SUFFICES ASSUME EventsInv
               PROVE  EventsWellFormed
    OBVIOUS
  <2>1. Shape(events)
    BY NothingSent DEF EventsInv, Streaming, Stream
  <2>2. pc = "answered" /\ mode = "stream" => Sent(events, "agent_finish") # {}
    BY DEF EventsInv
  <2> QED
    BY <2>1, <2>2 DEF EventsWellFormed, Shape, Sent, Before
<1> QED
  BY <1>1, <1>2, <1>3, PTL DEF Spec

-----------------------------------------------------------------------------
(* Rounds.                                                                 *)

\* The rounds that begin at a position or after it.
RoundsFrom(h, p) == {i \in RoundStarts(h) : i >= p}

LEMMA RoundFacts ==
  ASSUME NEW h \in Seq(Messages)
  PROVE  /\ Len(h) \in Nat /\ DOMAIN h = 1 .. Len(h)
         /\ RoundStarts(h) \in SUBSET (1 .. Len(h))
         /\ IsFiniteSet(RoundStarts(h)) /\ Rounds(h) \in 0 .. Len(h)
         /\ \A p : IsFiniteSet(RoundsFrom(h, p)) /\ Cardinality(RoundsFrom(h, p)) \in 0 .. Rounds(h)
<1> DEFINE n == Len(h)
           R == RoundStarts(h)
<1>1. n \in Nat /\ DOMAIN h = 1 .. n
  BY LenProperties
<1>2. R \in SUBSET (1 .. n)
  BY <1>1 DEF RoundStarts
<1>3. IsFiniteSet(R) /\ Cardinality(R) \in 0 .. n
  <2> HIDE DEF R, n
  <2> QED
    BY <1>1, <1>2, PositionsFinite
<1>4. ASSUME NEW p
      PROVE  IsFiniteSet(RoundsFrom(h, p)) /\ Cardinality(RoundsFrom(h, p)) \in 0 .. Cardinality(R)
  <2> DEFINE Q == RoundsFrom(h, p)
  <2>1. Q \in SUBSET R
    BY DEF RoundsFrom
  <2> HIDE DEF Q, R
  <2>2. IsFiniteSet(Q) /\ Cardinality(Q) <= Cardinality(R)
    BY <2>1, <1>3, FS_Subset
  <2>3. Cardinality(Q) \in Nat
    BY <2>2, FS_CardinalityType
  <2>4. Cardinality(Q) \in 0 .. Cardinality(R)
    BY <2>2, <2>3, <1>3
  <2> QED
    BY <2>2, <2>4 DEF Q
<1> QED
  BY <1>1, <1>2, <1>3, <1>4 DEF Rounds

\* As many rounds begin at the kth or later as there are, but the k - 1 before.
LEMMA RoundsFromNth ==
  ASSUME NEW n \in Nat, NEW P \in SUBSET (1 .. n), NEW k \in 1 .. Cardinality(P)
  PROVE  Cardinality({i \in P : i >= Nth(P, k)}) = Cardinality(P) - k + 1
<1> DEFINE x == Nth(P, k)
           A == UpTo(P, x)
           B == {i \in P : i >= x}
<1>1. x \in P /\ x \in 1 .. n /\ Cardinality(A) = k
  BY NthFacts
<1>2. IsFiniteSet(P) /\ Cardinality(P) \in Nat /\ IsFiniteSet(A)
  BY PositionsFinite
<1>3. B \in SUBSET P
  OBVIOUS
<1>4. IsFiniteSet(B) /\ Cardinality(B) \in Nat
  <2> HIDE DEF B
  <2> QED
    BY <1>2, <1>3, FS_Subset, FS_CardinalityType
<1> HIDE DEF x
<1>5. A \cup B = P /\ A \cap B = {x}
  <2>1. \A i \in P : i \in Nat
    OBVIOUS
  <2>2. \A i : i \in A <=> i \in P /\ i <= x
    BY DEF UpTo
  <2>3. \A i : i \in B <=> i \in P /\ i >= x
    OBVIOUS
  <2> HIDE DEF A, B
  <2>4. /\ \A i \in P : (i <= x \/ i >= x) /\ (i <= x /\ i >= x => i = x)
        /\ x <= x /\ x >= x /\ x \in P
    BY <1>1, <2>1
  <2>5. \A i : i \in A \cup B <=> i \in P
    BY <2>2, <2>3, <2>4
  <2>6. \A i : i \in A \cap B <=> i = x
    BY <2>2, <2>3, <2>4
  <2> QED
    BY <2>5, <2>6
<1>6. Cardinality(A \cup B) = Cardinality(A) + Cardinality(B) - Cardinality(A \cap B)
  <2> HIDE DEF A, B
  <2> QED
    BY <1>2, <1>4, FS_Union
<1>7. Cardinality(A \cap B) = 1
  BY <1>5, FS_Singleton
<1>8. Cardinality(P) = k + Cardinality(B) - 1
  <2> HIDE DEF A, B
  <2> QED
    BY <1>1, <1>5, <1>6, <1>7
<1>9. Cardinality(B) = Cardinality(P) - k + 1
  <2> DEFINE b == Cardinality(B)
             p == Cardinality(P)
  <2>1. b \in Nat /\ p \in Nat /\ p = k + b - 1
    BY <1>2, <1>4, <1>8
  <2> HIDE DEF b, p
  <2>2. b = p - k + 1
    BY <2>1
  <2> QED
    BY <2>2 DEF b, p
<1> QED
  BY <1>9 DEF x

\* Where the last rounds begin, or the list if there are no more of them.
FirstKept(s) == IF Rounds(s) <= MinRetainRounds THEN 1 ELSE LastRounds(s)

LEMMA LastRoundsFacts ==
  ASSUME NEW h \in Seq(Messages), Rounds(h) > MinRetainRounds
  PROVE  /\ LastRounds(h) \in 1 .. Len(h) /\ h[LastRounds(h)].role = "user"
         /\ Cardinality(RoundsFrom(h, LastRounds(h))) = MinRetainRounds
<1> DEFINE n == Len(h)
           R == RoundStarts(h)
           k == Rounds(h) - MinRetainRounds + 1
<1>1. MinRetainRounds \in Nat \ {0}
  BY SessionAssumption DEF SessionAssumption
<1>2. n \in Nat /\ R \in SUBSET (1 .. n) /\ Rounds(h) \in Nat /\ Rounds(h) = Cardinality(R)
  BY RoundFacts DEF Rounds
<1>3. k \in 1 .. Cardinality(R)
  BY <1>1, <1>2
<1>4. Nth(R, k) \in R
  <2> HIDE DEF R, n, k
  <2> QED
    BY <1>2, <1>3, NthFacts
<1>5. Cardinality({i \in R : i >= Nth(R, k)}) = Cardinality(R) - k + 1
  <2> HIDE DEF R, n, k
  <2> QED
    BY <1>2, <1>3, RoundsFromNth
<1>6. Cardinality(R) - k + 1 = MinRetainRounds
  BY <1>1, <1>2
<1>7. LastRounds(h) = Nth(R, k)
  BY DEF LastRounds
<1> HIDE DEF k
<1> QED
  BY <1>2, <1>4, <1>5, <1>6, <1>7 DEF RoundsFrom, RoundStarts

\* The conversation begins with a question.
Begins(s) == s # <<>> => s[1].role = "user"

LEMMA KeptFacts ==
  ASSUME NEW s \in Seq(Messages), Begins(s)
  PROVE  /\ FirstKept(s) \in 1 .. Len(s) + 1
         /\ Cardinality(RoundsFrom(s, FirstKept(s))) <= MinRetainRounds
         /\ FirstKept(s) <= Len(s) => s[FirstKept(s)].role = "user"
<1>1. /\ Len(s) \in Nat /\ Rounds(s) \in Nat
      /\ \A p : Cardinality(RoundsFrom(s, p)) \in 0 .. Rounds(s)
  BY RoundFacts
<1>2. MinRetainRounds \in Nat
  BY SessionAssumption DEF SessionAssumption
<1>3. CASE Rounds(s) <= MinRetainRounds
  <2>1. FirstKept(s) = 1
    BY <1>3 DEF FirstKept
  <2>2. Cardinality(RoundsFrom(s, 1)) <= MinRetainRounds
    BY <1>1, <1>2, <1>3
  <2>3. 1 <= Len(s) => s[1].role = "user"
    <3>1. 1 <= Len(s) => s # <<>>
      OBVIOUS
    <3> QED
      BY <3>1 DEF Begins
  <2> QED
    BY <2>1, <2>2, <2>3, <1>1
<1>4. CASE Rounds(s) > MinRetainRounds
  <2>1. FirstKept(s) = LastRounds(s)
    BY <1>1, <1>2, <1>4 DEF FirstKept
  <2>2. /\ LastRounds(s) \in 1 .. Len(s) /\ s[LastRounds(s)].role = "user"
        /\ Cardinality(RoundsFrom(s, LastRounds(s))) = MinRetainRounds
    BY <1>4, LastRoundsFacts
  <2> QED
    BY <2>1, <2>2, <1>1, <1>2
<1> QED
  BY <1>1, <1>2, <1>3, <1>4

\* Whoever begins a round, and has no more of them from there than are kept,
\* is kept.
LEMMA KeptAfter ==
  ASSUME NEW h \in Seq(Messages), Rounds(h) > MinRetainRounds, NEW p \in 1 .. Len(h) + 1,
         Cardinality(RoundsFrom(h, p)) <= MinRetainRounds,
         p <= Len(h) => h[p].role = "user"
  PROVE  LastRounds(h) <= p
<1> DEFINE l == LastRounds(h)
           P == RoundsFrom(h, p)
           L == RoundsFrom(h, l)
<1>1. Len(h) \in Nat /\ DOMAIN h = 1 .. Len(h) /\ IsFiniteSet(P) /\ IsFiniteSet(L)
      /\ Cardinality(P) \in Nat
  BY RoundFacts
<1>2. l \in 1 .. Len(h) /\ Cardinality(L) = MinRetainRounds /\ MinRetainRounds \in Nat
  BY LastRoundsFacts, SessionAssumption DEF SessionAssumption
<1> SUFFICES ASSUME ~ (l <= p)
             PROVE  FALSE
  OBVIOUS
<1> HIDE DEF l
<1>3. p \in 1 .. Len(h) /\ p < l
  BY <1>1, <1>2
<1>4. p \in P /\ p \notin L
  BY <1>1, <1>2, <1>3 DEF RoundsFrom, RoundStarts
<1>5. L \cup {p} \in SUBSET P
  <2>1. \A i \in RoundStarts(h) : i >= l => i >= p
    BY <1>1, <1>2, <1>3 DEF RoundStarts
  <2> QED
    BY <2>1, <1>4 DEF RoundsFrom
<1> HIDE DEF P, L
<1>6. IsFiniteSet(L \cup {p}) /\ Cardinality(L \cup {p}) = Cardinality(L) + 1
  BY <1>1, <1>4, FS_AddElement
<1>7. Cardinality(L \cup {p}) <= Cardinality(P)
  BY <1>1, <1>5, FS_Subset
<1>8. Cardinality(P) <= MinRetainRounds
  BY DEF P
<1> QED
  BY <1>1, <1>2, <1>6, <1>7, <1>8

\* From a position on, one list is the end of the other.
Agree(s, f, h) ==
  /\ f + Len(h) >= Len(s) + 1
  /\ \A i \in f .. Len(s) : s[i] = h[i + (Len(h) - Len(s))]

LEMMA RoundsAgree ==
  ASSUME NEW s \in Seq(Messages), NEW h \in Seq(Messages), NEW f \in 1 .. Len(s) + 1,
         Agree(s, f, h)
  PROVE  LET p == f + (Len(h) - Len(s))
         IN  /\ p \in 1 .. Len(h) + 1
             /\ Cardinality(RoundsFrom(h, p)) = Cardinality(RoundsFrom(s, f))
             /\ p <= Len(h) => f <= Len(s) /\ h[p] = s[f]
<1> DEFINE d == Len(h) - Len(s)
           p == f + d
           F == RoundsFrom(s, f)
           P == RoundsFrom(h, p)
           b == [i \in F |-> i + d]
<1>1. /\ Len(s) \in Nat /\ DOMAIN s = 1 .. Len(s) /\ IsFiniteSet(F)
      /\ Len(h) \in Nat /\ DOMAIN h = 1 .. Len(h)
  BY RoundFacts
<1>2. d \in Int /\ d = Len(h) - Len(s)
  BY <1>1
<1>3. f + Len(h) >= Len(s) + 1 /\ \A i \in f .. Len(s) : s[i] = h[i + d]
  BY DEF Agree
<1>4. p \in 1 .. Len(h) + 1 /\ p = f + d
  BY <1>1, <1>3
<1> HIDE DEF d, p
<1>5. p <= Len(h) => f <= Len(s) /\ h[p] = s[f]
  <2> SUFFICES ASSUME p <= Len(h)
               PROVE  f <= Len(s) /\ h[p] = s[f]
    OBVIOUS
  <2>1. f \in f .. Len(s)
    BY <1>1, <1>2, <1>4
  <2>2. s[f] = h[f + d]
    BY <2>1, <1>3
  <2> QED
    BY <2>1, <2>2, <1>4
<1>6. \A i \in F : i \in f .. Len(s) /\ i + d \in P
  <2> SUFFICES ASSUME NEW i \in F
               PROVE  i \in f .. Len(s) /\ i + d \in P
    OBVIOUS
  <2>1. i \in 1 .. Len(s) /\ i >= f /\ s[i].role = "user"
    BY <1>1 DEF RoundsFrom, RoundStarts
  <2>2. i \in f .. Len(s) /\ i + d \in 1 .. Len(h) /\ i + d >= p
    BY <2>1, <1>1, <1>2, <1>4
  <2>3. h[i + d].role = "user"
    BY <2>1, <2>2, <1>3
  <2> QED
    BY <2>2, <2>3, <1>1 DEF RoundsFrom, RoundStarts
<1>7. \A j \in P : j - d \in F /\ (j - d) + d = j
  <2> SUFFICES ASSUME NEW j \in P
               PROVE  j - d \in F /\ (j - d) + d = j
    OBVIOUS
  <2> DEFINE i == j - d
  <2>1. j \in 1 .. Len(h) /\ j >= p /\ h[j].role = "user"
    BY <1>1 DEF RoundsFrom, RoundStarts
  <2>2. i \in f .. Len(s) /\ i \in 1 .. Len(s) /\ i >= f /\ i + d = j
    BY <2>1, <1>1, <1>2, <1>4
  <2> HIDE DEF i
  <2>3. s[i].role = "user"
    BY <2>1, <2>2, <1>3
  <2>4. i \in F
    BY <2>2, <2>3, <1>1 DEF RoundsFrom, RoundStarts
  <2> QED
    BY <2>2, <2>4 DEF i
<1>8. b \in Bijection(F, P)
  <2>1. \A i \in F : i \in Int
    BY <1>1 DEF RoundsFrom, RoundStarts
  <2>2. b \in [F -> P] /\ \A y \in P : \E i \in F : b[i] = y
    <3> HIDE DEF F, P
    <3> QED
      BY <1>6, <1>7
  <2>3. \A i \in F, j \in F : b[i] = b[j] => i = j
    <3> HIDE DEF F, P
    <3> QED
      BY <2>1, <1>2
  <2> HIDE DEF b, F, P
  <2> QED
    BY <2>2, <2>3 DEF Bijection, Injection, Surjection, IsInjective
<1>9. Cardinality(P) = Cardinality(F)
  <2> HIDE DEF b, F, P
  <2> QED
    BY <1>1, <1>8, FS_Bijection DEF ExistsBijection
<1> QED
  BY <1>4, <1>5, <1>9 DEF p, d

LEMMA CompressedFacts ==
  ASSUME NEW h \in Seq(Messages), Rounds(h) > MinRetainRounds
  PROVE  LET c == Compressed(h)
             l == LastRounds(h)
         IN  /\ c \in Seq(Messages) /\ Len(c) = Len(h) - l + 2
             /\ c[1] = SummaryMessage
             /\ \A q \in 2 .. Len(c) : c[q] = h[q + l - 2]
<1> DEFINE n == Len(h)
           l == LastRounds(h)
           a == <<SummaryMessage>>
           b == SubSeq(h, l, n)
           c == Compressed(h)
<1>1. n \in Nat /\ Rounds(h) \in Nat /\ MinRetainRounds \in Nat /\ MaxTurns \in Nat
  BY RoundFacts, SessionAssumption DEF SessionAssumption
<1>2. l \in 1 .. n
  BY LastRoundsFacts
<1>3. SummaryMessage \in Messages
  BY <1>1 DEF SummaryMessage, Said, Messages
<1>4. a \in Seq(Messages) /\ Len(a) = 1 /\ a[1] = SummaryMessage
  <2> DEFINE m == SummaryMessage
  <2> HIDE DEF m
  <2>1. <<m>> \in Seq(Messages) /\ Len(<<m>>) = 1 /\ <<m>>[1] = m
    BY <1>3 DEF m
  <2> QED
    BY <2>1 DEF m
<1>5. b \in Seq(Messages) /\ Len(b) = n - l + 1 /\ \A i \in 1 .. n - l + 1 : b[i] = h[l + i - 1]
  <2> HIDE DEF l
  <2>1. \A i \in l .. n : h[i] \in Messages
    BY <1>2, ElementOfSeq
  <2>2. /\ b \in Seq(Messages) /\ Len(b) = IF l <= n THEN n - l + 1 ELSE 0
        /\ \A i \in 1 .. n - l + 1 : b[i] = h[l + i - 1]
    BY <1>1, <1>2, <2>1, SubSeqProperties
  <2> QED
    BY <1>1, <1>2, <2>2
<1>6. c = a \o b
  <2>1. ~ (Rounds(h) <= MinRetainRounds)
    BY <1>1
  <2> QED
    BY <2>1, Zenon DEF Compressed
<1> HIDE DEF a, b, c, l, n
<1>7. /\ c \in Seq(Messages) /\ Len(c) = 1 + (n - l + 1)
      /\ \A i \in 1 .. 1 + (n - l + 1) : c[i] = IF i <= 1 THEN a[i] ELSE b[i - 1]
  <2>1. /\ c \in Seq(Messages) /\ Len(c) = Len(a) + Len(b)
        /\ \A i \in 1 .. Len(a) + Len(b) : c[i] = IF i <= Len(a) THEN a[i] ELSE b[i - Len(a)]
    BY <1>4, <1>5, <1>6, ConcatProperties
  <2> QED
    BY <2>1, <1>4, <1>5
<1>8. Len(c) = n - l + 2
  BY <1>1, <1>2, <1>7
<1>9. c[1] = SummaryMessage
  BY <1>1, <1>2, <1>4, <1>7
<1>10. ASSUME NEW q \in 2 .. Len(c)
       PROVE  c[q] = h[q + l - 2]
  <2> DEFINE i == q - 1
  <2>1. q \in 1 .. 1 + (n - l + 1) /\ ~ (q <= 1) /\ i \in 1 .. n - l + 1
    BY <1>1, <1>2, <1>8
  <2>2. c[q] = b[i]
    BY <2>1, <1>7
  <2>3. l + i - 1 = q + l - 2
    BY <1>1, <1>2, <2>1
  <2> HIDE DEF i
  <2>4. b[i] = h[l + i - 1]
    BY <2>1, <1>5
  <2> QED
    BY <2>2, <2>3, <2>4
<1> QED
  BY <1>7, <1>8, <1>9, <1>10 DEF c, l, n

\* Compression keeps what is to be kept.
LEMMA CompressionKeeps ==
  ASSUME NEW s \in Seq(Messages), NEW h \in Seq(Messages), Begins(s),
         Agree(s, FirstKept(s), h)
  PROVE  Compressed(h) \in Seq(Messages) /\ Agree(s, FirstKept(s), Compressed(h))
<1>1. Rounds(h) \in Nat /\ MinRetainRounds \in Nat /\ Len(h) \in Nat /\ Len(s) \in Nat
  BY RoundFacts, SessionAssumption DEF SessionAssumption
<1>2. CASE Rounds(h) <= MinRetainRounds
  BY <1>2 DEF Compressed
<1>3. CASE Rounds(h) > MinRetainRounds
  <2> DEFINE f == FirstKept(s)
             d == Len(h) - Len(s)
             p == f + d
             l == LastRounds(h)
             c == Compressed(h)
             e == Len(c) - Len(s)
  <2>1. /\ f \in 1 .. Len(s) + 1 /\ Cardinality(RoundsFrom(s, f)) <= MinRetainRounds
        /\ f <= Len(s) => s[f].role = "user"
    BY KeptFacts
  <2>2. Agree(s, f, h)
    OBVIOUS
  <2> HIDE DEF f
  <2>3. /\ p \in 1 .. Len(h) + 1
        /\ Cardinality(RoundsFrom(h, p)) = Cardinality(RoundsFrom(s, f))
        /\ p <= Len(h) => f <= Len(s) /\ h[p] = s[f]
    BY <2>1, <2>2, RoundsAgree
  <2>4. l <= p /\ l \in 1 .. Len(h)
    <3> HIDE DEF p
    <3> QED
      BY <1>3, <2>1, <2>3, KeptAfter, LastRoundsFacts
  <2>5. /\ c \in Seq(Messages) /\ Len(c) = Len(h) - l + 2
        /\ \A q \in 2 .. Len(c) : c[q] = h[q + l - 2]
    BY <1>3, CompressedFacts
  <2> HIDE DEF l, c
  <2>6. d \in Int /\ e \in Int /\ e = d - l + 2 /\ Len(c) \in Nat
    BY <1>1, <2>4, <2>5
  <2>7. f + Len(c) >= Len(s) + 1
    BY <1>1, <2>1, <2>3, <2>4, <2>5
  <2>8. ASSUME NEW i \in f .. Len(s)
        PROVE  s[i] = c[i + e]
    <3> DEFINE q == i + e
    <3>1. s[i] = h[i + d]
      BY <2>2 DEF Agree
    <3>2. q \in 2 .. Len(c) /\ q + l - 2 = i + d
      BY <1>1, <2>1, <2>3, <2>4, <2>5, <2>6
    <3> HIDE DEF q, d
    <3>3. c[q] = h[q + l - 2]
      BY <2>5, <3>2
    <3> QED
      BY <3>1, <3>2, <3>3 DEF q
  <2>9. Agree(s, f, c)
    BY <2>7, <2>8 DEF Agree
  <2> QED
    BY <2>5, <2>9 DEF f, c
<1> QED
  BY <1>1, <1>2, <1>3

\* The last rounds never begin earlier than they did.
LEMMA KeptGrows ==
  ASSUME NEW s \in Seq(Messages), NEW m \in Messages
  PROVE  FirstKept(s) <= FirstKept(Append(s, m))
<1> DEFINE t == Append(s, m)
           n == Len(s)
           R == RoundStarts(s)
           U == RoundStarts(t)
<1>1. /\ n \in Nat /\ DOMAIN s = 1 .. n /\ R \in SUBSET (1 .. n) /\ IsFiniteSet(R)
      /\ Rounds(s) \in Nat /\ Rounds(s) = Cardinality(R)
      /\ MinRetainRounds \in Nat \ {0}
  BY RoundFacts, SessionAssumption DEF SessionAssumption, Rounds
<1>2. /\ t \in Seq(Messages) /\ Len(t) = n + 1
      /\ \A i \in 1 .. n : t[i] = s[i]
      /\ t[n + 1] = m
  BY AppendProperties
<1> HIDE DEF t
<1>3. /\ DOMAIN t = 1 .. n + 1 /\ U \in SUBSET (1 .. n + 1)
      /\ Rounds(t) \in Nat /\ Rounds(t) = Cardinality(U)
  BY <1>2, RoundFacts DEF Rounds
<1>4. U = R \cup (IF m.role = "user" THEN {n + 1} ELSE {})
  <2> DEFINE w == n + 1
  <2>1. w \notin 1 .. n /\ 1 .. w = (1 .. n) \cup {w}
    BY <1>1
  <2> HIDE DEF w, n
  <2>2. \A i : i \in U <=> i \in 1 .. w /\ t[i].role = "user"
    BY <1>3 DEF RoundStarts, w
  <2>3. \A i : i \in R <=> i \in 1 .. n /\ s[i].role = "user"
    BY <1>1 DEF RoundStarts
  <2>4. t[w] = m
    BY <1>2 DEF w
  <2> HIDE DEF R, U
  <2>5. \A i : i \in U <=> i \in R \/ (i = w /\ m.role = "user")
    BY <2>1, <2>2, <2>3, <2>4, <1>2
  <2>6. U = R \cup (IF m.role = "user" THEN {w} ELSE {})
    BY <2>5
  <2> QED
    BY <2>6 DEF w
<1>5. CASE m.role # "user"
  <2>1. U = R
    BY <1>4, <1>5
  <2>2. FirstKept(t) = FirstKept(s)
    BY <2>1 DEF FirstKept, LastRounds, Rounds
  <2>3. FirstKept(s) \in Nat
    <3>1. Rounds(s) > MinRetainRounds => LastRounds(s) \in 1 .. n
      BY LastRoundsFacts
    <3> QED
      BY <3>1, <1>1 DEF FirstKept
  <2> QED
    BY <2>2, <2>3 DEF t
<1>6. CASE m.role = "user"
  <2> DEFINE w == n + 1
  <2>1. w \notin R /\ U = R \cup {w} /\ \A i \in R : i < w
    BY <1>1, <1>4, <1>6
  <2>2. Cardinality(U) = Cardinality(R) + 1
    <3> HIDE DEF w, U, R
    <3> QED
      BY <1>1, <2>1, FS_AddElement
  <2>3. CASE Rounds(s) <= MinRetainRounds
    <3>1. FirstKept(s) = 1
      BY <2>3 DEF FirstKept
    <3>2. Rounds(t) > MinRetainRounds => LastRounds(t) \in 1 .. n + 1
      BY <1>2, LastRoundsFacts
    <3>3. FirstKept(t) \in Nat \ {0}
      BY <3>2, <1>1, <1>3 DEF FirstKept
    <3> QED
      BY <3>1, <3>3 DEF t
  <2>4. CASE Rounds(s) > MinRetainRounds
    <3> DEFINE k == Cardinality(R) - MinRetainRounds + 1
               l == k + 1
               x == Nth(R, k)
    <3>1. k \in 1 .. Cardinality(R) /\ k \in 1 .. Cardinality(U) /\ l \in 1 .. Cardinality(U) /\ k < l
      <4> HIDE DEF R, U
      <4> QED
        BY <1>1, <2>2, <2>4
    <3>2. FirstKept(s) = x
      BY <1>1, <2>4 DEF FirstKept, LastRounds, Rounds
    <3>3. FirstKept(t) = Nth(U, l)
      <4>1. ~ (Rounds(t) <= MinRetainRounds) /\ Rounds(t) - MinRetainRounds + 1 = l
        <5> HIDE DEF R, U
        <5> QED
          BY <1>1, <1>3, <2>2, <2>4
      <4> HIDE DEF l
      <4> QED
        BY <4>1 DEF FirstKept, LastRounds
    <3> HIDE DEF k, l
    <3>4. x \in R /\ Cardinality(UpTo(R, x)) = k
      <4> HIDE DEF R, n
      <4> QED
        BY <1>1, <3>1, NthFacts
    <3> HIDE DEF x
    <3>5. UpTo(U, x) = UpTo(R, x)
      <4>1. ~ (w <= x)
        BY <1>1, <3>4
      <4> HIDE DEF w, R, U
      <4> QED
        BY <2>1, <4>1 DEF UpTo
    <3>6. x \in U /\ x \in 1 .. n
      BY <2>1, <3>4, <1>1
    <3>7. Nth(U, k) = x
      <4> DEFINE v == n + 1
      <4>1. v \in Nat /\ U \in SUBSET (1 .. v)
        BY <1>1, <1>3
      <4> HIDE DEF v, U, R
      <4> QED
        BY <4>1, <3>1, <3>4, <3>5, <3>6, NthUnique
    <3>8. Nth(U, k) < Nth(U, l) /\ Nth(U, l) \in 1 .. n + 1
      <4> DEFINE v == n + 1
      <4>1. v \in Nat /\ U \in SUBSET (1 .. v)
        BY <1>1, <1>3
      <4> HIDE DEF v, U
      <4>2. Nth(U, k) < Nth(U, l) /\ Nth(U, l) \in U
        BY <4>1, <3>1, NthOrder, NthFacts
      <4> QED
        BY <4>1, <4>2 DEF v
    <3> HIDE DEF U
    <3>9. x <= Nth(U, l)
      BY <3>6, <3>7, <3>8
    <3> QED
      BY <3>2, <3>3, <3>9 DEF t
  <2> QED
    BY <1>1, <2>3, <2>4
<1> QED
  BY <1>5, <1>6

\* One more message of the conversation is one more in the history.
LEMMA AppendKeeps ==
  ASSUME NEW s \in Seq(Messages), NEW h \in Seq(Messages), NEW m \in Messages, Begins(s),
         Agree(s, FirstKept(s), h), s = <<>> => m.role = "user"
  PROVE  /\ Append(s, m) \in Seq(Messages) /\ Append(h, m) \in Seq(Messages)
         /\ Begins(Append(s, m))
         /\ Agree(Append(s, m), FirstKept(Append(s, m)), Append(h, m))
<1> DEFINE t == Append(s, m)
           u == Append(h, m)
           f == FirstKept(s)
           g == FirstKept(t)
           n == Len(s)
           k == Len(h)
           d == k - n
<1>1. n \in Nat /\ k \in Nat /\ d \in Int /\ DOMAIN s = 1 .. n /\ DOMAIN h = 1 .. k
  BY RoundFacts
<1>2. /\ t \in Seq(Messages) /\ Len(t) = n + 1
      /\ \A i \in 1 .. n : t[i] = s[i]
      /\ t[n + 1] = m
  BY AppendProperties
<1>3. /\ u \in Seq(Messages) /\ Len(u) = k + 1
      /\ \A i \in 1 .. k : u[i] = h[i]
      /\ u[k + 1] = m
  BY AppendProperties
<1>4. f <= g /\ f \in 1 .. n + 1
  BY KeptGrows, KeptFacts
<1> HIDE DEF t, u, g
<1>5. Begins(t)
  <2>1. CASE n = 0
    <3>1. s = <<>>
      BY <2>1, EmptySeq
    <3>2. t[1] = m /\ m.role = "user"
      BY <1>2, <2>1, <3>1
    <3> QED
      BY <3>2 DEF Begins
  <2>2. CASE n # 0
    <3>1. 1 \in 1 .. n /\ s # <<>>
      BY <1>1, <2>2
    <3>2. t[1] = s[1]
      BY <1>2, <3>1
    <3> QED
      BY <3>1, <3>2 DEF Begins
  <2> QED
    BY <2>1, <2>2
<1>6. g \in 1 .. Len(t) + 1
  BY <1>2, <1>5, KeptFacts DEF g
<1>7. f + k >= n + 1 /\ \A i \in f .. n : s[i] = h[i + d]
  BY DEF Agree
<1> HIDE DEF f
<1>8. g + Len(u) >= Len(t) + 1
  BY <1>1, <1>2, <1>3, <1>4, <1>6, <1>7
<1>9. ASSUME NEW i \in g .. Len(t)
      PROVE  t[i] = u[i + (Len(u) - Len(t))]
  <2>1. Len(u) - Len(t) = d
    BY <1>1, <1>2, <1>3
  <2>2. CASE i = n + 1
    <3>1. i + d = k + 1
      BY <1>1, <2>2
    <3> QED
      BY <1>2, <1>3, <2>1, <2>2, <3>1
  <2>3. CASE i # n + 1
    <3>1. i \in f .. n /\ i \in 1 .. n /\ i + d \in 1 .. k
      BY <1>1, <1>2, <1>4, <1>6, <1>7, <2>3
    <3> HIDE DEF d
    <3>2. t[i] = s[i] /\ s[i] = h[i + d] /\ u[i + d] = h[i + d]
      BY <3>1, <1>2, <1>3, <1>7
    <3> QED
      BY <2>1, <3>2
  <2> QED
    BY <2>2, <2>3
<1>10. Agree(t, g, u)
  BY <1>8, <1>9 DEF Agree
<1> QED
  BY <1>2, <1>3, <1>5, <1>10 DEF t, u, g

\* What HistoryManager holds: rounds, with a summary before them at most.
IsHistory(h) ==
  /\ \A i \in 2 .. Len(h) : h[i].role # "summary"
  /\ h # <<>> => \/ h[1].role = "user"
                 \/ h[1].role = "summary" /\ Len(h) > 1 /\ h[2].role = "user"

LEMMA AppendedHistory ==
  ASSUME NEW h \in Seq(Messages), IsHistory(h), NEW m \in Messages,
         m.role = "user" \/ (h # <<>> /\ m.role = "assistant")
  PROVE  IsHistory(Append(h, m)) /\ Append(h, m) # <<>>
<1> DEFINE n == Len(h)
           t == Append(h, m)
<1>1. n \in Nat /\ (n = 0 <=> h = <<>>)
  BY EmptySeq, LenProperties
<1>2. /\ t \in Seq(Messages) /\ Len(t) = n + 1
      /\ \A i \in 1 .. n : t[i] = h[i]
      /\ t[n + 1] = m
  BY AppendProperties
<1>3. t # <<>>
  BY <1>1, <1>2
<1> HIDE DEF t
<1>4. \A i \in 2 .. n : h[i].role # "summary"
  BY DEF IsHistory
<1> HIDE DEF n
<1>5. ASSUME NEW i \in 2 .. n + 1
      PROVE  t[i].role # "summary"
  <2>1. CASE i \in 2 .. n
    <3>1. i \in 1 .. n
      BY <2>1
    <3> QED
      BY <2>1, <3>1, <1>2, <1>4
  <2>2. CASE i = n + 1
    BY <2>2, <1>2
  <2> QED
    BY <1>1, <2>1, <2>2
<1>6. CASE n = 0
  BY <1>1, <1>2, <1>3, <1>5, <1>6 DEF IsHistory, t
<1>7. CASE n # 0
  <2>1. 1 \in 1 .. n /\ t[1] = h[1] /\ h # <<>>
    BY <1>1, <1>2, <1>7
  <2>2. CASE h[1].role = "user"
    BY <1>2, <1>3, <1>5, <2>1, <2>2 DEF IsHistory, t
  <2>3. CASE h[1].role = "summary" /\ n > 1 /\ h[2].role = "user"
    <3>1. 2 \in 1 .. n /\ n + 1 > 1
      BY <1>1, <2>3
    <3> QED
      BY <1>2, <1>3, <1>5, <2>1, <2>3, <3>1 DEF IsHistory, t
  <2> QED
    BY <2>1, <2>2, <2>3 DEF IsHistory, n
<1> QED
  BY <1>6, <1>7

LEMMA CompressedHistory ==
  ASSUME NEW h \in Seq(Messages), IsHistory(h), h # <<>>
  PROVE  /\ Compressed(h) \in Seq(Messages)
         /\ IsHistory(Compressed(h)) /\ Compressed(h) # <<>>
<1>1. Rounds(h) \in Nat /\ MinRetainRounds \in Nat /\ Len(h) \in Nat
  BY RoundFacts, SessionAssumption DEF SessionAssumption
<1>2. CASE Rounds(h) <= MinRetainRounds
  BY <1>2 DEF Compressed
<1>3. CASE Rounds(h) > MinRetainRounds
  <2> DEFINE l == LastRounds(h)
             c == Compressed(h)
  <2>1. l \in 1 .. Len(h) /\ h[l].role = "user"
    BY <1>3, LastRoundsFacts
  <2>2. /\ c \in Seq(Messages) /\ Len(c) = Len(h) - l + 2
        /\ c[1] = SummaryMessage
        /\ \A q \in 2 .. Len(c) : c[q] = h[q + l - 2]
    BY <1>3, CompressedFacts
  <2> HIDE DEF l, c
  <2>3. Len(c) > 1 /\ Len(c) \in Nat /\ c # <<>>
    BY <1>1, <2>1, <2>2
  <2>4. c[1].role = "summary"
    BY <2>2 DEF SummaryMessage, Said
  <2>5. c[2].role = "user"
    <3>1. 2 \in 2 .. Len(c) /\ 2 + l - 2 = l
      BY <2>1, <2>3
    <3> QED
      BY <2>1, <2>2, <3>1
  <2>6. ASSUME NEW i \in 2 .. Len(c)
        PROVE  c[i].role # "summary"
    <3> DEFINE j == i + l - 2
    <3>1. j \in 1 .. Len(h) /\ (j = l \/ j \in 2 .. Len(h))
      BY <1>1, <2>1, <2>2
    <3> HIDE DEF j
    <3>2. h[j].role # "summary"
      BY <2>1, <3>1 DEF IsHistory
    <3>3. c[i] = h[j]
      BY <2>2 DEF j
    <3> QED
      BY <3>2, <3>3
  <2> QED
    BY <2>2, <2>3, <2>4, <2>5, <2>6 DEF IsHistory, c
<1> QED
  BY <1>1, <1>2, <1>3

\* A message that is added is a message of the history, compressed or not.
LEMMA AddedFacts ==
  ASSUME NEW before, NEW m \in Messages, before.history \in Seq(Messages),
         IsHistory(before.history),
         m.role = "user" \/ (before.history # <<>> /\ m.role = "assistant"),
         before.files \in [FileNames -> Seq(Messages) \cup {None}],
         \A n \in FileNames : before.files[n] # None => IsHistory(before.files[n])
  PROVE  LET after == Added(before, m)
         IN  /\ after.history \in {Append(before.history, m), Compressed(Append(before.history, m))}
             /\ after.history \in Seq(Messages) /\ after.history # <<>>
             /\ IsHistory(after.history)
             /\ after.files \in [FileNames -> Seq(Messages) \cup {None}]
             /\ \A n \in FileNames : after.files[n] # None => IsHistory(after.files[n])
<1> DEFINE after == Added(before, m)
           a == Append(before.history, m)
           c == Compressed(a)
<1>1. a \in Seq(Messages) /\ IsHistory(a) /\ a # <<>>
  BY AppendProperties, AppendedHistory
<1>2. c \in Seq(Messages) /\ IsHistory(c) /\ c # <<>>
  <2> HIDE DEF a
  <2> QED
    BY <1>1, CompressedHistory
<1>3. after.history \in {a, c}
  BY DEF Added
<1>4. \/ after.files = before.files
      \/ after.files = [before.files EXCEPT !["session-auto"] = after.history]
  BY DEF Added
<1> HIDE DEF after, a, c
<1>5. after.history \in Seq(Messages) /\ IsHistory(after.history) /\ after.history # <<>>
  BY <1>1, <1>2, <1>3
<1>6. /\ after.files \in [FileNames -> Seq(Messages) \cup {None}]
      /\ \A n \in FileNames : after.files[n] # None => IsHistory(after.files[n])
  BY <1>4, <1>5
<1> QED
  BY <1>3, <1>5, <1>6 DEF after, a, c

\* The end of one list is a suffix of the other.
LEMMA AgreeIsSuffix ==
  ASSUME NEW s \in Seq(Messages), NEW h \in Seq(Messages), NEW f \in 1 .. Len(s) + 1,
         Agree(s, f, h)
  PROVE  IsSuffix(SubSeq(s, f, Len(s)), h)
<1> DEFINE n == Len(s)
           k == Len(h)
           r == SubSeq(s, f, n)
           l == n - f + 1
           u == Reverse(r)
           v == Reverse(h)
<1>1. n \in Nat /\ k \in Nat /\ l \in Nat /\ l <= k
  BY RoundFacts DEF Agree
<1>2. r \in Seq(Messages) /\ Len(r) = l /\ \A i \in 1 .. l : r[i] = s[f + i - 1]
  <2>1. \A i \in f .. n : s[i] \in Messages
    BY ElementOfSeq
  <2>2. /\ r \in Seq(Messages) /\ Len(r) = IF f <= n THEN n - f + 1 ELSE 0
        /\ \A i \in 1 .. n - f + 1 : r[i] = s[f + i - 1]
    <3> HIDE DEF n
    <3> QED
      BY <1>1, <2>1, SubSeqProperties
  <2>3. (IF f <= n THEN n - f + 1 ELSE 0) = l
    BY <1>1
  <2> QED
    BY <2>2, <2>3
<1> HIDE DEF r, l
<1>3. u \in Seq(Messages) /\ Len(u) = l /\ \A i \in 1 .. l : u[i] = r[l - i + 1]
  BY <1>1, <1>2 DEF Reverse
<1>4. v \in Seq(Messages) /\ Len(v) = k /\ \A i \in 1 .. k : v[i] = h[k - i + 1]
  BY <1>1 DEF Reverse
<1> HIDE DEF u, v
<1>5. \A i \in 1 .. l : u[i] = v[i]
  <2> TAKE i \in 1 .. l
  <2> DEFINE j == l - i + 1
             e == n - i + 1
             d == k - n
  <2>1. j \in 1 .. l /\ f + j - 1 = e /\ e \in f .. n /\ e + d = k - i + 1 /\ i \in 1 .. k
    BY <1>1 DEF l
  <2>2. u[i] = r[j] /\ v[i] = h[k - i + 1]
    BY <2>1, <1>3, <1>4
  <2>3. \A q \in f .. n : s[q] = h[q + d]
    BY DEF Agree
  <2> HIDE DEF j, e, d, n, k
  <2>4. r[j] = s[e]
    BY <2>1, <1>2
  <2>5. s[e] = h[e + d]
    BY <2>1, <2>3
  <2> QED
    BY <2>1, <2>2, <2>4, <2>5
<1>6. SubSeq(u, 1, l) = SubSeq(v, 1, l)
  <2>1. SubSeq(u, 1, l) = [i \in 1 .. l |-> u[i]] /\ SubSeq(v, 1, l) = [i \in 1 .. l |-> v[i]]
    BY <1>1
  <2> QED
    BY <2>1, <1>5
<1>7. IsPrefix(u, v)
  BY <1>1, <1>3, <1>4, <1>6 DEF IsPrefix
<1> QED
  BY <1>7 DEF IsSuffix, u, v, r

LEMMA AddedKeeps ==
  ASSUME NEW s \in Seq(Messages), NEW h \in Seq(Messages), NEW m \in Messages, Begins(s),
         Agree(s, FirstKept(s), h), s = <<>> => m.role = "user",
         NEW next \in {Append(h, m), Compressed(Append(h, m))}
  PROVE  /\ Append(s, m) \in Seq(Messages) /\ Begins(Append(s, m))
         /\ Agree(Append(s, m), FirstKept(Append(s, m)), next)
<1> DEFINE t == Append(s, m)
           u == Append(h, m)
<1>1. /\ t \in Seq(Messages) /\ u \in Seq(Messages) /\ Begins(t)
      /\ Agree(t, FirstKept(t), u)
  BY AppendKeeps
<1> HIDE DEF t, u
<1>2. Agree(t, FirstKept(t), Compressed(u))
  BY <1>1, CompressionKeeps
<1> QED
  BY <1>1, <1>2 DEF t, u

-----------------------------------------------------------------------------
(* The recent rounds of the conversation stay in the history.              *)

AllTools == ToolObjects \cup FunctionTools
Callers == [history : Seq(Messages), maxSteps : Nat, filtered : BOOLEAN]

SessionTyped ==
  /\ history \in Seq(Messages) /\ said \in Seq(Messages)
  /\ files \in [FileNames -> Seq(Messages) \cup {None}]
  /\ tools \in SUBSET AllTools /\ disabled \in SUBSET AllTools /\ maxSteps \in Nat
  /\ caller \in Callers \cup {None}

\* The history, or what is put aside of it, ends with the last rounds of the
\* conversation, and so it was in every file.
HistoryInv ==
  /\ SessionTyped
  /\ pc = "idle" => caller = None
  /\ pc = "over" => caller # None
  /\ pc \notin {"idle", "over"} => TurnNumber <= MaxTurns
  /\ IsHistory(history) /\ Begins(said)
  /\ \A n \in FileNames : files[n] # None => IsHistory(files[n])
  /\ caller = None => Agree(said, FirstKept(said), history)
  /\ caller # None =>
       IsHistory(caller.history) /\ Agree(said, FirstKept(said), caller.history)

LEMMA TurnsFacts ==
  ASSUME NEW h \in Seq(Messages)
  PROVE  Turns(h) \in SUBSET (0 .. MaxTurns)
<1>1. \A i \in DOMAIN h : h[i] \in Messages
  BY ElementOfSeq, LenProperties
<1>2. \A m \in Messages : m.turn \in 0 .. MaxTurns
  BY DEF Messages
<1> QED
  BY <1>1, <1>2 DEF Turns, ToSet

LEMMA TurnNumberFacts == SessionTyped => TurnNumber \in Nat \ {0}
<1> SUFFICES ASSUME SessionTyped
             PROVE  TurnNumber \in Nat \ {0}
  OBVIOUS
<1> DEFINE U == {0} \cup Turns(said) \cup Turns(history)
                \cup (IF caller = None THEN {} ELSE Turns(caller.history))
<1>1. MaxTurns \in Nat
  BY SessionAssumption DEF SessionAssumption
<1>2. caller # None => caller.history \in Seq(Messages)
  BY DEF SessionTyped, Callers
<1>3. U \in SUBSET (0 .. MaxTurns) /\ U # {}
  <2>1. Turns(said) \in SUBSET (0 .. MaxTurns) /\ Turns(history) \in SUBSET (0 .. MaxTurns)
    BY TurnsFacts DEF SessionTyped
  <2>2. caller # None => Turns(caller.history) \in SUBSET (0 .. MaxTurns)
    BY <1>2, TurnsFacts
  <2> QED
    BY <1>1, <2>1, <2>2
<1>4. TurnNumber = 1 + Max(U)
  BY DEF TurnNumber
<1> HIDE DEF U
<1>5. Max(U) \in 0 .. MaxTurns
  BY <1>1, <1>3, MaxFacts
<1> QED
  BY <1>1, <1>4, <1>5

LEMMA TurnIsSaid ==
  ASSUME HistoryInv, SaysTurn, pc \notin {"idle", "over"}
  PROVE  /\ history' \in Seq(Messages) /\ IsHistory(history')
         /\ files' \in [FileNames -> Seq(Messages) \cup {None}]
         /\ \A n \in FileNames : files'[n] # None => IsHistory(files'[n])
         /\ said' \in Seq(Messages) /\ Begins(said')
         /\ caller # None => said' = said
         /\ caller = None => Agree(said', FirstKept(said'), history')
<1> DEFINE question == Said("user", TurnNumber)
           reply == Said("assistant", TurnNumber)
           before == [history |-> history, counted |-> counted, files |-> files]
           asked == Added(before, question)
           after == Added(asked, reply)
<1>1. /\ question \in Messages /\ question.role = "user"
      /\ reply \in Messages /\ reply.role = "assistant"
  <2>1. TurnNumber \in 0 .. MaxTurns
    BY TurnNumberFacts, SessionAssumption DEF HistoryInv, SessionAssumption
  <2> QED
    BY <2>1 DEF Said, Messages
<1>2. /\ history' = after.history /\ files' = after.files
      /\ said' = IF caller = None THEN said \o <<question, reply>> ELSE said
  BY DEF SaysTurn
<1>3. /\ before.history = history /\ before.files = files
      /\ history \in Seq(Messages) /\ said \in Seq(Messages)
      /\ files \in [FileNames -> Seq(Messages) \cup {None}]
  BY DEF HistoryInv, SessionTyped
<1> HIDE DEF question, reply, before, asked, after
<1>4. /\ asked.history \in {Append(history, question), Compressed(Append(history, question))}
      /\ asked.history \in Seq(Messages) /\ asked.history # <<>>
      /\ IsHistory(asked.history)
      /\ asked.files \in [FileNames -> Seq(Messages) \cup {None}]
      /\ \A n \in FileNames : asked.files[n] # None => IsHistory(asked.files[n])
  <2>1. \A n \in FileNames : before.files[n] # None => IsHistory(before.files[n])
    BY <1>3 DEF HistoryInv
  <2>2. before.history \in Seq(Messages) /\ IsHistory(before.history)
        /\ before.files \in [FileNames -> Seq(Messages) \cup {None}]
    BY <1>3 DEF HistoryInv
  <2> QED
    BY <1>1, <1>3, <2>1, <2>2, AddedFacts DEF asked
<1>5. /\ after.history \in {Append(asked.history, reply), Compressed(Append(asked.history, reply))}
      /\ after.history \in Seq(Messages) /\ IsHistory(after.history)
      /\ after.files \in [FileNames -> Seq(Messages) \cup {None}]
      /\ \A n \in FileNames : after.files[n] # None => IsHistory(after.files[n])
  BY <1>1, <1>4, AddedFacts DEF after
<1>6. ASSUME caller = None
      PROVE  /\ said' \in Seq(Messages) /\ Begins(said')
             /\ Agree(said', FirstKept(said'), history')
  <2> DEFINE one == Append(said, question)
             two == Append(one, reply)
             h == asked.history
  <2>1. Begins(said) /\ Agree(said, FirstKept(said), history)
    BY <1>6 DEF HistoryInv
  <2>2. one \in Seq(Messages) /\ Begins(one) /\ Agree(one, FirstKept(one), h)
    <3> HIDE DEF h
    <3> QED
      BY <1>1, <1>3, <1>4, <2>1, AddedKeeps DEF h
  <2>3. one # <<>>
    BY <1>1, <1>3, AppendProperties, LenProperties
  <2>4. said' = two
    <3>1. said \o <<question, reply>> = two
      BY <1>1, <1>3, OneByOne
    <3> QED
      BY <1>2, <1>6, <3>1
  <2>5. history' \in {Append(h, reply), Compressed(Append(h, reply))} /\ h \in Seq(Messages)
    BY <1>2, <1>4, <1>5
  <2> HIDE DEF one, h
  <2>6. two \in Seq(Messages) /\ Begins(two) /\ Agree(two, FirstKept(two), history')
    BY <1>1, <2>2, <2>3, <2>5, AddedKeeps
  <2> QED
    BY <2>4, <2>6
<1>7. caller # None => said' = said /\ Begins(said)
  BY <1>2 DEF HistoryInv
<1> QED
  BY <1>2, <1>3, <1>5, <1>6, <1>7

\* The conversation of a file is its history without the summary.
LEMMA LoadedAgrees ==
  ASSUME NEW h \in Seq(Messages), IsHistory(h)
  PROVE  LET s == At(h, {i \in DOMAIN h : h[i].role # "summary"})
         IN  s \in Seq(Messages) /\ Begins(s) /\ Agree(s, FirstKept(s), h)
<1> DEFINE n == Len(h)
           P == {i \in DOMAIN h : h[i].role # "summary"}
           s == At(h, P)
<1>1. n \in Nat /\ DOMAIN h = 1 .. n
  BY RoundFacts
<1>2. \A i \in 2 .. n : h[i].role # "summary"
  BY DEF IsHistory
<1>3. CASE h = <<>> \/ h[1].role = "user"
  <2>1. P = 1 .. n
    <3>1. \A i \in 1 .. n : h[i].role # "summary"
      <4> TAKE i \in 1 .. n
      <4>1. CASE i = 1
        <5>1. h # <<>>
          BY <1>1
        <5> QED
          BY <1>3, <4>1, <5>1
      <4>2. CASE i # 1
        <5>1. i \in 2 .. n
          BY <4>2, <1>1
        <5> QED
          BY <5>1, <1>2
      <4> QED
        BY <4>1, <4>2
    <3> QED
      BY <1>1, <3>1
  <2>2. s = h
    <3>1. At(h, 1 .. n) = h
      BY AtAll
    <3> QED
      BY <2>1, <3>1
  <2>3. Begins(h)
    BY <1>3 DEF Begins
  <2>4. FirstKept(h) \in 1 .. n + 1
    BY <2>3, KeptFacts
  <2>5. Agree(h, FirstKept(h), h)
    <3> DEFINE f == FirstKept(h)
    <3> HIDE DEF f
    <3>1. f \in 1 .. n + 1
      BY <2>4 DEF f
    <3>2. f + n >= n + 1 /\ \A i \in f .. n : i + (n - n) = i
      BY <1>1, <3>1
    <3> QED
      BY <3>2 DEF Agree, f
  <2> QED
    BY <2>2, <2>3, <2>5
<1>4. CASE h # <<>> /\ h[1].role # "user"
  <2>1. h[1].role = "summary" /\ n > 1 /\ h[2].role = "user"
    BY <1>4 DEF IsHistory
  <2>2. P = 2 .. n
    <3>1. \A i \in 1 .. n : h[i].role # "summary" <=> i # 1
      <4> TAKE i \in 1 .. n
      <4>1. i # 1 => i \in 2 .. n
        BY <1>1
      <4> QED
        BY <4>1, <1>2, <2>1
    <3>2. \A i : i \in 2 .. n <=> i \in 1 .. n /\ i # 1
      BY <1>1
    <3> HIDE DEF n
    <3> QED
      BY <1>1, <3>1, <3>2
  <2> DEFINE Q == 2 .. n
             c == n - 1
  <2>3. Q \in SUBSET (1 .. n) /\ Cardinality(Q) = c /\ c \in Nat
    BY <1>1, <2>1, FS_Interval
  <2>4. \A k \in 1 .. c : Nth(Q, k) = k + 1
    <3> TAKE k \in 1 .. c
    <3> DEFINE x == k + 1
    <3>1. UpTo(Q, x) = 2 .. x /\ x \in Q /\ x \in Int
      BY <1>1 DEF UpTo
    <3>2. Cardinality(2 .. x) = k
      <4>1. Cardinality(2 .. x) = IF 2 > x THEN 0 ELSE x - 2 + 1
        BY <3>1, FS_Interval
      <4> QED
        BY <4>1
    <3> HIDE DEF Q, x
    <3>3. Nth(Q, k) = x
      BY <1>1, <2>3, <3>1, <3>2, NthUnique
    <3> QED
      BY <3>3 DEF x
  <2>5. /\ s \in Seq(Messages) /\ Len(s) = c
        /\ \A k \in 1 .. c : s[k] = h[k + 1]
    <3>1. s = At(h, Q)
      BY <2>2
    <3> HIDE DEF s, Q
    <3>2. /\ s \in Seq(Messages) /\ Len(s) = c
          /\ \A k \in 1 .. c : s[k] = h[Nth(Q, k)]
      BY <1>1, <2>3, <3>1, AtFacts
    <3> HIDE DEF c
    <3> QED
      BY <2>4, <3>2
  <2> HIDE DEF s
  <2>6. Begins(s)
    <3>1. 1 \in 1 .. c /\ s[1] = h[1 + 1]
      BY <1>1, <2>1, <2>5
    <3> QED
      BY <2>1, <3>1 DEF Begins
  <2>7. FirstKept(s) \in 1 .. c + 1
    BY <2>5, <2>6, KeptFacts
  <2>8. Agree(s, FirstKept(s), h)
    <3> DEFINE f == FirstKept(s)
    <3> HIDE DEF f
    <3>1. f \in 1 .. c + 1 /\ n - c = 1
      BY <1>1, <2>7 DEF f
    <3>2. f + n >= c + 1
      BY <1>1, <3>1
    <3>3. \A i \in f .. c : s[i] = h[i + 1]
      BY <1>1, <2>5, <3>1
    <3> HIDE DEF n, c
    <3> QED
      BY <2>5, <3>1, <3>2, <3>3 DEF Agree, f, n
  <2> QED
    BY <2>5, <2>6, <2>8 DEF s
<1> QED
  BY <1>3, <1>4

LEMMA EmptyHistory ==
  /\ <<>> \in Seq(Messages) /\ IsHistory(<<>>) /\ Begins(<<>>)
  /\ Agree(<<>>, FirstKept(<<>>), <<>>)
<1>1. <<>> \in Seq(Messages) /\ Len(<<>>) = 0
  BY EmptySeq
<1>2. IsHistory(<<>>) /\ Begins(<<>>)
  BY DEF IsHistory, Begins
<1>3. FirstKept(<<>>) \in 1 .. 0 + 1
  BY <1>1, <1>2, KeptFacts
<1>4. Agree(<<>>, FirstKept(<<>>), <<>>)
  BY <1>3 DEF Agree
<1> QED
  BY <1>1, <1>2, <1>4

LEMMA HistoryInit == RunInit => HistoryInv
<1>1. \A x : [n \in FileNames |-> x] \in [FileNames -> {x}]
  OBVIOUS
<1> QED
  BY <1>1, EmptyHistory, SessionAssumption
     DEF RunInit, SessionInit, HistoryInv, SessionTyped, AllTools, SessionAssumption

\* What belongs to the agent stays, and a turn goes on or ends.
LEMMA HistoryStays ==
  ASSUME HistoryInv, UNCHANGED <<history, said, tools, disabled, maxSteps, caller>>,
         \/ UNCHANGED files
         \/ files' = [files EXCEPT !["saved"] = history],
         \/ pc' = pc
         \/ pc \notin {"idle", "over"} /\ pc' \notin {"idle", "over"}
         \/ pc' \notin {"idle", "over"} /\ TurnNumber <= MaxTurns
         \/ pc \notin {"idle", "over"} /\ pc' = IF caller = None THEN "idle" ELSE "over"
  PROVE  HistoryInv'
<1>1. SessionTyped'
  BY DEF HistoryInv, SessionTyped
<1>2. TurnNumber' = TurnNumber
  BY DEF TurnNumber
<1>3. \A n \in FileNames : files'[n] # None => IsHistory(files'[n])
  BY DEF HistoryInv, SessionTyped
<1> QED
  BY <1>1, <1>2, <1>3 DEF HistoryInv

LEMMA HistoryStep ==
  ASSUME HistoryInv, [Next]_vars
  PROVE  HistoryInv'
<1>1. CASE UNCHANGED vars
  BY <1>1, HistoryStays DEF vars, session
<1>2. CASE \E m \in Modes : Begin(m)
  BY <1>2, HistoryStays DEF Begin, StandStill, session
<1>3. ASSUME NEW filter \in Filters \cup {None}, NEW steps \in {maxSteps, SubagentSteps},
             Subtask(filter, steps)
      PROVE  HistoryInv'
  <2>1. /\ pc = "idle" /\ TurnNumber <= MaxTurns /\ pc' = "start" /\ caller = None
        /\ caller' = [history |-> history, maxSteps |-> maxSteps, filtered |-> filter # None]
        /\ history' = <<>> /\ tools' = tools \ Hidden(filter)
        /\ disabled' = disabled \cup Hidden(filter)
        /\ maxSteps' = steps /\ UNCHANGED <<files, said>>
    BY <1>3 DEF Subtask, EntersSubtask, PutAside, HistoryInv
  <2>2. /\ history \in Seq(Messages) /\ tools \in SUBSET AllTools /\ maxSteps \in Nat
        /\ steps \in Nat
    BY SessionAssumption DEF HistoryInv, SessionTyped, SessionAssumption
  <2>3. caller' \in Callers
    BY <2>1, <2>2 DEF Callers
  <2>4. caller' # None
    BY <2>3, CallerAssumption DEF Callers
  <2>5. SessionTyped'
    BY <2>1, <2>2, <2>3, EmptyHistory DEF HistoryInv, SessionTyped, Hidden, AllTools
  <2>6. TurnNumber' = TurnNumber
    <3> DEFINE U == {0} \cup Turns(said) \cup Turns(history)
                    \cup (IF caller = None THEN {} ELSE Turns(caller.history))
               V == {0} \cup Turns(said') \cup Turns(history')
                    \cup (IF caller' = None THEN {} ELSE Turns(caller'.history))
    <3>1. Turns(history') = {}
      BY <2>1 DEF Turns, ToSet
    <3>2. caller'.history = history
      BY <2>1
    <3>3. U = V
      BY <2>1, <2>4, <3>1, <3>2
    <3>4. TurnNumber = 1 + Max(U) /\ TurnNumber' = 1 + Max(V)
      BY DEF TurnNumber
    <3> HIDE DEF U, V
    <3> QED
      BY <3>3, <3>4
  <2>7. caller'.history = history
    BY <2>1
  <2> QED
    BY <2>1, <2>4, <2>5, <2>6, <2>7, EmptyHistory DEF HistoryInv
<1>4. ASSUME EndsWithout, pc \notin {"idle", "over"}
      PROVE  HistoryInv'
  BY <1>4, HistoryStays DEF EndsWithout, Ends, SaveSession
<1>5. CASE ReActStep \/ PresetStep
  <2>1. CASE pc \notin {"idle", "over", "answered"} /\ Raises
    BY <2>1, <1>4 DEF Raises
  <2>2. CASE pc \notin {"idle", "over"} /\ StandStill /\ (pc' \notin {"idle", "over", "start"})
    BY <2>2, HistoryStays DEF StandStill, session
  <2>3. CASE StandStill /\ UNCHANGED pc
    BY <2>3, HistoryStays DEF StandStill, session
  <2> QED
    BY <1>5, <2>1, <2>2, <2>3, StepsGoOn
<1>6. CASE Say
  <2>1. /\ SaysTurn /\ pc = "answered" /\ UNCHANGED <<tools, disabled, maxSteps, caller>>
        /\ pc' = IF caller = None THEN "idle" ELSE "over"
    BY <1>6 DEF Say, Ends
  <2>2. /\ history' \in Seq(Messages) /\ IsHistory(history')
        /\ files' \in [FileNames -> Seq(Messages) \cup {None}]
        /\ \A n \in FileNames : files'[n] # None => IsHistory(files'[n])
        /\ said' \in Seq(Messages) /\ Begins(said')
        /\ caller # None => said' = said
        /\ caller = None => Agree(said', FirstKept(said'), history')
    BY <2>1, TurnIsSaid
  <2>3. SessionTyped'
    BY <2>1, <2>2 DEF HistoryInv, SessionTyped
  <2> QED
    BY <2>1, <2>2, <2>3 DEF HistoryInv
<1>7. CASE Return
  <2>1. /\ pc = "over" /\ pc' = "idle" /\ caller # None
        /\ history' = caller.history
        /\ tools' \in {tools, tools \cup disabled} /\ disabled' \in {disabled, {}}
        /\ maxSteps' = caller.maxSteps /\ caller' = None /\ UNCHANGED <<files, said>>
    BY <1>7 DEF Return, LeavesSubtask, Restored, HistoryInv
  <2>2. caller.history \in Seq(Messages) /\ caller.maxSteps \in Nat
    BY <2>1 DEF HistoryInv, SessionTyped, Callers
  <2>3. SessionTyped'
    BY <2>1, <2>2 DEF HistoryInv, SessionTyped
  <2> QED
    BY <2>1, <2>3 DEF HistoryInv
<1>8. CASE Interrupt
  BY <1>8, <1>4 DEF Interrupt
<1>9. CASE ReturnCutShort
  <2> DEFINE s == At(history, {i \in DOMAIN history : history[i].role # "summary"})
  <2>1. /\ pc' = "idle" /\ caller' = None /\ said' = s
        /\ UNCHANGED <<history, files, tools, disabled, maxSteps>>
    BY <1>9 DEF ReturnCutShort, LosesCaller, GoesOnWith
  <2>2. s \in Seq(Messages) /\ Begins(s) /\ Agree(s, FirstKept(s), history)
    BY LoadedAgrees DEF HistoryInv, SessionTyped
  <2> HIDE DEF s
  <2>3. SessionTyped'
    BY <2>1, <2>2 DEF HistoryInv, SessionTyped
  <2> QED
    BY <2>1, <2>2, <2>3 DEF HistoryInv
<1>10. CASE SessionOperation
  <2>1. pc = "idle" /\ pc' = "idle" /\ caller = None
    BY <1>10 DEF SessionOperation, HistoryInv
  <2>2. CASE SaveSession /\ UNCHANGED <<history, counted, tools, disabled, maxSteps, caller, said>>
    BY <2>1, <2>2, HistoryStays DEF SaveSession
  <2>3. ASSUME NEW name \in FileNames, LoadSession(name)
        PROVE  HistoryInv'
    <3> DEFINE h == files[name]
               s == At(h, {i \in DOMAIN h : h[i].role # "summary"})
    <3>1. /\ history' = h /\ said' = s /\ h # None
          /\ UNCHANGED <<files, tools, disabled, maxSteps, caller>>
      BY <2>3 DEF LoadSession, GoesOnWith
    <3>2. h \in Seq(Messages) /\ IsHistory(h)
      BY <3>1 DEF HistoryInv, SessionTyped
    <3> HIDE DEF h
    <3>3. s \in Seq(Messages) /\ Begins(s) /\ Agree(s, FirstKept(s), h)
      BY <3>2, LoadedAgrees
    <3> HIDE DEF s
    <3>4. SessionTyped'
      BY <3>1, <3>2, <3>3 DEF HistoryInv, SessionTyped
    <3> QED
      BY <2>1, <3>1, <3>2, <3>3, <3>4 DEF HistoryInv
  <2>4. CASE ClearHistory
    <3>1. history' = <<>> /\ said' = <<>> /\ UNCHANGED <<files, tools, disabled, maxSteps, caller>>
      BY <2>4 DEF ClearHistory
    <3>2. SessionTyped'
      BY <3>1, EmptyHistory DEF HistoryInv, SessionTyped
    <3> QED
      BY <2>1, <3>1, <3>2, EmptyHistory DEF HistoryInv
  <2>5. CASE RestartSession
    <3>1. /\ history' = <<>> /\ said' = <<>> /\ UNCHANGED <<files, caller>>
          /\ tools' = AllTools /\ disabled' = {} /\ maxSteps' = MaxSteps
      BY <2>5 DEF RestartSession, AllTools
    <3>2. MaxSteps \in Nat
      BY SessionAssumption DEF SessionAssumption
    <3>3. SessionTyped'
      BY <3>1, <3>2, EmptyHistory DEF HistoryInv, SessionTyped
    <3> QED
      BY <2>1, <3>1, <3>3, EmptyHistory DEF HistoryInv
  <2> QED
    BY <1>10, <2>2, <2>3, <2>4, <2>5 DEF SessionOperation
<1> QED
  BY <1>1, <1>2, <1>3, <1>5, <1>6, <1>7, <1>8, <1>9, <1>10 DEF Next, TurnStep

\* However often the history was compressed, in a turn or in the middle of one,
\* saved, loaded and put aside, it ends with the last rounds of the conversation,
\* whole and in order (HistoryManager.compress, Agent.add_message).
THEOREM RecentRoundsAreKept == Spec => []RecentRoundsKept
<1>1. RunInit => HistoryInv
  BY HistoryInit
<1>2. HistoryInv /\ [Next]_vars => HistoryInv'
  BY HistoryStep
<1>3. HistoryInv => RecentRoundsKept
  <2> SUFFICES ASSUME HistoryInv, caller = None
               PROVE  IsSuffix(SubSeq(said, FirstKept(said), Len(said)), history)
    BY DEF RecentRoundsKept, FirstKept
  <2>1. /\ said \in Seq(Messages) /\ history \in Seq(Messages) /\ Begins(said)
        /\ Agree(said, FirstKept(said), history)
    BY DEF HistoryInv, SessionTyped
  <2>2. FirstKept(said) \in 1 .. Len(said) + 1
    BY <2>1, KeptFacts
  <2> QED
    BY <2>1, <2>2, AgreeIsSuffix
<1> QED
  BY <1>1, <1>2, <1>3, PTL DEF Spec

=============================================================================
