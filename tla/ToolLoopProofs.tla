--------------------------- MODULE ToolLoopProofs ---------------------------
(***************************************************************************)
(* What ToolLoop promises for any tools, rules and limits.                 *)
(***************************************************************************)
EXTENDS ToolLoop, PositionProofs

-----------------------------------------------------------------------------
(* Identities are bounded.                                                 *)

\* Max of a set of identities, 0 if there are none.
LEMMA MaxFacts ==
  ASSUME LoopAssumption, NEW S \in SUBSET (1 .. MaxIds)
  PROVE  /\ Max({0} \cup S) \in 0 .. MaxIds
         /\ \A x \in S : x <= Max({0} \cup S)
<1> DEFINE U == {0} \cup S
           T == {MaxIds - x : x \in U}
<1>1. MaxIds \in Nat /\ U \subseteq 0 .. MaxIds /\ 0 \in U
  BY DEF LoopAssumption
<1>2. T \in SUBSET Nat /\ T # {}
  BY <1>1
<1>3. \E y \in T : \A z \in T : y <= z
  <2> HIDE DEF T
  <2> QED
    BY <1>2, LeastPosition
<1>4. \E x \in U : \A z \in U : x >= z
  <2>1. PICK x \in U : \A z \in U : MaxIds - x <= MaxIds - z
    BY <1>3
  <2>2. \A z \in U : x >= z
    BY <1>1, <2>1
  <2> QED
    BY <2>2
<1>5. Max(U) \in U /\ \A z \in U : Max(U) >= z
  <2> HIDE DEF U
  <2> QED
    BY <1>4 DEF Max
<1> QED
  BY <1>1, <1>5

-----------------------------------------------------------------------------
(* Messages.                                                               *)

Roles == {"user", "assistant", "tool_calls", "tool", "summary", "system"}

Reports == Executed \cup {"refused", "resting", "skipped", "decided"}

Msg ==
  {m \in [role : Roles, of : Seq(1 .. MaxIds), what : Reports \cup {None}] :
     m.role = "tool" => Len(m.of) = 1}

\* A compression keeps everything, or from a message of the user on.
LEMMA KeepFromFacts ==
  ASSUME LoopAssumption, NEW h \in Seq(Msg), KeepFrom(h) # 1
  PROVE  KeepFrom(h) \in DOMAIN h /\ h[KeepFrom(h)].role = "user"
<1> DEFINE P == RoundBoundaries(h)
           n == Cardinality(P)
           k == n - MinRetainRounds + 1
<1>1. P \in SUBSET (1 .. Len(h)) /\ Len(h) \in Nat
  BY LenProperties DEF RoundBoundaries
<1>2. n \in Nat
  <2>1. IsFiniteSet(1 .. Len(h))
    BY <1>1, FS_Interval
  <2> QED
    BY <1>1, <2>1, FS_Subset, FS_CardinalityType
<1>3. MinRetainRounds \in Nat \ {0}
  BY DEF LoopAssumption
<1>4. k \in 1 .. Cardinality(P) /\ KeepFrom(h) = Nth(P, k)
  <2> HIDE DEF P
  <2>1. ~ (n <= MinRetainRounds)
    BY DEF KeepFrom, P
  <2>2. KeepFrom(h) = Nth(P, k)
    BY <2>1 DEF KeepFrom, P
  <2> QED
    BY <1>2, <1>3, <2>1, <2>2
<1>5. Nth(P, k) \in P
  <2> HIDE DEF P, k
  <2> QED
    BY <1>1, <1>4, NthFacts
<1> QED
  BY <1>4, <1>5 DEF RoundBoundaries

\* The messages at all positions but the last.
LEMMA AtFront ==
  ASSUME NEW h \in Seq(Msg), h # <<>>
  PROVE  At(h, 1 .. Len(h) - 1) = Front(h)
<1> DEFINE m == Len(h) - 1
           a == At(h, 1 .. m)
           f == Front(h)
<1>1. Len(h) \in Nat /\ m \in Nat /\ m \in 0 .. Len(h)
  BY EmptySeq, LenProperties
<1>2. a \in Seq(Msg) /\ Len(a) = m /\ \A k \in 1 .. m : a[k] = h[k]
  <2> HIDE DEF m
  <2> QED
    BY <1>1, AtBeginning
<1>3. \A i \in 1 .. m : h[i] \in Msg
  BY <1>1, ElementOfSeq
<1>4. /\ SubSeq(h, 1, m) \in Seq(Msg)
      /\ Len(SubSeq(h, 1, m)) = IF 1 <= m THEN m - 1 + 1 ELSE 0
      /\ \A i \in 1 .. m - 1 + 1 : SubSeq(h, 1, m)[i] = h[1 + i - 1]
  <2>1. 1 \in Int /\ m \in Int
    BY <1>1
  <2> HIDE DEF m
  <2> QED
    BY <1>3, <2>1, SubSeqProperties
<1>5. f = SubSeq(h, 1, m)
  BY DEF Front
<1> HIDE DEF a, f, m
<1>6. f \in Seq(Msg) /\ Len(f) = m /\ \A k \in 1 .. m : f[k] = h[k]
  BY <1>1, <1>4, <1>5
<1>7. a = f
  BY <1>2, <1>6, SeqEqual
<1> QED
  BY <1>7 DEF a, f, m

-----------------------------------------------------------------------------
(* Rounds.                                                                 *)

Answered(ms, i) ==
  /\ i + Len(ms[i].of) <= Len(ms)
  /\ \A k \in 1 .. Len(ms[i].of) :
       ms[i + k].role = "tool" /\ ms[i + k].of = <<ms[i].of[k]>>

Asked(ms, i) ==
  \E j \in 1 .. i - 1 :
    ms[j].role = "tool_calls" /\ i - j \in 1 .. Len(ms[j].of)

\* The positions and lengths of a list of messages.
LEMMA MsgFacts ==
  ASSUME NEW ms \in Seq(Msg)
  PROVE  /\ Len(ms) \in Nat /\ DOMAIN ms = 1 .. Len(ms)
         /\ \A i \in 1 .. Len(ms) :
              /\ ms[i] \in Msg
              /\ ms[i].of \in Seq(1 .. MaxIds)
              /\ Len(ms[i].of) \in Nat
              /\ DOMAIN ms[i].of = 1 .. Len(ms[i].of)
<1>1. Len(ms) \in Nat /\ DOMAIN ms = 1 .. Len(ms)
  BY LenProperties
<1>2. ASSUME NEW i \in 1 .. Len(ms)
      PROVE  /\ ms[i] \in Msg
             /\ ms[i].of \in Seq(1 .. MaxIds)
             /\ Len(ms[i].of) \in Nat
             /\ DOMAIN ms[i].of = 1 .. Len(ms[i].of)
  <2>1. ms[i] \in Msg
    BY ElementOfSeq
  <2>2. ms[i].of \in Seq(1 .. MaxIds)
    BY <2>1 DEF Msg
  <2> QED
    BY <2>1, <2>2, LenProperties
<1> QED
  BY <1>1, <1>2

\* The form of a conversation, by positions.
LEMMA WellFormedFacts ==
  ASSUME NEW ms \in Seq(Msg)
  PROVE  WellFormed(ms) <=>
           \A i \in 1 .. Len(ms) :
             /\ ms[i].role = "tool_calls" => Answered(ms, i)
             /\ ms[i].role = "tool" => Asked(ms, i)
<1>1. \A i \in 1 .. Len(ms) : DOMAIN ms[i].of = 1 .. Len(ms[i].of)
  BY MsgFacts
<1>2. DOMAIN ms = 1 .. Len(ms) /\ Len(ms) \in Nat
  BY MsgFacts
<1>3. ASSUME NEW i \in 1 .. Len(ms)
      PROVE  /\ (/\ i + Len(ms[i].of) <= Len(ms)
                 /\ \A k \in DOMAIN ms[i].of :
                      ms[i + k].role = "tool" /\ ms[i + k].of = <<ms[i].of[k]>>)
                <=> Answered(ms, i)
             /\ (\E j \in 1 .. i - 1 :
                   ms[j].role = "tool_calls" /\ i - j \in DOMAIN ms[j].of)
                <=> Asked(ms, i)
  <2>1. \A j \in 1 .. i - 1 : j \in 1 .. Len(ms)
    BY <1>2
  <2> QED
    BY <1>1, <2>1 DEF Answered, Asked
<1> QED
  BY <1>2, <1>3, Zenon DEF WellFormed

\* Two messages that are alike to a provider.
SameKind(m, n) ==
  /\ m.role = "tool" <=> n.role = "tool"
  /\ m.role = "tool_calls" <=> n.role = "tool_calls"
  /\ m.of = n.of

\* A request is answered where the same messages follow it.
LEMMA AnsweredThere ==
  ASSUME NEW s \in Seq(Msg), NEW t \in Seq(Msg), NEW i \in 1 .. Len(s), NEW j,
         Answered(s, i), t[j].of = s[i].of, j + Len(s[i].of) <= Len(t),
         \A k \in 1 .. Len(s[i].of) : SameKind(s[i + k], t[j + k])
  PROVE  Answered(t, j)
<1>1. ASSUME NEW k \in 1 .. Len(s[i].of)
      PROVE  t[j + k].role = "tool" /\ t[j + k].of = <<t[j].of[k]>>
  <2>1. s[i + k].role = "tool" /\ s[i + k].of = <<s[i].of[k]>>
    BY Zenon DEF Answered
  <2>2. t[j + k].role = "tool" /\ t[j + k].of = s[i + k].of
    BY <2>1 DEF SameKind
  <2> QED
    BY <2>1, <2>2, Zenon
<1> QED
  BY <1>1, Zenon DEF Answered

\* Only the kinds and the identities count.
LEMMA SameRounds ==
  ASSUME NEW s \in Seq(Msg), NEW t \in Seq(Msg), WellFormed(s), Len(t) = Len(s),
         \A i \in 1 .. Len(s) : SameKind(s[i], t[i])
  PROVE  WellFormed(t)
<1>1. Len(s) \in Nat /\ \A i \in 1 .. Len(s) : Len(s[i].of) \in Nat
  BY MsgFacts
<1>2. \A i \in 1 .. Len(s) :
        /\ s[i].role = "tool_calls" => Answered(s, i)
        /\ s[i].role = "tool" => Asked(s, i)
  BY WellFormedFacts
<1>3. \A i \in 1 .. Len(s) :
        /\ s[i].role = "tool" <=> t[i].role = "tool"
        /\ s[i].role = "tool_calls" <=> t[i].role = "tool_calls"
        /\ t[i].of = s[i].of
  BY DEF SameKind
<1>4. ASSUME NEW i \in 1 .. Len(t), t[i].role = "tool_calls" PROVE Answered(t, i)
  <2>1. Answered(s, i)
    BY <1>2, <1>3, <1>4
  <2>2. \A k \in 1 .. Len(s[i].of) : i + k \in 1 .. Len(s)
    BY <1>1, <2>1 DEF Answered
  <2>3. i + Len(s[i].of) <= Len(t) /\ t[i].of = s[i].of
    BY <1>3, <2>1 DEF Answered
  <2>4. \A k \in 1 .. Len(s[i].of) : SameKind(s[i + k], t[i + k])
    BY <2>2
  <2> QED
    BY <2>1, <2>3, <2>4, AnsweredThere
<1>5. ASSUME NEW i \in 1 .. Len(t), t[i].role = "tool" PROVE Asked(t, i)
  <2>1. Asked(s, i)
    BY <1>2, <1>3, <1>5
  <2> QED
    BY <1>1, <1>3, <2>1 DEF Asked
<1> QED
  BY <1>4, <1>5, WellFormedFacts

\* A message that neither calls nor reports, at the end.
LEMMA PlainLast ==
  ASSUME NEW s \in Seq(Msg), NEW t \in Seq(Msg), WellFormed(s),
         Len(t) = Len(s) + 1, \A i \in 1 .. Len(s) : t[i] = s[i],
         t[Len(t)].role \notin {"tool", "tool_calls"}
  PROVE  WellFormed(t)
<1>1. Len(s) \in Nat /\ \A i \in 1 .. Len(s) : Len(s[i].of) \in Nat
  BY MsgFacts
<1>2. \A i \in 1 .. Len(s) :
        /\ s[i].role = "tool_calls" => Answered(s, i)
        /\ s[i].role = "tool" => Asked(s, i)
  BY WellFormedFacts
<1>3. ASSUME NEW i \in 1 .. Len(t), t[i].role = "tool_calls" PROVE Answered(t, i)
  <2>1. i \in 1 .. Len(s)
    BY <1>1, <1>3
  <2>2. Answered(s, i)
    BY <1>2, <1>3, <2>1
  <2>3. \A k \in 1 .. Len(s[i].of) : i + k \in 1 .. Len(s)
    BY <1>1, <2>2 DEF Answered
  <2>4. i + Len(s[i].of) <= Len(t)
    BY <1>1, <2>1, <2>2 DEF Answered
  <2> QED
    BY <2>1, <2>2, <2>3, <2>4, AnsweredThere DEF SameKind
<1>4. ASSUME NEW i \in 1 .. Len(t), t[i].role = "tool" PROVE Asked(t, i)
  <2>1. i \in 1 .. Len(s)
    BY <1>1, <1>4
  <2>2. Asked(s, i)
    BY <1>2, <1>4, <2>1
  <2> QED
    BY <1>1, <2>1, <2>2 DEF Asked
<1> QED
  BY <1>3, <1>4, WellFormedFacts

\* A message that neither calls nor reports, in front.
LEMMA PlainFirst ==
  ASSUME NEW s \in Seq(Msg), NEW t \in Seq(Msg), WellFormed(s),
         Len(t) = Len(s) + 1, \A i \in 1 .. Len(s) : t[i + 1] = s[i],
         t[1].role \notin {"tool", "tool_calls"}
  PROVE  WellFormed(t)
<1>1. Len(s) \in Nat /\ \A i \in 1 .. Len(s) : Len(s[i].of) \in Nat
  BY MsgFacts
<1>2. \A i \in 1 .. Len(s) :
        /\ s[i].role = "tool_calls" => Answered(s, i)
        /\ s[i].role = "tool" => Asked(s, i)
  BY WellFormedFacts
<1>3. \A i \in 2 .. Len(t) : i - 1 \in 1 .. Len(s) /\ t[i] = s[i - 1]
  BY <1>1
<1>4. ASSUME NEW i \in 1 .. Len(t), t[i].role = "tool_calls" PROVE Answered(t, i)
  <2>1. i \in 2 .. Len(t)
    BY <1>1, <1>4
  <2>2. Answered(s, i - 1)
    BY <1>2, <1>3, <1>4, <2>1
  <2>3. \A k \in 1 .. Len(t[i].of) : t[i + k] = s[i - 1 + k]
    BY <1>1, <1>3, <2>1, <2>2 DEF Answered
  <2>4. i - 1 \in 1 .. Len(s) /\ t[i] = s[i - 1]
    BY <1>3, <2>1
  <2>5. i + Len(s[i - 1].of) <= Len(t)
    BY <1>1, <2>2, <2>4 DEF Answered
  <2> QED
    BY <2>2, <2>3, <2>4, <2>5, AnsweredThere DEF SameKind
<1>5. ASSUME NEW i \in 1 .. Len(t), t[i].role = "tool" PROVE Asked(t, i)
  <2>1. i \in 2 .. Len(t)
    BY <1>1, <1>5
  <2>2. Asked(s, i - 1)
    BY <1>2, <1>3, <1>5, <2>1
  <2>3. PICK j \in 1 .. i - 1 - 1 :
          s[j].role = "tool_calls" /\ i - 1 - j \in 1 .. Len(s[j].of)
    BY <2>2 DEF Asked
  <2>4. j + 1 \in 1 .. i - 1 /\ t[j + 1] = s[j] /\ i - (j + 1) = i - 1 - j
    BY <1>1, <1>3, <2>1
  <2> QED
    BY <2>3, <2>4 DEF Asked
<1> QED
  BY <1>4, <1>5, WellFormedFacts

\* What follows a message that neither calls nor reports.
LEMMA Suffix ==
  ASSUME NEW s \in Seq(Msg), NEW t \in Seq(Msg), WellFormed(s), NEW a \in 1 .. Len(s),
         Len(t) = Len(s) - a + 1, \A i \in 1 .. Len(t) : t[i] = s[i + a - 1],
         s[a].role \notin {"tool", "tool_calls"}
  PROVE  WellFormed(t)
<1>1. Len(s) \in Nat /\ \A i \in 1 .. Len(s) : Len(s[i].of) \in Nat
  BY MsgFacts
<1>2. \A i \in 1 .. Len(s) :
        /\ s[i].role = "tool_calls" => Answered(s, i)
        /\ s[i].role = "tool" => Asked(s, i)
  BY WellFormedFacts
<1>3. ASSUME NEW i \in 1 .. Len(t), t[i].role = "tool_calls" PROVE Answered(t, i)
  <2>1. i + a - 1 \in 1 .. Len(s) /\ t[i] = s[i + a - 1]
    BY <1>1
  <2>2. Answered(s, i + a - 1)
    BY <1>2, <1>3, <2>1
  <2> DEFINE c == i + a - 1
             n == Len(s[c].of)
  <2>3. n \in Nat /\ c + n <= Len(s)
    BY <1>1, <2>1, <2>2 DEF Answered
  <2>4. i + n <= Len(t) /\ \A k \in 1 .. n : i + k \in 1 .. Len(t) /\ i + k + a - 1 = c + k
    <3> HIDE DEF n
    <3> QED
      BY <1>1, <2>3
  <2>5. \A k \in 1 .. n : t[i + k] = s[c + k]
    <3> HIDE DEF n, c
    <3> QED
      BY <2>4
  <2> HIDE DEF c
  <2> QED
    BY <2>1, <2>2, <2>4, <2>5, AnsweredThere DEF c, SameKind
<1>4. ASSUME NEW i \in 1 .. Len(t), t[i].role = "tool" PROVE Asked(t, i)
  <2>1. i + a - 1 \in 1 .. Len(s) /\ t[i] = s[i + a - 1]
    BY <1>1
  <2>2. Asked(s, i + a - 1)
    BY <1>2, <1>4, <2>1
  <2>3. PICK j \in 1 .. i + a - 1 - 1 :
          s[j].role = "tool_calls" /\ i + a - 1 - j \in 1 .. Len(s[j].of)
    BY <2>2 DEF Asked
  <2>4. Answered(s, j)
    BY <1>1, <1>2, <2>3
  <2>5. ~ (j < a)
    <3> SUFFICES ASSUME j < a PROVE FALSE
      OBVIOUS
    <3>1. a - j \in 1 .. Len(s[j].of)
      BY <1>1, <2>1, <2>3
    <3>2. s[j + (a - j)].role = "tool"
      BY <2>4, <3>1 DEF Answered
    <3> QED
      BY <3>2
  <2>6. j # a
    BY <2>3
  <2>7. /\ j - a + 1 \in 1 .. i - 1
        /\ t[j - a + 1] = s[j]
        /\ i - (j - a + 1) = i + a - 1 - j
    BY <1>1, <2>3, <2>5, <2>6
  <2> QED
    BY <2>3, <2>7 DEF Asked
<1> QED
  BY <1>3, <1>4, WellFormedFacts

\* A request and its results, at the end.
LEMMA RoundLast ==
  ASSUME NEW s \in Seq(Msg), NEW t \in Seq(Msg), WellFormed(s),
         NEW n \in Nat, Len(t) = Len(s) + 1 + n,
         \A i \in 1 .. Len(s) : t[i] = s[i],
         t[Len(s) + 1].role = "tool_calls", Len(t[Len(s) + 1].of) = n,
         \A k \in 1 .. n : /\ t[Len(s) + 1 + k].role = "tool"
                           /\ t[Len(s) + 1 + k].of = <<t[Len(s) + 1].of[k]>>
  PROVE  WellFormed(t)
<1>1. Len(s) \in Nat /\ \A i \in 1 .. Len(s) : Len(s[i].of) \in Nat
  BY MsgFacts
<1>2. \A i \in 1 .. Len(s) :
        /\ s[i].role = "tool_calls" => Answered(s, i)
        /\ s[i].role = "tool" => Asked(s, i)
  BY WellFormedFacts
<1> DEFINE q == Len(s) + 1
<1>3. ASSUME NEW i \in 1 .. Len(t), t[i].role = "tool_calls" PROVE Answered(t, i)
  <2>1. CASE i \in 1 .. Len(s)
    <3>1. Answered(s, i)
      BY <1>2, <1>3, <2>1
    <3>2. \A k \in 1 .. Len(s[i].of) : i + k \in 1 .. Len(s)
      BY <1>1, <2>1, <3>1 DEF Answered
    <3>3. i + Len(s[i].of) <= Len(t)
      BY <1>1, <2>1, <3>1 DEF Answered
    <3> QED
      BY <2>1, <3>1, <3>2, <3>3, AnsweredThere DEF SameKind
  <2>2. CASE i = q
    BY <1>1, <2>2 DEF Answered
  <2>3. CASE i > q
    <3>1. i - q \in 1 .. n /\ q + (i - q) = i
      BY <1>1, <2>3
    <3>2. t[q + (i - q)].role = "tool"
      BY <3>1
    <3> QED
      BY <1>3, <3>1, <3>2
  <2> QED
    BY <1>1, <2>1, <2>2, <2>3
<1>4. ASSUME NEW i \in 1 .. Len(t), t[i].role = "tool" PROVE Asked(t, i)
  <2>1. CASE i \in 1 .. Len(s)
    <3>1. Asked(s, i)
      BY <1>2, <1>4, <2>1
    <3>2. PICK j \in 1 .. i - 1 :
            s[j].role = "tool_calls" /\ i - j \in 1 .. Len(s[j].of)
      BY <3>1 DEF Asked
    <3>3. t[j] = s[j]
      BY <1>1, <2>1, <3>2
    <3> QED
      BY <3>2, <3>3 DEF Asked
  <2>2. CASE i > q
    BY <1>1, <2>2 DEF Asked
  <2>3. i # q
    BY <1>4
  <2> QED
    BY <1>1, <2>1, <2>2, <2>3
<1> QED
  BY <1>3, <1>4, WellFormedFacts

-----------------------------------------------------------------------------
(* The invariant.                                                          *)

Paused == [call : 1 .. MaxIds, calls : Seq(1 .. MaxIds), step : Nat]

PlannedCall ==
  {c \in [call : 1 .. MaxIds, tool : Tools \cup {None}, verdict : {"allow", "refused"}] :
     c.verdict = "allow" => c.tool \in Tools}

TypeInv ==
  /\ saved \in [history : Seq(Msg), archive : Seq(Msg), paused : {None} \cup Paused]
  /\ pc \in {"idle", "prepare", "model", "execute", "final"}
  /\ history \in Seq(Msg)
  /\ archive \in Seq(Msg)
  /\ messages \in Seq(Msg)
  /\ step \in Nat
  /\ plan \in Seq(PlannedCall)
  /\ plan # <<>> <=> pc = "execute"
  /\ ran \subseteq 1 .. MaxIds

\* The breaker's two maps agree, whatever the calls and their results.
BreakerInv ==
  /\ failures \in [Tools -> Nat]
  /\ open \subseteq Tools
  /\ RestsAfterFailures

Known == Identities(history) \cup Identities(archive)
KnownSaved == Identities(saved.history) \cup Identities(saved.archive)

\* No message reports the call yet.
Unreported(h, call) ==
  \A i \in DOMAIN h : h[i].role = "tool" => h[i].of[1] # call

\* The calls that wait are those of the last request, each once, and nobody
\* has executed, saved or reported one of them.
PlanInv ==
  /\ \A k \in DOMAIN plan :
       /\ plan[k].call \in Known
       /\ plan[k].call \notin ran \cup KnownSaved
       /\ Unreported(history, plan[k].call)
       /\ Unreported(archive, plan[k].call)
  /\ \A k, l \in DOMAIN plan : plan[k].call = plan[l].call => k = l

\* What was executed is in the transcript, and what a turn starts from stays
\* in it.
KnownInv ==
  IF pc = "idle" THEN ran \subseteq KnownSaved
  ELSE ran \subseteq Known /\ KnownSaved \subseteq Known

\* The calls of a question were not executed, and no earlier message has one.
PausedInv ==
  saved.paused # None =>
    /\ ran \cap ToSet(saved.paused.calls) = {}
    /\ \A i \in 1 .. Len(saved.history) - 1 :
         ToSet(saved.history[i].of) \cap ToSet(saved.paused.calls) = {}

Truthful(h, executed) ==
  \A i \in DOMAIN h :
    h[i].role = "tool" => (h[i].what \in Executed <=> h[i].of[1] \in executed)

TruthInv ==
  /\ Truthful(history, ran)
  /\ Truthful(archive, ran)
  /\ Truthful(saved.history, ran)
  /\ Truthful(saved.archive, ran)

\* The results that the rest of a round will add, whatever they say.
Awaited(calls) == [k \in DOMAIN calls |-> Result(calls[k].call, "refused")]

\* With them, the history and the messages of a turn are well-formed.
RoundsInv ==
  /\ CheckpointIsResumable
  /\ WellFormed(history \o Awaited(plan))
  /\ WellFormed(messages \o Awaited(plan))

LoopInv ==
  TypeInv /\ BreakerInv /\ PlanInv /\ KnownInv /\ PausedInv /\ TruthInv /\ RoundsInv

-----------------------------------------------------------------------------
(* Lists of messages.                                                      *)

\* A function on the first numbers is a sequence.
LEMMA FunctionSeq ==
  ASSUME NEW S, NEW n \in Nat, NEW f \in [1 .. n -> S]
  PROVE  f \in Seq(S) /\ Len(f) = n
<1>1. f \in Seq(S)
  BY SeqDef
<1>2. Len(f) \in Nat /\ DOMAIN f = 1 .. Len(f)
  BY <1>1, LenProperties
<1>3. 1 .. Len(f) = 1 .. n
  BY <1>2
<1>4. Len(f) = n
  <2> DEFINE m == Len(f)
  <2> HIDE DEF m
  <2>1. m \in Nat /\ 1 .. m = 1 .. n
    BY <1>2, <1>3 DEF m
  <2>2. m <= n
    <3>1. CASE m = 0
      BY <3>1
    <3>2. CASE m # 0
      <4>1. m \in 1 .. m
        BY <2>1, <3>2
      <4>2. m \in 1 .. n
        BY <2>1, <4>1
      <4> QED
        BY <4>2
    <3> QED
      BY <3>1, <3>2
  <2>3. n <= m
    <3>1. CASE n = 0
      BY <2>1, <3>1
    <3>2. CASE n # 0
      <4>1. n \in 1 .. n
        BY <3>2
      <4>2. n \in 1 .. m
        BY <2>1, <4>1
      <4> QED
        BY <4>2
    <3> QED
      BY <3>1, <3>2
  <2> QED
    BY <2>1, <2>2, <2>3 DEF m
<1> QED
  BY <1>1, <1>4

\* Every message the loop builds is one.
LEMMA MessagesAreMsg ==
  /\ \A n \in 1 .. MaxIds : User(n) \in Msg /\ Answer(n) \in Msg
  /\ \A n \in 1 .. MaxIds, w \in Reports : Result(n, w) \in Msg
  /\ \A ids \in Seq(1 .. MaxIds) : Request(ids) \in Msg
  /\ Summary \in Msg
  /\ ReplanNote \in Msg
<1>1. \A n \in 1 .. MaxIds : <<n>> \in Seq(1 .. MaxIds) /\ Len(<<n>>) = 1
  OBVIOUS
<1>2. <<>> \in Seq(1 .. MaxIds)
  OBVIOUS
<1>3. \A n \in 1 .. MaxIds : User(n) \in Msg
  BY <1>1 DEF User, Message, Msg, Roles
<1>4. \A n \in 1 .. MaxIds : Answer(n) \in Msg
  BY <1>1 DEF Answer, Message, Msg, Roles
<1>5. \A n \in 1 .. MaxIds, w \in Reports : Result(n, w) \in Msg
  BY <1>1 DEF Result, Message, Msg, Roles
<1>6. \A ids \in Seq(1 .. MaxIds) : Request(ids) \in Msg
  BY DEF Request, Message, Msg, Roles
<1>7. Summary \in Msg
  BY <1>2 DEF Summary, Message, Msg, Roles
<1>8. ReplanNote \in Msg
  BY <1>2 DEF ReplanNote, Message, Msg, Roles
<1> QED
  BY <1>3, <1>4, <1>5, <1>6, <1>7, <1>8

\* A slice, which may be empty.
LEMMA SliceFacts ==
  ASSUME NEW h \in Seq(Msg), NEW a \in 1 .. Len(h) + 1, NEW b \in Nat,
         a - 1 <= b, b <= Len(h)
  PROVE  /\ SubSeq(h, a, b) \in Seq(Msg)
         /\ Len(SubSeq(h, a, b)) = b - a + 1
         /\ \A i \in 1 .. b - a + 1 : SubSeq(h, a, b)[i] = h[i + a - 1]
<1>1. Len(h) \in Nat
  BY LenProperties
<1>2. \A i \in a .. b : h[i] \in Msg
  BY <1>1, ElementOfSeq
<1>3. a \in Int /\ b \in Int
  BY <1>1
<1>4. /\ SubSeq(h, a, b) \in Seq(Msg)
      /\ Len(SubSeq(h, a, b)) = IF a <= b THEN b - a + 1 ELSE 0
      /\ \A i \in 1 .. b - a + 1 : SubSeq(h, a, b)[i] = h[a + i - 1]
  BY <1>2, <1>3, SubSeqProperties
<1>5. Len(SubSeq(h, a, b)) = b - a + 1
  BY <1>1, <1>3, <1>4
<1>6. \A i \in 1 .. b - a + 1 : a + i - 1 = i + a - 1
  BY <1>3
<1> QED
  BY <1>4, <1>5, <1>6

\* What is sent of a history.
LEMMA ApiFacts ==
  ASSUME NEW h \in Seq(Msg)
  PROVE  /\ ApiMessages(h) \in Seq(Msg)
         /\ WellFormed(h) => WellFormed(ApiMessages(h))
<1> DEFINE g == ApiMessages(h)
<1>1. Len(h) \in Nat /\ DOMAIN h = 1 .. Len(h) /\ \A i \in 1 .. Len(h) : h[i] \in Msg
  BY MsgFacts
<1>2. g \in [1 .. Len(h) -> Msg]
  BY <1>1, MessagesAreMsg DEF ApiMessages
<1>3. g \in Seq(Msg) /\ Len(g) = Len(h)
  <2> HIDE DEF g
  <2> QED
    BY <1>1, <1>2, FunctionSeq
<1>4. \A i \in 1 .. Len(h) : SameKind(h[i], g[i])
  BY <1>1 DEF ApiMessages, SameKind, Summary, ReplanNote, Message
<1> QED
  BY <1>3, <1>4, SameRounds

\* A compression divides the messages and puts a summary in front of the rest.
LEMMA CompressionFacts ==
  ASSUME LoopAssumption, NEW h \in Seq(Msg), KeepFrom(h) > 1
  PROVE  /\ Archived(h) \in Seq(Msg)
         /\ Compressed(h) \in Seq(Msg)
         /\ Len(Archived(h)) = KeepFrom(h) - 1
         /\ Len(Compressed(h)) = Len(h) - KeepFrom(h) + 2
         /\ Compressed(h)[1] = Summary
         /\ \A i \in 1 .. Len(Archived(h)) : Archived(h)[i] = h[i]
         /\ \A i \in 1 .. Len(h) - KeepFrom(h) + 1 :
              Compressed(h)[i + 1] = h[i + KeepFrom(h) - 1]
         /\ KeepFrom(h) \in 2 .. Len(h)
         /\ h[KeepFrom(h)].role = "user"
<1> DEFINE a == KeepFrom(h)
           tail == SubSeq(h, a, Len(h))
<1>1. Len(h) \in Nat /\ DOMAIN h = 1 .. Len(h)
  BY LenProperties
<1>2. a # 1 => a \in DOMAIN h /\ h[a].role = "user"
  BY KeepFromFacts
<1>3. a > 1
  OBVIOUS
<1>4. a \in 2 .. Len(h) /\ h[a].role = "user"
  <2> HIDE DEF a
  <2> QED
    BY <1>1, <1>2, <1>3
<1>5. /\ tail \in Seq(Msg) /\ Len(tail) = Len(h) - a + 1
      /\ \A i \in 1 .. Len(h) - a + 1 : tail[i] = h[i + a - 1]
  <2> HIDE DEF a
  <2> QED
    BY <1>1, <1>4, SliceFacts
<1>6. /\ Archived(h) \in Seq(Msg) /\ Len(Archived(h)) = a - 1
      /\ \A i \in 1 .. a - 1 : Archived(h)[i] = h[i]
  <2>1. Archived(h) = SubSeq(h, 1, a - 1)
    BY DEF Archived
  <2> HIDE DEF a
  <2>2. /\ 1 \in 1 .. Len(h) + 1 /\ a - 1 \in Nat /\ 1 - 1 <= a - 1 /\ a - 1 <= Len(h)
        /\ (a - 1) - 1 + 1 = a - 1 /\ \A i \in 1 .. a - 1 : i + 1 - 1 = i
    BY <1>1, <1>4
  <2> DEFINE b == a - 1
  <2>3. b \in Nat /\ 1 - 1 <= b /\ b <= Len(h) /\ b - 1 + 1 = b
    BY <2>2
  <2> HIDE DEF b
  <2>4. /\ SubSeq(h, 1, b) \in Seq(Msg) /\ Len(SubSeq(h, 1, b)) = b - 1 + 1
        /\ \A i \in 1 .. b - 1 + 1 : SubSeq(h, 1, b)[i] = h[i + 1 - 1]
    BY <2>2, <2>3, SliceFacts
  <2> QED
    BY <2>1, <2>2, <2>3, <2>4 DEF b
<1>7. <<Summary>> \in Seq(Msg) /\ Len(<<Summary>>) = 1 /\ <<Summary>>[1] = Summary
  BY MessagesAreMsg
<1>8. Compressed(h) = <<Summary>> \o tail
  BY DEF Compressed
<1>9. /\ Compressed(h) \in Seq(Msg) /\ Len(Compressed(h)) = 1 + Len(tail)
      /\ \A i \in 1 .. 1 + Len(tail) :
           Compressed(h)[i] = IF i <= 1 THEN <<Summary>>[i] ELSE tail[i - 1]
  <2> HIDE DEF tail
  <2> QED
    BY <1>5, <1>7, <1>8, ConcatProperties
<1>10. Len(Compressed(h)) = Len(h) - a + 2 /\ Compressed(h)[1] = Summary
  <2> HIDE DEF a, tail
  <2> QED
    BY <1>1, <1>4, <1>5, <1>7, <1>9
<1>11. \A i \in 1 .. Len(h) - a + 1 : Compressed(h)[i + 1] = h[i + a - 1]
  <2> HIDE DEF a, tail
  <2> TAKE i \in 1 .. Len(h) - a + 1
  <2>1. i + 1 \in 1 .. 1 + Len(tail) /\ ~ (i + 1 <= 1) /\ (i + 1) - 1 = i
    BY <1>1, <1>4, <1>5
  <2> QED
    BY <1>5, <1>9, <2>1
<1> QED
  BY <1>4, <1>6, <1>9, <1>10, <1>11

-----------------------------------------------------------------------------
(* Identities.                                                             *)

\* The identities of a list are those of its messages.
LEMMA InIdentities ==
  ASSUME NEW h \in Seq(Msg)
  PROVE  /\ \A x : x \in Identities(h) <=> \E i \in 1 .. Len(h) : x \in ToSet(h[i].of)
         /\ Identities(h) \subseteq 1 .. MaxIds
<1>1. DOMAIN h = 1 .. Len(h)
  BY LenProperties
<1>2. \A x : x \in Identities(h) <=> \E i \in 1 .. Len(h) : x \in ToSet(h[i].of)
  BY <1>1 DEF Identities
<1>3. \A i \in 1 .. Len(h) : ToSet(h[i].of) \subseteq 1 .. MaxIds
  <2> TAKE i \in 1 .. Len(h)
  <2>1. h[i].of \in Seq(1 .. MaxIds) /\ DOMAIN h[i].of = 1 .. Len(h[i].of)
    BY MsgFacts
  <2>2. \A k \in 1 .. Len(h[i].of) : h[i].of[k] \in 1 .. MaxIds
    BY <2>1, ElementOfSeq
  <2> QED
    BY <2>1, <2>2 DEF ToSet
<1> QED
  BY <1>2, <1>3

\* Two lists have the identities of each.
LEMMA IdentitiesConcat ==
  ASSUME NEW s \in Seq(Msg), NEW t \in Seq(Msg)
  PROVE  Identities(s \o t) = Identities(s) \cup Identities(t)
<1> DEFINE u == s \o t
<1>1. /\ u \in Seq(Msg) /\ Len(u) = Len(s) + Len(t)
      /\ \A i \in 1 .. Len(s) + Len(t) :
           u[i] = IF i <= Len(s) THEN s[i] ELSE t[i - Len(s)]
  BY ConcatProperties
<1>2. Len(s) \in Nat /\ Len(t) \in Nat
  BY LenProperties
<1>3. ASSUME NEW x PROVE x \in Identities(u) <=> x \in Identities(s) \/ x \in Identities(t)
  <2> HIDE DEF u
  <2>1. ASSUME x \in Identities(u) PROVE x \in Identities(s) \/ x \in Identities(t)
    <3>1. PICK i \in 1 .. Len(u) : x \in ToSet(u[i].of)
      BY <1>1, <2>1, InIdentities
    <3>2. CASE i <= Len(s)
      BY <1>1, <1>2, <3>1, <3>2, InIdentities
    <3>3. CASE ~ (i <= Len(s))
      <4>1. i - Len(s) \in 1 .. Len(t) /\ u[i] = t[i - Len(s)]
        BY <1>1, <1>2, <3>1, <3>3
      <4> QED
        BY <3>1, <4>1, InIdentities
    <3> QED
      BY <3>2, <3>3
  <2>2. ASSUME x \in Identities(s) PROVE x \in Identities(u)
    <3>1. PICK i \in 1 .. Len(s) : x \in ToSet(s[i].of)
      BY <2>2, InIdentities
    <3>2. i \in 1 .. Len(u) /\ u[i] = s[i]
      BY <1>1, <1>2, <3>1
    <3> QED
      BY <1>1, <3>1, <3>2, InIdentities
  <2>3. ASSUME x \in Identities(t) PROVE x \in Identities(u)
    <3>1. PICK i \in 1 .. Len(t) : x \in ToSet(t[i].of)
      BY <2>3, InIdentities
    <3> DEFINE j == i + Len(s)
    <3>2. j \in 1 .. Len(s) + Len(t) /\ ~ (j <= Len(s)) /\ j - Len(s) = i
      BY <1>2, <3>1
    <3>3. u[j] = t[i]
      BY <1>1, <3>2
    <3> QED
      BY <1>1, <3>1, <3>2, <3>3, InIdentities
  <2> QED
    BY <2>1, <2>2, <2>3
<1> QED
  BY <1>3

\* A message adds its identities.
LEMMA IdentitiesAppend ==
  ASSUME NEW s \in Seq(Msg), NEW m \in Msg
  PROVE  Identities(Append(s, m)) = Identities(s) \cup ToSet(m.of)
<1>1. Append(s, m) = s \o <<m>>
  BY AppendIsConcat
<1>2. <<m>> \in Seq(Msg) /\ Len(<<m>>) = 1 /\ <<m>>[1] = m
  OBVIOUS
<1>3. Identities(<<m>>) = ToSet(m.of)
  <2> DEFINE o == <<m>>
  <2> HIDE DEF o
  <2>1. \A x : x \in Identities(o) <=> \E i \in 1 .. Len(o) : x \in ToSet(o[i].of)
    BY <1>2, InIdentities DEF o
  <2>2. Len(o) = 1 /\ o[1] = m
    BY <1>2 DEF o
  <2>3. \A i : i \in 1 .. 1 <=> i = 1
    OBVIOUS
  <2>4. \A x : x \in Identities(o) <=> x \in ToSet(m.of)
    BY <2>1, <2>2, <2>3
  <2>5. Identities(o) = ToSet(m.of)
    BY <2>4
  <2> QED
    BY <2>5 DEF o
<1> QED
  BY <1>1, <1>2, <1>3, IdentitiesConcat

\* Nothing with an identity is lost in a compression.
LEMMA IdentitiesCompressed ==
  ASSUME LoopAssumption, NEW h \in Seq(Msg), KeepFrom(h) > 1
  PROVE  Identities(Archived(h)) \cup Identities(Compressed(h)) = Identities(h)
<1> DEFINE a == KeepFrom(h)
           r == Archived(h)
           c == Compressed(h)
<1>1. /\ r \in Seq(Msg) /\ c \in Seq(Msg)
      /\ Len(r) = a - 1 /\ Len(c) = Len(h) - a + 2
      /\ c[1] = Summary
      /\ \A i \in 1 .. Len(r) : r[i] = h[i]
      /\ \A i \in 1 .. Len(h) - a + 1 : c[i + 1] = h[i + a - 1]
      /\ a \in 2 .. Len(h)
  BY CompressionFacts
<1>2. Len(h) \in Nat
  BY LenProperties
<1>3. ToSet(Summary.of) = {}
  BY DEF Summary, Message, ToSet
<1> HIDE DEF a, r, c
<1>4. ASSUME NEW x \in Identities(r) PROVE x \in Identities(h)
  <2>1. PICK i \in 1 .. Len(r) : x \in ToSet(r[i].of)
    BY <1>1, <1>4, InIdentities
  <2>2. i \in 1 .. Len(h) /\ r[i] = h[i]
    BY <1>1, <1>2
  <2> QED
    BY <2>1, <2>2, InIdentities
<1>5. ASSUME NEW x \in Identities(c) PROVE x \in Identities(h)
  <2>1. PICK i \in 1 .. Len(c) : x \in ToSet(c[i].of)
    BY <1>1, <1>5, InIdentities
  <2>2. i # 1
    BY <1>1, <1>3, <2>1
  <2>3. i - 1 \in 1 .. Len(h) - a + 1 /\ i - 1 + 1 = i /\ i - 1 + a - 1 \in 1 .. Len(h)
    BY <1>1, <1>2, <2>2
  <2>4. c[i] = h[i - 1 + a - 1]
    BY <1>1, <2>3
  <2> QED
    BY <2>1, <2>3, <2>4, InIdentities
<1>6. ASSUME NEW x \in Identities(h) PROVE x \in Identities(r) \cup Identities(c)
  <2>1. PICK i \in 1 .. Len(h) : x \in ToSet(h[i].of)
    BY <1>6, InIdentities
  <2>2. CASE i < a
    <3>1. i \in 1 .. Len(r) /\ r[i] = h[i]
      BY <1>1, <1>2, <2>2
    <3> QED
      BY <1>1, <2>1, <3>1, InIdentities
  <2>3. CASE ~ (i < a)
    <3> DEFINE j == i - a + 1
    <3>a. a \in Nat /\ i \in Nat /\ i <= Len(h) /\ a <= i
      BY <1>1, <1>2, <2>1, <2>3
    <3>1. j \in 1 .. Len(h) - a + 1 /\ j + a - 1 = i /\ j + 1 \in 1 .. Len(c)
      BY <1>1, <1>2, <3>a
    <3>2. c[j + 1] = h[i]
      <4> HIDE DEF j
      <4> QED
        BY <1>1, <3>1
    <3> QED
      BY <1>1, <2>1, <3>1, <3>2, InIdentities
  <2> QED
    BY <2>2, <2>3
<1>7. Identities(r) \cup Identities(c) = Identities(h)
  BY <1>4, <1>5, <1>6
<1> QED
  BY <1>7 DEF r, c

\* A new identity is none of those in use.
LEMMA FreshFacts ==
  ASSUME LoopAssumption, TypeInv
  PROVE  /\ Known \subseteq 1 .. MaxIds /\ KnownSaved \subseteq 1 .. MaxIds
         /\ Fresh \in Nat \ {0} /\ \A x \in Known : x < Fresh
         /\ NextIdentity \in Nat \ {0} /\ \A x \in KnownSaved : x < NextIdentity
<1>1. Known \in SUBSET (1 .. MaxIds) /\ KnownSaved \in SUBSET (1 .. MaxIds)
  BY InIdentities DEF TypeInv, Known, KnownSaved
<1>2. /\ Max({0} \cup Known) \in 0 .. MaxIds
      /\ \A x \in Known : x <= Max({0} \cup Known)
      /\ Max({0} \cup KnownSaved) \in 0 .. MaxIds
      /\ \A x \in KnownSaved : x <= Max({0} \cup KnownSaved)
  BY <1>1, MaxFacts
<1>3. {0} \cup Identities(history) \cup Identities(archive) = {0} \cup Known
  BY DEF Known
<1>4. /\ {0} \cup Identities(saved.history) \cup Identities(saved.archive)
           = {0} \cup KnownSaved
  BY DEF KnownSaved
<1>5. Fresh = 1 + Max({0} \cup Known) /\ NextIdentity = 1 + Max({0} \cup KnownSaved)
  BY <1>3, <1>4 DEF Fresh, NextIdentity
<1> DEFINE f == Max({0} \cup Known)
           n == Max({0} \cup KnownSaved)
<1> HIDE DEF f, n
<1>a. MaxIds \in Nat
  BY DEF LoopAssumption
<1>b. f \in 0 .. MaxIds /\ n \in 0 .. MaxIds
  BY <1>2 DEF f, n
<1>c. Fresh = 1 + f /\ NextIdentity = 1 + n
  BY <1>5 DEF f, n
<1>6. f \in Nat /\ n \in Nat /\ Fresh = 1 + f /\ NextIdentity = 1 + n
  BY <1>a, <1>b, <1>c
<1>7. (\A x \in Known : x \in Int /\ x <= f) /\ (\A x \in KnownSaved : x \in Int /\ x <= n)
  <2>1. (\A x \in Known : x <= f) /\ (\A x \in KnownSaved : x <= n)
    BY <1>2 DEF f, n
  <2> QED
    BY <1>1, <2>1
<1> QED
  BY <1>1, <1>6, <1>7

\* The identities of a new round.
LEMMA CallsFacts ==
  ASSUME LoopAssumption, TypeInv, NEW round \in Rounds, Fresh + Len(round) - 1 <= MaxIds
  PROVE  /\ round \in Seq(PlanItems) /\ Len(round) \in Nat \ {0}
         /\ DOMAIN round = 1 .. Len(round)
         /\ Calls(round) \in Seq(1 .. MaxIds) /\ Len(Calls(round)) = Len(round)
         /\ \A k \in 1 .. Len(round) : Calls(round)[k] = Fresh + k - 1
         /\ \A x \in ToSet(Calls(round)) : x >= Fresh
<1>1. PICK n \in 1 .. MaxRound : round \in [1 .. n -> PlanItems]
  BY DEF Rounds
<1>2. n \in Nat \ {0} /\ MaxIds \in Nat
  BY <1>1 DEF LoopAssumption
<1>3. round \in Seq(PlanItems) /\ Len(round) = n /\ DOMAIN round = 1 .. n
  BY <1>1, <1>2, FunctionSeq
<1>4. Fresh \in Nat \ {0}
  BY FreshFacts
<1>5. Calls(round) = [k \in 1 .. n |-> Fresh + k - 1]
  BY <1>3 DEF Calls
<1>6. \A k \in 1 .. n : Fresh + k - 1 \in 1 .. MaxIds /\ Fresh + k - 1 >= Fresh
  BY <1>2, <1>3, <1>4
<1>7. Calls(round) \in [1 .. n -> 1 .. MaxIds]
  BY <1>5, <1>6
<1>8. Calls(round) \in Seq(1 .. MaxIds) /\ Len(Calls(round)) = n
  BY <1>2, <1>7, FunctionSeq
<1>9. \A k \in 1 .. n : Calls(round)[k] = Fresh + k - 1
  BY <1>5
<1>10. ToSet(Calls(round)) = {Calls(round)[k] : k \in 1 .. n}
  BY <1>5 DEF ToSet
<1> QED
  BY <1>2, <1>3, <1>6, <1>8, <1>9, <1>10

\* The results of a round, after an approval or as far as they are missing.
LEMMA ResumedFacts ==
  ASSUME NEW paused \in Paused
  PROVE  /\ ResumedResults(paused) \in Seq(Msg)
         /\ Len(paused.calls) \in Nat /\ Len(ResumedResults(paused)) = Len(paused.calls)
         /\ \A k \in 1 .. Len(paused.calls) :
              /\ ResumedResults(paused)[k].role = "tool"
              /\ ResumedResults(paused)[k].of = <<paused.calls[k]>>
              /\ ResumedResults(paused)[k].what \notin Executed
              /\ paused.calls[k] \in ToSet(paused.calls)
<1>1. paused.calls \in Seq(1 .. MaxIds)
  BY DEF Paused
<1>2. /\ Len(paused.calls) \in Nat /\ DOMAIN paused.calls = 1 .. Len(paused.calls)
      /\ \A k \in 1 .. Len(paused.calls) : paused.calls[k] \in 1 .. MaxIds
  BY <1>1, LenProperties, ElementOfSeq
<1> DEFINE n == Len(paused.calls)
           r == ResumedResults(paused)
           w(k) == IF paused.calls[k] = paused.call THEN "decided" ELSE "skipped"
<1>3. r = [k \in 1 .. n |->
            Result(paused.calls[k],
                   IF paused.calls[k] = paused.call THEN "decided" ELSE "skipped")]
  BY <1>2 DEF ResumedResults
<1>4. ASSUME NEW k \in 1 .. n
      PROVE  /\ r[k] \in Msg /\ r[k].role = "tool" /\ r[k].of = <<paused.calls[k]>>
             /\ r[k].what \notin Executed
  <2>1. PICK x \in {"decided", "skipped"} : r[k] = Result(paused.calls[k], x)
    BY <1>3
  <2>2. x \in Reports /\ x \notin Executed
    BY DEF Reports, Executed
  <2> HIDE DEF r
  <2> QED
    BY <1>2, <2>1, <2>2, MessagesAreMsg DEF Result, Message
<1>5. r \in [1 .. n -> Msg]
  <2>1. DOMAIN r = 1 .. n /\ r = [k \in DOMAIN r |-> r[k]]
    BY <1>3
  <2> HIDE DEF r
  <2> QED
    BY <1>4, <2>1
<1>6. r \in Seq(Msg) /\ Len(r) = n
  <2> HIDE DEF r
  <2> QED
    BY <1>2, <1>5, FunctionSeq
<1>7. \A k \in 1 .. n : paused.calls[k] \in ToSet(paused.calls)
  BY <1>2 DEF ToSet
<1> QED
  BY <1>2, <1>4, <1>6, <1>7

\* The results that are missing, one per call.
LEMMA AwaitedFacts ==
  ASSUME NEW calls \in Seq(PlannedCall)
  PROVE  /\ Awaited(calls) \in Seq(Msg)
         /\ Len(calls) \in Nat /\ Len(Awaited(calls)) = Len(calls)
         /\ \A k \in 1 .. Len(calls) :
              /\ Awaited(calls)[k] = Result(calls[k].call, "refused")
              /\ calls[k] \in PlannedCall
<1>1. /\ Len(calls) \in Nat /\ DOMAIN calls = 1 .. Len(calls)
      /\ \A k \in 1 .. Len(calls) : calls[k] \in PlannedCall
  BY LenProperties, ElementOfSeq
<1> DEFINE n == Len(calls)
           r == Awaited(calls)
<1>2. r = [k \in 1 .. n |-> Result(calls[k].call, "refused")]
  BY <1>1 DEF Awaited
<1>3. \A k \in 1 .. n : Result(calls[k].call, "refused") \in Msg
  <2>1. "refused" \in Reports
    BY DEF Reports
  <2>2. \A k \in 1 .. n : calls[k].call \in 1 .. MaxIds
    BY <1>1 DEF PlannedCall
  <2> QED
    BY <2>1, <2>2, MessagesAreMsg
<1>4. r \in [1 .. n -> Msg]
  BY <1>2, <1>3
<1>5. r \in Seq(Msg) /\ Len(r) = n
  <2> HIDE DEF r
  <2> QED
    BY <1>1, <1>4, FunctionSeq
<1>6. \A k \in 1 .. n : r[k] = Result(calls[k].call, "refused")
  BY <1>2
<1> QED
  BY <1>1, <1>5, <1>6

\* When nothing is awaited, a list stands for itself.
LEMMA NothingAwaited ==
  /\ Awaited(<<>>) = <<>>
  /\ \A h \in Seq(Msg) : h \o Awaited(<<>>) = h
  /\ WellFormed(<<>>)
  /\ \A x : Truthful(<<>>, x)
  /\ <<>> \in Seq(Msg)
  /\ <<>> \in Seq(PlannedCall)
<1>1. Awaited(<<>>) = <<>>
  BY DEF Awaited
<1>2. \A h \in Seq(Msg) : h \o <<>> = h
  BY ConcatEmptySeq
<1>3. WellFormed(<<>>) /\ \A x : Truthful(<<>>, x)
  BY DEF WellFormed, Truthful
<1> QED
  BY <1>1, <1>2, <1>3

\* A list stays true with a true message.
LEMMA TruthfulFacts ==
  ASSUME NEW h \in Seq(Msg), NEW x, NEW m \in Msg
  PROVE  /\ Truthful(h, x) <=>
              \A i \in 1 .. Len(h) :
                h[i].role = "tool" => (h[i].what \in Executed <=> h[i].of[1] \in x)
         /\ Truthful(h, x) /\ (m.role = "tool" => (m.what \in Executed <=> m.of[1] \in x))
              => Truthful(Append(h, m), x)
<1>1. DOMAIN h = 1 .. Len(h) /\ Len(h) \in Nat
  BY LenProperties
<1> DEFINE g == Append(h, m)
<1>2. g \in Seq(Msg) /\ Len(g) = Len(h) + 1 /\ g[Len(h) + 1] = m
      /\ \A i \in 1 .. Len(h) : g[i] = h[i]
  BY AppendProperties
<1>3. DOMAIN g = 1 .. Len(h) + 1
  BY <1>2, LenProperties
<1>4. \A i \in DOMAIN g : i \in 1 .. Len(h) \/ i = Len(h) + 1
  BY <1>1, <1>3
<1>5. ASSUME Truthful(h, x), m.role = "tool" => (m.what \in Executed <=> m.of[1] \in x)
      PROVE  Truthful(g, x)
  <2> HIDE DEF g
  <2> QED
    BY <1>1, <1>2, <1>4, <1>5 DEF Truthful
<1> QED
  BY <1>1, <1>5 DEF Truthful

\* What no message reports may count as executed without making one untrue.
LEMMA TruthfulOfMore ==
  ASSUME NEW h, NEW x, NEW c, Truthful(h, x), Unreported(h, c)
  PROVE  Truthful(h, x \cup {c})
BY DEF Truthful, Unreported

\* Two true lists are one true list.
LEMMA TruthfulConcat ==
  ASSUME NEW s \in Seq(Msg), NEW t \in Seq(Msg), NEW x, Truthful(s, x), Truthful(t, x)
  PROVE  Truthful(s \o t, x)
<1> DEFINE u == s \o t
<1>1. /\ u \in Seq(Msg) /\ Len(u) = Len(s) + Len(t)
      /\ \A i \in 1 .. Len(s) + Len(t) :
           u[i] = IF i <= Len(s) THEN s[i] ELSE t[i - Len(s)]
  BY ConcatProperties
<1>2. /\ Len(s) \in Nat /\ Len(t) \in Nat /\ DOMAIN u = 1 .. Len(s) + Len(t)
      /\ DOMAIN s = 1 .. Len(s) /\ DOMAIN t = 1 .. Len(t)
  BY <1>1, LenProperties
<1> HIDE DEF u
<1>3. ASSUME NEW i \in DOMAIN u, u[i].role = "tool"
      PROVE  u[i].what \in Executed <=> u[i].of[1] \in x
  <2>1. CASE i <= Len(s)
    <3>1. i \in DOMAIN s /\ u[i] = s[i]
      BY <1>1, <1>2, <2>1
    <3> QED
      BY <1>3, <3>1 DEF Truthful
  <2>2. CASE ~ (i <= Len(s))
    <3> DEFINE j == i - Len(s)
    <3>1. j \in DOMAIN t /\ u[i] = t[j]
      BY <1>1, <1>2, <2>2
    <3> HIDE DEF j
    <3> QED
      BY <1>3, <3>1 DEF Truthful
  <2> QED
    BY <2>1, <2>2
<1>4. Truthful(u, x)
  BY <1>3 DEF Truthful
<1> QED
  BY <1>4 DEF u

\* An answer, a message of the user and a note break no round.
LEMMA AppendPlain ==
  ASSUME NEW h \in Seq(Msg), NEW m \in Msg, m.role \notin {"tool", "tool_calls"}, WellFormed(h)
  PROVE  WellFormed(Append(h, m))
<1> DEFINE g == Append(h, m)
<1>1. g \in Seq(Msg) /\ Len(g) = Len(h) + 1 /\ g[Len(h) + 1] = m
      /\ \A i \in 1 .. Len(h) : g[i] = h[i]
  BY AppendProperties
<1> HIDE DEF g
<1>2. WellFormed(g)
  BY <1>1, PlainLast
<1> QED
  BY <1>2 DEF g

\* A list and its last message.
LEMMA FrontFacts ==
  ASSUME NEW h \in Seq(Msg), h # <<>>
  PROVE  /\ Front(h) \in Seq(Msg) /\ Len(h) \in Nat \ {0} /\ Len(Front(h)) = Len(h) - 1
         /\ \A i \in 1 .. Len(h) - 1 : Front(h)[i] = h[i]
         /\ Last(h) = h[Len(h)]
<1> DEFINE m == Len(h) - 1
<1>1. Len(h) \in Nat \ {0} /\ m \in Nat
  BY EmptySeq, LenProperties
<1>2. /\ 1 \in 1 .. Len(h) + 1 /\ 1 - 1 <= m /\ m <= Len(h) /\ m - 1 + 1 = m
      /\ \A i \in 1 .. m : i + 1 - 1 = i
  BY <1>1
<1>3. Front(h) = SubSeq(h, 1, m)
  BY DEF Front
<1>4. /\ SubSeq(h, 1, m) \in Seq(Msg) /\ Len(SubSeq(h, 1, m)) = m - 1 + 1
      /\ \A i \in 1 .. m - 1 + 1 : SubSeq(h, 1, m)[i] = h[i + 1 - 1]
  <2> HIDE DEF m
  <2> QED
    BY <1>1, <1>2, SliceFacts
<1>5. Front(h) \in Seq(Msg) /\ Len(Front(h)) = m /\ \A i \in 1 .. m : Front(h)[i] = h[i]
  <2> HIDE DEF m
  <2> QED
    BY <1>1, <1>2, <1>3, <1>4
<1> QED
  BY <1>1, <1>5 DEF Last

\* A list ends in the message appended to it.
LEMMA FrontAppend ==
  ASSUME NEW h \in Seq(Msg), NEW m \in Msg
  PROVE  /\ Append(h, m) \in Seq(Msg) /\ Append(h, m) # <<>>
         /\ Front(Append(h, m)) = h
         /\ Last(Append(h, m)) = m
<1> DEFINE g == Append(h, m)
<1>1. g \in Seq(Msg) /\ g # <<>> /\ Len(g) = Len(h) + 1 /\ g[Len(h) + 1] = m
      /\ \A i \in 1 .. Len(h) : g[i] = h[i]
  BY AppendProperties
<1>2. Len(h) \in Nat
  BY LenProperties
<1> HIDE DEF g
<1>3. /\ Front(g) \in Seq(Msg) /\ Len(Front(g)) = Len(h)
      /\ \A i \in 1 .. Len(h) : Front(g)[i] = h[i]
      /\ Last(g) = m
  BY <1>1, <1>2, FrontFacts
<1>4. Front(g) = h
  BY <1>3, SeqEqual
<1> QED
  BY <1>1, <1>3, <1>4 DEF g

-----------------------------------------------------------------------------
(* A turn starts, ends or dies.                                            *)

\* A new registry has a new breaker.
LEMMA NewBreaker ==
  ASSUME LoopAssumption, failures' = [t \in Tools |-> 0], open' = {}
  PROVE  BreakerInv'
<1>1. \A t \in Tools : failures'[t] = 0 /\ ~ (0 >= FailureThreshold)
  BY DEF LoopAssumption
<1> QED
  BY <1>1 DEF BreakerInv, RestsAfterFailures

\* Between rounds no call waits.
LEMMA NoPlan ==
  ASSUME plan' = <<>>
  PROVE  PlanInv'
<1>1. DOMAIN plan' = {}
  OBVIOUS
<1> QED
  BY <1>1 DEF PlanInv

\* A turn starts with a history that is well-formed and true.
LEMMA StartsStep ==
  ASSUME LoopAssumption, LoopInv, pc = "idle", saved' = saved, ran' = ran,
         NEW h \in Seq(Msg), NEW at \in Nat, NEW hook, Starts(h, at, hook),
         KnownSaved \subseteq Identities(h) \cup Identities(saved.archive),
         Truthful(h, ran), WellFormed(h)
  PROVE  LoopInv'
<1>1. /\ history' = h /\ archive' = saved.archive /\ messages' = ApiMessages(h)
      /\ step' = at /\ plan' = <<>> /\ pc' \in {"prepare", "final"}
      /\ failures' = [t \in Tools |-> 0] /\ open' = {}
  BY DEF Starts
<1>2. TypeInv'
  BY <1>1, ApiFacts, NothingAwaited DEF TypeInv, LoopInv
<1>3. BreakerInv' /\ PlanInv'
  BY <1>1, NewBreaker, NoPlan
<1>4. KnownInv'
  <2>1. Known' = Identities(h) \cup Identities(saved.archive) /\ KnownSaved' = KnownSaved
    BY <1>1 DEF Known, KnownSaved
  <2>2. ran \subseteq KnownSaved
    BY DEF LoopInv, KnownInv
  <2> QED
    BY <1>1, <2>1, <2>2 DEF KnownInv
<1>5. PausedInv'
  BY DEF LoopInv, PausedInv
<1>6. TruthInv'
  BY <1>1 DEF LoopInv, TruthInv
<1>7. RoundsInv'
  <2>1. CheckpointIsResumable'
    BY DEF LoopInv, RoundsInv, CheckpointIsResumable
  <2>2. ApiMessages(h) \in Seq(Msg) /\ WellFormed(ApiMessages(h))
    BY ApiFacts
  <2>3. history' \o Awaited(plan') = h /\ messages' \o Awaited(plan') = ApiMessages(h)
    BY <1>1, <2>2, NothingAwaited
  <2> QED
    BY <2>1, <2>2, <2>3 DEF RoundsInv
<1> QED
  BY <1>2, <1>3, <1>4, <1>5, <1>6, <1>7 DEF LoopInv

\* The memory of the agent is gone.
LEMMA EmptyMemoryFacts ==
  ASSUME LoopAssumption, EmptyMemory, pc' = "idle"
  PROVE  /\ history' \in Seq(Msg) /\ archive' \in Seq(Msg) /\ messages' \in Seq(Msg)
         /\ step' \in Nat /\ plan' = <<>> /\ plan' \in Seq(PlannedCall)
         /\ BreakerInv' /\ PlanInv'
         /\ \A x : Truthful(history', x) /\ Truthful(archive', x)
         /\ WellFormed(history' \o Awaited(plan'))
         /\ WellFormed(messages' \o Awaited(plan'))
<1>1. /\ history' = <<>> /\ archive' = <<>> /\ messages' = <<>> /\ plan' = <<>>
      /\ step' = 0 /\ failures' = [t \in Tools |-> 0] /\ open' = {}
  BY DEF EmptyMemory
<1>2. BreakerInv' /\ PlanInv'
  BY <1>1, NewBreaker, NoPlan
<1>3. history' \o Awaited(plan') = <<>> /\ messages' \o Awaited(plan') = <<>>
  BY <1>1, NothingAwaited
<1> QED
  BY <1>1, <1>2, <1>3, NothingAwaited

\* A turn that ends saves what can be resumed.
LEMMA SavesStep ==
  ASSUME LoopAssumption, LoopInv, pc # "idle",
         NEW h \in Seq(Msg), NEW paused \in {None} \cup Paused, Saves(h, paused),
         Known \subseteq Identities(h) \cup Identities(archive),
         Truthful(h, ran),
         paused # None =>
           /\ ran \cap ToSet(paused.calls) = {}
           /\ \A i \in 1 .. Len(h) - 1 : ToSet(h[i].of) \cap ToSet(paused.calls) = {},
         IF paused = None THEN WellFormed(h)
         ELSE /\ h # <<>> /\ WellFormed(Front(h))
              /\ Last(h) = Request(paused.calls) /\ paused.call \in ToSet(paused.calls)
  PROVE  LoopInv'
<1>1. /\ saved' = [history |-> h, archive |-> archive, paused |-> paused]
      /\ pc' = "idle" /\ EmptyMemory /\ ran' = ran
  BY DEF Saves, Checkpoint
<1>2. saved'.history = h /\ saved'.archive = archive /\ saved'.paused = paused
  BY <1>1
<1>3. TypeInv'
  BY <1>1, EmptyMemoryFacts DEF TypeInv, LoopInv
<1>4. BreakerInv' /\ PlanInv'
  BY <1>1, EmptyMemoryFacts
<1>5. KnownInv'
  <2>1. KnownSaved' = Identities(h) \cup Identities(archive)
    BY <1>2 DEF KnownSaved
  <2> QED
    BY <1>1, <2>1 DEF KnownInv, LoopInv
<1>6. PausedInv'
  BY <1>1, <1>2 DEF PausedInv
<1>7. TruthInv'
  <2>1. Truthful(archive, ran)
    BY DEF LoopInv, TruthInv
  <2> QED
    BY <1>1, <1>2, <2>1, EmptyMemoryFacts DEF TruthInv
<1>8. RoundsInv'
  <2>1. CheckpointIsResumable'
    BY <1>2 DEF CheckpointIsResumable
  <2> QED
    BY <1>1, <2>1, EmptyMemoryFacts DEF RoundsInv
<1> QED
  BY <1>3, <1>4, <1>5, <1>6, <1>7, <1>8 DEF LoopInv

\* Raise and OutOfIds.
LEMMA AbortStep ==
  ASSUME LoopAssumption, LoopInv, pc' = "idle", EmptyMemory, saved' = saved,
         ran' = ran \cap KnownSaved
  PROVE  LoopInv'
<1>1. TypeInv'
  BY EmptyMemoryFacts DEF TypeInv, LoopInv
<1>2. BreakerInv' /\ PlanInv'
  BY EmptyMemoryFacts
<1>3. KnownInv'
  BY DEF KnownInv, KnownSaved
<1>4. PausedInv'
  BY DEF LoopInv, PausedInv
<1>5. TruthInv'
  <2>1. ASSUME NEW h \in {saved.history, saved.archive}
        PROVE  Truthful(h, ran \cap KnownSaved)
    <3>1. h \in Seq(Msg) /\ Truthful(h, ran) /\ Identities(h) \subseteq KnownSaved
      BY DEF LoopInv, TypeInv, TruthInv, KnownSaved
    <3>2. \A i \in 1 .. Len(h) : h[i].role = "tool" => h[i].of[1] \in ToSet(h[i].of)
      <4> TAKE i \in 1 .. Len(h)
      <4>1. /\ h[i].role = "tool" => Len(h[i].of) = 1
            /\ DOMAIN h[i].of = 1 .. Len(h[i].of)
        BY <3>1, MsgFacts DEF Msg
      <4> QED
        BY <4>1 DEF ToSet
    <3>3. \A i \in 1 .. Len(h) : h[i].role = "tool" => h[i].of[1] \in KnownSaved
      BY <3>1, <3>2, InIdentities
    <3>4. DOMAIN h = 1 .. Len(h)
      BY <3>1, LenProperties
    <3> QED
      BY <3>1, <3>3, <3>4 DEF Truthful
  <2> QED
    BY <2>1, EmptyMemoryFacts DEF TruthInv
<1>6. RoundsInv'
  <2>1. CheckpointIsResumable'
    BY DEF LoopInv, RoundsInv, CheckpointIsResumable
  <2> QED
    BY <2>1, EmptyMemoryFacts DEF RoundsInv
<1> QED
  BY <1>1, <1>2, <1>3, <1>4, <1>5, <1>6 DEF LoopInv

\* run keeps the invariant.
LEMMA RunStep ==
  ASSUME LoopAssumption, LoopInv, Run
  PROVE  LoopInv'
<1> DEFINE m == User(NextIdentity)
           h == Append(saved.history, m)
<1>1. /\ pc = "idle" /\ saved.paused = None /\ NextIdentity <= MaxIds
      /\ Starts(h, 1, TRUE) /\ saved' = saved /\ ran' = ran
  BY DEF Run
<1>2. saved.history \in Seq(Msg) /\ TypeInv
  BY DEF LoopInv, TypeInv
<1>3. NextIdentity \in 1 .. MaxIds
  BY <1>1, <1>2, FreshFacts DEF LoopAssumption
<1>4. m \in Msg /\ m.role = "user"
  BY <1>3, MessagesAreMsg DEF User, Message
<1> HIDE DEF m
<1>5. h \in Seq(Msg)
  BY <1>2, <1>4, AppendProperties
<1>6. KnownSaved \subseteq Identities(h) \cup Identities(saved.archive)
  BY <1>2, <1>4, IdentitiesAppend DEF KnownSaved
<1>7. Truthful(h, ran)
  BY <1>2, <1>4, TruthfulFacts DEF LoopInv, TruthInv
<1>8. WellFormed(h)
  <2>1. WellFormed(saved.history)
    BY <1>1 DEF LoopInv, RoundsInv, CheckpointIsResumable
  <2> QED
    BY <1>2, <1>4, <2>1, AppendPlain
<1> HIDE DEF h
<1> QED
  BY <1>1, <1>5, <1>6, <1>7, <1>8, StartsStep

\* approve and deny: the results that were missing complete the round.
LEMMA ResumeStep ==
  ASSUME LoopAssumption, LoopInv, Resume
  PROVE  LoopInv'
<1>1. PICK p \in Paused : p = saved.paused
  BY DEF Resume, LoopInv, TypeInv
<1>0. PICK s \in Seq(Msg) : s = saved.history
  BY DEF LoopInv, TypeInv
<1> DEFINE r == ResumedResults(p)
           h == s \o r
<1>2. /\ pc = "idle" /\ saved.paused # None /\ Starts(h, p.step + 1, FALSE)
      /\ saved' = saved /\ ran' = ran
  BY <1>0, <1>1 DEF Resume
<1>3. /\ s \in Seq(Msg) /\ s # <<>> /\ WellFormed(Front(s)) /\ Last(s) = Request(p.calls)
      /\ Truthful(s, ran) /\ ran \cap ToSet(p.calls) = {}
  BY <1>0, <1>1, <1>2
     DEF LoopInv, TypeInv, RoundsInv, CheckpointIsResumable, TruthInv, PausedInv
<1>4. /\ r \in Seq(Msg) /\ Len(p.calls) \in Nat /\ Len(r) = Len(p.calls)
      /\ \A k \in 1 .. Len(p.calls) :
           /\ r[k].role = "tool" /\ r[k].of = <<p.calls[k]>>
           /\ r[k].what \notin Executed /\ p.calls[k] \in ToSet(p.calls)
  BY ResumedFacts
<1> HIDE DEF r
<1>5. /\ h \in Seq(Msg) /\ Len(h) = Len(s) + Len(r)
      /\ \A i \in 1 .. Len(s) + Len(r) : h[i] = IF i <= Len(s) THEN s[i] ELSE r[i - Len(s)]
  <2>1. r \in Seq(Msg)
    BY <1>4
  <2> QED
    BY <2>1, ConcatProperties
<1>6. KnownSaved \subseteq Identities(h) \cup Identities(saved.archive)
  BY <1>0, <1>4, IdentitiesConcat DEF KnownSaved
<1>7. Truthful(h, ran)
  <2>1. \A k \in 1 .. Len(r) : r[k].what \notin Executed /\ r[k].of[1] \notin ran
    BY <1>3, <1>4
  <2>2. Truthful(r, ran)
    BY <1>4, <2>1, LenProperties DEF Truthful
  <2> QED
    BY <1>3, <1>4, <2>2, TruthfulConcat
<1>8. WellFormed(h)
  <2> DEFINE f == Front(s)
             n == Len(p.calls)
  <2>1. /\ f \in Seq(Msg) /\ Len(s) \in Nat \ {0} /\ Len(f) = Len(s) - 1
        /\ \A i \in 1 .. Len(s) - 1 : f[i] = s[i]
        /\ s[Len(s)] = Request(p.calls)
    BY <1>3, FrontFacts
  <2>2. Request(p.calls).role = "tool_calls" /\ Request(p.calls).of = p.calls
    BY DEF Request, Message
  <2> HIDE DEF f, h
  <2>3. n \in Nat /\ Len(h) = Len(f) + 1 + n
    BY <1>4, <1>5, <2>1
  <2>7. \A i \in 1 .. Len(f) : h[i] = f[i]
    BY <1>4, <1>5, <2>1
  <2>4. h[Len(f) + 1] = Request(p.calls)
    BY <1>4, <1>5, <2>1
  <2>5. ASSUME NEW k \in 1 .. n PROVE h[Len(f) + 1 + k] = r[k]
    <3>1. Len(f) + 1 + k = Len(s) + k /\ Len(s) + k \in 1 .. Len(s) + Len(r)
          /\ ~ (Len(s) + k <= Len(s)) /\ Len(s) + k - Len(s) = k
      BY <1>4, <2>1
    <3> QED
      BY <1>5, <3>1
  <2>6. WellFormed(f)
    BY <1>3 DEF f
  <2>8. h[Len(f) + 1].role = "tool_calls" /\ Len(h[Len(f) + 1].of) = n
    BY <2>2, <2>4
  <2>9. \A k \in 1 .. n : /\ h[Len(f) + 1 + k].role = "tool"
                           /\ h[Len(f) + 1 + k].of = <<h[Len(f) + 1].of[k]>>
    BY <1>4, <2>2, <2>4, <2>5
  <2> QED
    BY <1>5, <2>1, <2>3, <2>6, <2>7, <2>8, <2>9, RoundLast
<1>9. p.step + 1 \in Nat
  BY DEF Paused
<1> HIDE DEF h
<1> QED
  BY <1>2, <1>5, <1>6, <1>7, <1>8, <1>9, StartsStep

\* An answer, in a turn or when no steps are left.
LEMMA AnswerStep ==
  ASSUME LoopAssumption, LoopInv, pc \in {"model", "final"}, Fresh <= MaxIds,
         Saves(Append(history, Answer(Fresh)), None)
  PROVE  LoopInv'
<1> DEFINE m == Answer(Fresh)
           h == Append(history, m)
<1>1. TypeInv /\ history \in Seq(Msg) /\ plan = <<>> /\ pc # "idle"
  BY DEF LoopInv, TypeInv
<1>2. Fresh \in 1 .. MaxIds
  BY <1>1, FreshFacts DEF LoopAssumption
<1>3. m \in Msg /\ m.role = "assistant"
  BY <1>2, MessagesAreMsg DEF Answer, Message
<1> HIDE DEF m
<1>4. h \in Seq(Msg)
  BY <1>1, <1>3, AppendProperties
<1>5. Known \subseteq Identities(h) \cup Identities(archive)
  BY <1>1, <1>3, IdentitiesAppend DEF Known
<1>6. Truthful(h, ran)
  BY <1>1, <1>3, TruthfulFacts DEF LoopInv, TruthInv
<1>7. WellFormed(h)
  <2>1. WellFormed(history)
    BY <1>1, NothingAwaited DEF LoopInv, RoundsInv
  <2> QED
    BY <1>1, <1>3, <2>1, AppendPlain
<1>8. Saves(h, None)
  BY DEF m
<1> HIDE DEF h
<1> QED
  BY <1>1, <1>4, <1>5, <1>6, <1>7, <1>8, SavesStep

-----------------------------------------------------------------------------
(* The steps of a turn.                                                    *)

\* New calls have identities no message has.
LEMMA CallsAreNew ==
  ASSUME LoopAssumption, TypeInv, NEW round \in Rounds, Fresh + Len(round) - 1 <= MaxIds
  PROVE  ToSet(Calls(round)) \cap Known = {}
<1>1. /\ Known \subseteq 1 .. MaxIds /\ Fresh \in Nat /\ \A x \in Known : x < Fresh
  BY FreshFacts
<1>2. \A x \in ToSet(Calls(round)) : x >= Fresh
  BY CallsFacts
<1>3. ASSUME NEW x \in Known, x \in ToSet(Calls(round)) PROVE FALSE
  <2>1. x \in Int /\ x < Fresh
    BY <1>1
  <2>2. x >= Fresh
    BY <1>2, <1>3
  <2> QED
    BY <1>1, <2>1, <2>2
<1> QED
  BY <1>3

\* A question is saved with its round as the last message.
LEMMA PauseStep ==
  ASSUME LoopAssumption, LoopInv, NEW round \in Rounds, Pause(round)
  PROVE  LoopInv'
<1>1. /\ pc = "model" /\ Fresh + Len(round) - 1 <= MaxIds
      /\ Cardinality(Questions(round)) = 1
  BY DEF Pause, PausedRound
<1>2. TypeInv /\ history \in Seq(Msg) /\ plan = <<>> /\ step \in Nat
  BY <1>1 DEF LoopInv, TypeInv
<1> DEFINE calls == Calls(round)
           q == CHOOSE k \in Questions(round) : TRUE
           p == [call |-> calls[q], calls |-> calls, step |-> step]
           m == Request(calls)
           h == Append(history, m)
<1>3. /\ calls \in Seq(1 .. MaxIds) /\ DOMAIN round = 1 .. Len(round)
      /\ Len(calls) = Len(round) /\ DOMAIN calls = 1 .. Len(round)
  BY <1>1, <1>2, CallsFacts, LenProperties
<1>4. q \in 1 .. Len(round)
  <2>1. Questions(round) # {}
    <3>1. Questions(round) = {} => Cardinality(Questions(round)) = 0
      BY FS_EmptySet, Zenon
    <3> QED
      BY <1>1, <3>1
  <2> QED
    BY <1>3, <2>1 DEF Questions
<1>5. ToSet(calls) \cap Known = {}
  BY <1>1, <1>2, CallsAreNew
<1>6. Saves(h, p)
  BY DEF Pause, PausedRound
<1> HIDE DEF calls, q
<1>7. calls[q] \in 1 .. MaxIds /\ calls[q] \in ToSet(calls)
  BY <1>3, <1>4, ElementOfSeq DEF ToSet
<1>8. p \in Paused
  BY <1>2, <1>3, <1>7 DEF Paused
<1>9. p # None
  <2>1. calls \in Seq(Nat) /\ calls[q] \in Nat
    BY <1>3, <1>7, SeqMonotonic
  <2>2. p \in [call : Nat, calls : Seq(Nat), step : Nat]
    BY <1>2, <2>1
  <2> QED
    BY <2>2 DEF LoopAssumption
<1>10. p.calls = calls /\ p.call = calls[q]
  OBVIOUS
<1> HIDE DEF p
<1>11. m \in Msg /\ m.role = "tool_calls" /\ ToSet(m.of) = ToSet(calls)
  BY <1>3, MessagesAreMsg DEF Request, Message
<1> HIDE DEF m
<1>12. h \in Seq(Msg) /\ h # <<>> /\ Front(h) = history /\ Last(h) = m
  BY <1>2, <1>11, FrontAppend
<1>13. Known \subseteq Identities(h) \cup Identities(archive)
  BY <1>2, <1>11, IdentitiesAppend DEF Known
<1>14. Truthful(h, ran)
  BY <1>2, <1>11, TruthfulFacts DEF LoopInv, TruthInv
<1>15. ran \cap ToSet(p.calls) = {}
  BY <1>1, <1>5, <1>10 DEF LoopInv, KnownInv
<1>16. \A i \in 1 .. Len(h) - 1 : ToSet(h[i].of) \cap ToSet(p.calls) = {}
  <2>1. Len(history) \in Nat /\ Len(h) = Len(history) + 1
        /\ \A i \in 1 .. Len(history) : h[i] = history[i]
    BY <1>2, <1>11, AppendProperties, LenProperties
  <2> HIDE DEF h
  <2>2. \A i \in 1 .. Len(history) : ToSet(history[i].of) \subseteq Known
    BY <1>2, InIdentities DEF Known
  <2> QED
    BY <1>5, <1>10, <2>1, <2>2
<1>17. WellFormed(history)
  BY <1>2, NothingAwaited DEF LoopInv, RoundsInv
<1> HIDE DEF h
<1>18. m = Request(p.calls)
  BY <1>10 DEF m
<1> QED
  BY <1>1, <1>6, <1>7, <1>8, <1>9, <1>10, <1>12, <1>13, <1>14, <1>15, <1>16, <1>17,
     <1>18, SavesStep

\* A compression starts at a message of the user: no round is divided.
LEMMA CompressionKeeps ==
  ASSUME LoopAssumption, NEW h \in Seq(Msg), KeepFrom(h) > 1
  PROVE  /\ WellFormed(h) => WellFormed(Compressed(h))
         /\ \A x : Truthful(h, x) => Truthful(Archived(h), x) /\ Truthful(Compressed(h), x)
<1> DEFINE a == KeepFrom(h)
           r == Archived(h)
           c == Compressed(h)
           tail == SubSeq(h, a, Len(h))
<1>1. /\ r \in Seq(Msg) /\ c \in Seq(Msg)
      /\ Len(r) = a - 1 /\ Len(c) = Len(h) - a + 2
      /\ c[1] = Summary
      /\ \A i \in 1 .. Len(r) : r[i] = h[i]
      /\ \A i \in 1 .. Len(h) - a + 1 : c[i + 1] = h[i + a - 1]
      /\ a \in 2 .. Len(h) /\ h[a].role = "user"
  BY CompressionFacts
<1>2. Len(h) \in Nat /\ DOMAIN h = 1 .. Len(h)
  BY LenProperties
<1>3. DOMAIN r = 1 .. Len(r) /\ DOMAIN c = 1 .. Len(c)
  <2> HIDE DEF r, c
  <2> QED
    BY <1>1, LenProperties
<1>4. Summary.role = "summary"
  BY DEF Summary, Message
<1> HIDE DEF a, r, c
<1>5. /\ tail \in Seq(Msg) /\ Len(tail) = Len(h) - a + 1
      /\ \A i \in 1 .. Len(h) - a + 1 : tail[i] = h[i + a - 1]
  BY <1>1, <1>2, SliceFacts
<1> HIDE DEF tail
<1>6. ASSUME WellFormed(h) PROVE WellFormed(c)
  <2>1. WellFormed(tail)
    <3>1. /\ a \in 1 .. Len(h) /\ Len(tail) = Len(h) - a + 1
          /\ \A i \in 1 .. Len(tail) : tail[i] = h[i + a - 1]
          /\ h[a].role \notin {"tool", "tool_calls"}
      BY <1>1, <1>2, <1>5
    <3> QED
      BY <1>5, <1>6, <3>1, Suffix
  <2>2. Len(c) = Len(tail) + 1
    BY <1>1, <1>2, <1>5
  <2>3. ASSUME NEW i \in 1 .. Len(tail) PROVE c[i + 1] = tail[i]
    <3>1. i \in 1 .. Len(h) - a + 1
      BY <1>5
    <3> QED
      BY <1>1, <1>5, <3>1
  <2> QED
    BY <1>1, <1>4, <1>5, <2>1, <2>2, <2>3, PlainFirst
<1>7. ASSUME NEW x, Truthful(h, x) PROVE Truthful(r, x)
  <2>1. \A i \in DOMAIN r : i \in DOMAIN h /\ r[i] = h[i]
    BY <1>1, <1>2, <1>3
  <2> QED
    BY <1>7, <2>1 DEF Truthful
<1>8. ASSUME NEW x, Truthful(h, x) PROVE Truthful(c, x)
  <2>1. ASSUME NEW i \in DOMAIN c PROVE i = 1 \/ \E j \in DOMAIN h : c[i] = h[j]
    <3>1. CASE i # 1
      <4>1. i - 1 \in 1 .. Len(h) - a + 1 /\ i - 1 + 1 = i
            /\ i - 1 + a - 1 \in DOMAIN h
        BY <1>1, <1>2, <1>3, <3>1
      <4> QED
        BY <1>1, <4>1
    <3> QED
      BY <3>1
  <2> QED
    BY <1>1, <1>4, <1>8, <2>1 DEF Truthful
<1> QED
  BY <1>6, <1>7, <1>8 DEF r, c

\* A compression inside a turn keeps the invariant.
LEMMA CompressStep ==
  ASSUME LoopAssumption, LoopInv, Compress
  PROVE  LoopInv'
<1>1. PICK h \in Seq(Msg) : h = history
  BY DEF LoopInv, TypeInv
<1> DEFINE c == Compressed(h)
           r == Archived(h)
<1>2. /\ pc = "prepare" /\ KeepFrom(h) > 1 /\ archive' = archive \o r /\ history' = c
      /\ messages' = ApiMessages(c) /\ pc' = "model" /\ saved' = saved /\ step' = step
      /\ plan' = plan /\ failures' = failures /\ open' = open /\ ran' = ran
  BY <1>1 DEF Compress
<1>3. TypeInv /\ archive \in Seq(Msg) /\ plan = <<>>
  BY <1>2 DEF LoopInv, TypeInv
<1>4. r \in Seq(Msg) /\ c \in Seq(Msg) /\ Identities(r) \cup Identities(c) = Identities(h)
  BY <1>2, CompressionFacts, IdentitiesCompressed
<1>5. /\ WellFormed(h) => WellFormed(c)
      /\ Truthful(h, ran) => Truthful(r, ran) /\ Truthful(c, ran)
  BY <1>2, CompressionKeeps
<1> HIDE DEF c, r
<1>6. archive \o r \in Seq(Msg) /\ Identities(archive \o r) = Identities(archive) \cup Identities(r)
  <2>1. r \in Seq(Msg)
    BY <1>4
  <2> QED
    BY <1>3, <2>1, ConcatProperties, IdentitiesConcat
<1>7. ApiMessages(c) \in Seq(Msg) /\ (WellFormed(c) => WellFormed(ApiMessages(c)))
  BY <1>4, ApiFacts
<1>8. TypeInv'
  BY <1>2, <1>3, <1>4, <1>6, <1>7 DEF TypeInv
<1>9. BreakerInv'
  BY <1>2 DEF LoopInv, BreakerInv, RestsAfterFailures
<1>10. PlanInv'
  BY <1>2, <1>3, NoPlan
<1>11. KnownInv' /\ PausedInv'
  <2>1. Known' = Known /\ KnownSaved' = KnownSaved
    BY <1>1, <1>2, <1>4, <1>6 DEF Known, KnownSaved
  <2> QED
    BY <1>2, <2>1 DEF LoopInv, KnownInv, PausedInv
<1>12. TruthInv'
  <2>1. Truthful(h, ran) /\ Truthful(archive, ran)
    BY <1>1 DEF LoopInv, TruthInv
  <2>2. Truthful(archive \o r, ran)
    BY <1>3, <1>4, <1>5, <2>1, TruthfulConcat
  <2> QED
    BY <1>2, <1>5, <2>1, <2>2 DEF LoopInv, TruthInv
<1>13. RoundsInv'
  <2>1. WellFormed(h)
    BY <1>1, <1>3, NothingAwaited DEF LoopInv, RoundsInv
  <2>2. history' \o Awaited(plan') = c /\ messages' \o Awaited(plan') = ApiMessages(c)
    BY <1>2, <1>3, <1>4, <1>7, NothingAwaited
  <2>3. CheckpointIsResumable'
    BY <1>2 DEF LoopInv, RoundsInv, CheckpointIsResumable
  <2> QED
    BY <1>5, <1>7, <2>1, <2>2, <2>3 DEF RoundsInv
<1> QED
  BY <1>8, <1>9, <1>10, <1>11, <1>12, <1>13 DEF LoopInv

\* Steps that only move on, or add a plain message for the model.
LEMMA PlainStep ==
  ASSUME LoopAssumption, LoopInv, plan = <<>>, pc # "idle",
         pc' \in {"prepare", "model", "final"}, step' \in Nat,
         messages' = messages \/ messages' = Append(messages, ReplanNote),
         UNCHANGED <<saved, history, archive, plan, failures, open, ran>>
  PROVE  LoopInv'
<1>1. TypeInv /\ messages \in Seq(Msg)
  BY DEF LoopInv, TypeInv
<1>2. ReplanNote \in Msg /\ ReplanNote.role = "system"
  BY MessagesAreMsg DEF ReplanNote, Message
<1>3. WellFormed(messages)
  BY <1>1, NothingAwaited DEF LoopInv, RoundsInv
<1>4. messages' \in Seq(Msg) /\ WellFormed(messages')
  <2>1. Append(messages, ReplanNote) \in Seq(Msg)
    BY <1>1, <1>2, AppendProperties
  <2>2. WellFormed(Append(messages, ReplanNote))
    BY <1>1, <1>2, <1>3, AppendPlain
  <2> QED
    BY <1>1, <1>3, <2>1, <2>2
<1>5. TypeInv'
  BY <1>1, <1>4 DEF TypeInv
<1>6. BreakerInv'
  BY DEF LoopInv, BreakerInv, RestsAfterFailures
<1>7. PlanInv'
  BY NoPlan
<1>8. KnownInv' /\ PausedInv' /\ TruthInv'
  BY DEF LoopInv, KnownInv, PausedInv, TruthInv, Known, KnownSaved
<1>9. RoundsInv'
  <2>1. messages' \o Awaited(plan') = messages'
    BY <1>4, NothingAwaited
  <2> QED
    BY <1>4, <2>1 DEF LoopInv, RoundsInv, CheckpointIsResumable
<1> QED
  BY <1>5, <1>6, <1>7, <1>8, <1>9 DEF LoopInv

-----------------------------------------------------------------------------
(* A round.                                                                *)

\* A new round is well-formed with the results it awaits.
LEMMA RoundStarted ==
  ASSUME NEW s \in Seq(Msg), WellFormed(s), NEW ids \in Seq(1 .. MaxIds),
         NEW calls \in Seq(PlannedCall), Len(calls) = Len(ids),
         \A k \in 1 .. Len(ids) : calls[k].call = ids[k]
  PROVE  WellFormed(Append(s, Request(ids)) \o Awaited(calls))
<1> DEFINE m == Request(ids)
           g == Append(s, m)
           w == Awaited(calls)
           t == g \o w
           n == Len(ids)
<1>1. m \in Msg /\ m.role = "tool_calls" /\ m.of = ids
  BY MessagesAreMsg DEF Request, Message
<1>2. Len(s) \in Nat /\ n \in Nat
  BY LenProperties
<1> HIDE DEF m
<1>3. /\ g \in Seq(Msg) /\ Len(g) = Len(s) + 1 /\ g[Len(s) + 1] = m
      /\ \A i \in 1 .. Len(s) : g[i] = s[i]
  BY <1>1, AppendProperties
<1>4. w \in Seq(Msg) /\ Len(w) = n /\ \A k \in 1 .. n : w[k] = Result(ids[k], "refused")
  BY AwaitedFacts
<1> HIDE DEF g, w
<1>5. /\ t \in Seq(Msg) /\ Len(t) = Len(g) + Len(w)
      /\ \A i \in 1 .. Len(g) + Len(w) : t[i] = IF i <= Len(g) THEN g[i] ELSE w[i - Len(g)]
  <2>1. g \in Seq(Msg) /\ w \in Seq(Msg)
    BY <1>3, <1>4
  <2> QED
    BY <2>1, ConcatProperties
<1> HIDE DEF t, n
<1>6. Len(t) = Len(s) + 1 + n /\ \A i \in 1 .. Len(s) : t[i] = s[i]
  BY <1>2, <1>3, <1>4, <1>5
<1>7. t[Len(s) + 1] = m
  BY <1>2, <1>3, <1>4, <1>5
<1>8. ASSUME NEW k \in 1 .. n
      PROVE  t[Len(s) + 1 + k].role = "tool" /\ t[Len(s) + 1 + k].of = <<ids[k]>>
  <2>1. /\ Len(s) + 1 + k \in 1 .. Len(g) + Len(w) /\ ~ (Len(s) + 1 + k <= Len(g))
        /\ Len(s) + 1 + k - Len(g) = k
    BY <1>2, <1>3, <1>4
  <2>2. t[Len(s) + 1 + k] = w[k]
    BY <1>5, <2>1
  <2> QED
    BY <1>4, <2>2 DEF Result, Message
<1>9. t[Len(s) + 1].role = "tool_calls" /\ Len(t[Len(s) + 1].of) = n
      /\ t[Len(s) + 1].of = ids
  BY <1>1, <1>7 DEF n
<1>10. WellFormed(t)
  BY <1>2, <1>5, <1>6, <1>8, <1>9, RoundLast
<1> QED
  BY <1>10 DEF t, g, w, m

\* A reported call takes the place of the result that was awaited.
LEMMA RoundReported ==
  ASSUME NEW s \in Seq(Msg), NEW calls \in Seq(PlannedCall), calls # <<>>,
         NEW what \in Reports, WellFormed(s \o Awaited(calls))
  PROVE  WellFormed(Append(s, Result(Head(calls).call, what)) \o Awaited(Tail(calls)))
<1> DEFINE m == Result(Head(calls).call, what)
           g == Append(s, m)
           rest == Tail(calls)
           v == Awaited(calls)
           w == Awaited(rest)
           u == s \o v
           t == g \o w
<1>1. /\ Head(calls) \in PlannedCall /\ Head(calls) = calls[1] /\ rest \in Seq(PlannedCall)
      /\ Len(rest) = Len(calls) - 1 /\ \A k \in 1 .. Len(rest) : rest[k] = calls[k + 1]
  BY HeadTailProperties
<1>2. Len(calls) \in Nat \ {0} /\ Len(s) \in Nat
  BY EmptySeq, LenProperties
<1>3. m \in Msg
  BY <1>1, MessagesAreMsg DEF PlannedCall
<1>4. /\ v \in Seq(Msg) /\ Len(v) = Len(calls)
      /\ \A k \in 1 .. Len(calls) : v[k] = Result(calls[k].call, "refused")
  BY AwaitedFacts
<1>5. /\ w \in Seq(Msg) /\ Len(w) = Len(calls) - 1
      /\ \A k \in 1 .. Len(calls) - 1 : w[k] = Result(calls[k + 1].call, "refused")
  <2> HIDE DEF rest
  <2>1. /\ w \in Seq(Msg) /\ Len(w) = Len(rest)
        /\ \A k \in 1 .. Len(rest) : w[k] = Result(rest[k].call, "refused")
    BY <1>1, AwaitedFacts
  <2> QED
    BY <1>1, <2>1
<1>6. SameKind(v[1], m)
  <2>1. v[1] = Result(Head(calls).call, "refused")
    BY <1>1, <1>2, <1>4
  <2> HIDE DEF v
  <2> QED
    BY <2>1 DEF SameKind, Result, Message
<1> HIDE DEF m, rest, v, w
<1>7. /\ g \in Seq(Msg) /\ Len(g) = Len(s) + 1 /\ g[Len(s) + 1] = m
      /\ \A i \in 1 .. Len(s) : g[i] = s[i]
  BY <1>3, AppendProperties
<1> HIDE DEF g
<1>8. /\ t \in Seq(Msg) /\ Len(t) = Len(g) + Len(w)
      /\ \A i \in 1 .. Len(g) + Len(w) : t[i] = IF i <= Len(g) THEN g[i] ELSE w[i - Len(g)]
  <2>1. g \in Seq(Msg) /\ w \in Seq(Msg)
    BY <1>5, <1>7
  <2> QED
    BY <2>1, ConcatProperties
<1>9. /\ u \in Seq(Msg) /\ Len(u) = Len(s) + Len(v)
      /\ \A i \in 1 .. Len(s) + Len(v) : u[i] = IF i <= Len(s) THEN s[i] ELSE v[i - Len(s)]
  <2>1. v \in Seq(Msg)
    BY <1>4
  <2> QED
    BY <2>1, ConcatProperties
<1> HIDE DEF u, t
<1>10. Len(t) = Len(u) /\ Len(u) = Len(s) + Len(calls)
  BY <1>2, <1>4, <1>5, <1>7, <1>8, <1>9
<1>11. ASSUME NEW i \in 1 .. Len(u) PROVE SameKind(u[i], t[i])
  <2>1. CASE i <= Len(s)
    <3>a. i \in 1 .. Len(s) /\ i <= Len(g) /\ i \in 1 .. Len(g) + Len(w)
      BY <1>2, <1>5, <1>7, <1>10, <2>1
    <3>b. u[i] = s[i]
      BY <1>9, <2>1
    <3>c. t[i] = g[i] /\ g[i] = s[i]
      BY <1>7, <1>8, <3>a
    <3>1. u[i] = s[i] /\ t[i] = s[i]
      BY <3>b, <3>c
    <3> QED
      BY <3>1 DEF SameKind
  <2>2. CASE i = Len(s) + 1
    <3>a. /\ ~ (i <= Len(s)) /\ i - Len(s) = 1 /\ i <= Len(g)
          /\ i \in 1 .. Len(g) + Len(w)
      BY <1>2, <1>5, <1>7, <1>10, <2>2
    <3>b. u[i] = v[1]
      BY <1>9, <3>a
    <3>c. t[i] = g[i] /\ g[i] = m
      BY <1>7, <1>8, <2>2, <3>a
    <3>1. u[i] = v[1] /\ t[i] = m
      BY <3>b, <3>c
    <3> QED
      BY <1>6, <3>1
  <2>3. CASE i > Len(s) + 1
    <3> DEFINE k == i - Len(s) - 1
    <3>1. /\ k \in 1 .. Len(calls) - 1 /\ k + 1 \in 1 .. Len(calls)
          /\ i - Len(s) = k + 1 /\ i - Len(g) = k
          /\ ~ (i <= Len(s)) /\ ~ (i <= Len(g))
      BY <1>2, <1>7, <1>10, <2>3
    <3> HIDE DEF k
    <3>2. u[i] = v[k + 1] /\ t[i] = w[k]
      BY <1>4, <1>5, <1>8, <1>9, <1>10, <3>1
    <3>3. u[i] = t[i]
      BY <1>4, <1>5, <3>1, <3>2
    <3> QED
      BY <3>3 DEF SameKind
  <2> QED
    BY <1>2, <1>10, <2>1, <2>2, <2>3
<1>12. WellFormed(u)
  BY DEF u, v
<1>13. WellFormed(t)
  BY <1>8, <1>9, <1>10, <1>11, <1>12, SameRounds
<1> QED
  BY <1>13 DEF t, g, m, w, rest

\* What no message knows, no message reports.
LEMMA UnknownIsUnreported ==
  ASSUME NEW h \in Seq(Msg), NEW c, c \notin Identities(h)
  PROVE  Unreported(h, c)
<1>1. DOMAIN h = 1 .. Len(h)
  BY LenProperties
<1>2. ASSUME NEW i \in 1 .. Len(h), h[i].role = "tool" PROVE h[i].of[1] # c
  <2>1. h[i].of \in Seq(1 .. MaxIds) /\ DOMAIN h[i].of = 1 .. Len(h[i].of)
        /\ Len(h[i].of) = 1
    BY <1>2, MsgFacts DEF Msg
  <2>2. h[i].of[1] \in ToSet(h[i].of)
    BY <2>1 DEF ToSet
  <2> QED
    BY <2>2, InIdentities
<1> QED
  BY <1>1, <1>2 DEF Unreported

\* Another message does not report the call.
LEMMA UnreportedAppend ==
  ASSUME NEW h \in Seq(Msg), NEW m \in Msg, NEW c, Unreported(h, c),
         m.role = "tool" => m.of[1] # c
  PROVE  Unreported(Append(h, m), c)
<1> DEFINE g == Append(h, m)
<1>1. /\ g \in Seq(Msg) /\ Len(g) = Len(h) + 1 /\ g[Len(h) + 1] = m
      /\ \A i \in 1 .. Len(h) : g[i] = h[i]
  BY AppendProperties
<1> HIDE DEF g
<1>2. Len(h) \in Nat /\ DOMAIN h = 1 .. Len(h) /\ DOMAIN g = 1 .. Len(h) + 1
  BY <1>1, LenProperties
<1>3. \A i \in DOMAIN g : i \in DOMAIN h \/ i = Len(h) + 1
  BY <1>2
<1>4. Unreported(g, c)
  BY <1>1, <1>2, <1>3 DEF Unreported
<1> QED
  BY <1>4 DEF g

\* A round starts with calls that nobody has executed or reported.
LEMMA StartRoundStep ==
  ASSUME LoopAssumption, LoopInv, NEW round \in Rounds, StartRound(round)
  PROVE  LoopInv'
<1> DEFINE ids == Calls(round)
           m == Request(ids)
           p == [k \in DOMAIN round |->
                   [call |-> ids[k], tool |-> round[k].tool, verdict |-> round[k].verdict]]
           n == Len(round)
<1>1. /\ pc = "model" /\ Fresh + Len(round) - 1 <= MaxIds /\ Questions(round) = {}
      /\ history' = Append(history, m) /\ messages' = Append(messages, m)
      /\ plan' = p /\ pc' = "execute" /\ saved' = saved /\ archive' = archive
      /\ step' = step /\ failures' = failures /\ open' = open /\ ran' = ran
  BY DEF StartRound
<1>2. TypeInv /\ history \in Seq(Msg) /\ messages \in Seq(Msg) /\ plan = <<>>
  BY <1>1 DEF LoopInv, TypeInv
<1>3. /\ round \in Seq(PlanItems) /\ n \in Nat \ {0} /\ DOMAIN round = 1 .. n
      /\ ids \in Seq(1 .. MaxIds) /\ Len(ids) = n
      /\ \A k \in 1 .. n : ids[k] = Fresh + k - 1
  BY <1>1, <1>2, CallsFacts
<1>4. Fresh \in Nat
  BY <1>2, FreshFacts
<1>5. ToSet(ids) \cap Known = {}
  BY <1>1, <1>2, CallsAreNew
<1> HIDE DEF ids
<1>6. \A k \in 1 .. n : ids[k] \in ToSet(ids) /\ ids[k] \in 1 .. MaxIds
  BY <1>3, LenProperties, ElementOfSeq DEF ToSet
<1>7. \A k \in 1 .. n : /\ round[k].tool \in Tools \cup {None}
                        /\ round[k].verdict \in {"allow", "refused"}
                        /\ round[k].verdict = "allow" => round[k].tool \in Tools
  <2> TAKE k \in 1 .. n
  <2>1. round[k] \in PlanItems /\ round[k].verdict # "ask"
    <3>1. round[k].verdict # "ask"
      BY <1>1, <1>3 DEF Questions
    <3> QED
      BY <1>3, <3>1, ElementOfSeq
  <2>2. CASE round[k] = Refused
    BY <2>2 DEF Refused
  <2>3. CASE round[k] # Refused
    <3>1. PICK t \in Visible, v \in {"ask", "allow"} : round[k] = [tool |-> t, verdict |-> v]
      BY <2>1, <2>3 DEF PlanItems, Planned
    <3>2. t \in Tools /\ v = "allow"
      BY <2>1, <3>1 DEF LoopAssumption
    <3> QED
      BY <3>1, <3>2
  <2> QED
    BY <2>2, <2>3
<1>8. \A k \in 1 .. n : p[k] \in PlannedCall /\ p[k].call = ids[k]
  BY <1>3, <1>6, <1>7 DEF PlannedCall
<1>9. p \in Seq(PlannedCall) /\ Len(p) = n /\ DOMAIN p = 1 .. n
  <2>1. DOMAIN p = 1 .. n /\ p = [k \in DOMAIN p |-> p[k]]
    BY <1>3
  <2> HIDE DEF p, n
  <2>2. p \in [1 .. n -> PlannedCall]
    BY <1>8, <2>1
  <2> QED
    BY <1>3, <2>1, <2>2, FunctionSeq
<1>10. m \in Msg /\ m.role = "tool_calls" /\ ToSet(m.of) = ToSet(ids)
  BY <1>3, MessagesAreMsg DEF Request, Message
<1> HIDE DEF p, n
<1>11. TypeInv'
  <2>1. Append(history, m) \in Seq(Msg) /\ Append(messages, m) \in Seq(Msg)
    BY <1>2, <1>10, AppendProperties
  <2>2. p # <<>>
    BY <1>3, <1>9, EmptySeq
  <2> HIDE DEF m
  <2> QED
    BY <1>1, <1>2, <1>9, <2>1, <2>2 DEF TypeInv
<1>12. BreakerInv'
  BY <1>1 DEF LoopInv, BreakerInv, RestsAfterFailures
<1>13. Known' = Known \cup ToSet(ids) /\ KnownSaved' = KnownSaved
  <2>1. Identities(Append(history, m)) = Identities(history) \cup ToSet(ids)
    BY <1>2, <1>10, IdentitiesAppend
  <2> QED
    BY <1>1, <2>1 DEF Known, KnownSaved
<1>14. ran \subseteq Known /\ KnownSaved \subseteq Known
  BY <1>1 DEF LoopInv, KnownInv
<1>15. PlanInv'
  <2>1. ASSUME NEW k \in 1 .. n
        PROVE  /\ ids[k] \in Known'
               /\ ids[k] \notin ran' \cup KnownSaved'
               /\ Unreported(history', ids[k])
               /\ Unreported(archive', ids[k])
    <3>1. ids[k] \in ToSet(ids) /\ ids[k] \notin Known
      BY <1>5, <1>6
    <3>2. Unreported(history, ids[k]) /\ Unreported(archive, ids[k])
      BY <1>2, <3>1, UnknownIsUnreported DEF Known, TypeInv
    <3>3. Unreported(Append(history, m), ids[k])
      BY <1>2, <1>10, <3>2, UnreportedAppend
    <3> QED
      BY <1>1, <1>13, <1>14, <3>1, <3>2, <3>3
  <2>2. \A k, l \in 1 .. n : ids[k] = ids[l] => k = l
    <3> TAKE k, l \in 1 .. n
    <3>1. ids[k] = Fresh + k - 1 /\ ids[l] = Fresh + l - 1 /\ k \in Int /\ l \in Int
      BY <1>3
    <3> QED
      BY <1>4, <3>1
  <2>3. DOMAIN plan' = 1 .. n /\ \A k \in 1 .. n : plan'[k].call = ids[k]
    BY <1>1, <1>8, <1>9
  <2> QED
    BY <2>1, <2>2, <2>3 DEF PlanInv
<1>16. KnownInv' /\ PausedInv'
  BY <1>1, <1>13, <1>14 DEF LoopInv, KnownInv, PausedInv
<1>17. TruthInv'
  <2>1. Truthful(Append(history, m), ran)
    BY <1>2, <1>10, TruthfulFacts DEF LoopInv, TruthInv
  <2> QED
    BY <1>1, <2>1 DEF LoopInv, TruthInv
<1>18. RoundsInv'
  <2>1. WellFormed(history) /\ WellFormed(messages)
    BY <1>2, NothingAwaited DEF LoopInv, RoundsInv
  <2>2. /\ WellFormed(Append(history, m) \o Awaited(p))
        /\ WellFormed(Append(messages, m) \o Awaited(p))
    BY <1>2, <1>3, <1>8, <1>9, <2>1, RoundStarted
  <2>3. CheckpointIsResumable'
    BY <1>1 DEF LoopInv, RoundsInv, CheckpointIsResumable
  <2> QED
    BY <1>1, <2>2, <2>3 DEF RoundsInv
<1> QED
  BY <1>11, <1>12, <1>15, <1>16, <1>17, <1>18 DEF LoopInv

\* What the last message of a paused history asks for is known.
LEMMA PausedIsKnown ==
  ASSUME LoopInv, saved.paused # None
  PROVE  ToSet(saved.paused.calls) \subseteq KnownSaved
<1>1. PICK h \in Seq(Msg) : h = saved.history
  BY DEF LoopInv, TypeInv
<1>2. h # <<>> /\ Last(h) = Request(saved.paused.calls)
  BY <1>1 DEF LoopInv, RoundsInv, CheckpointIsResumable
<1>3. Len(h) \in 1 .. Len(h) /\ h[Len(h)] = Request(saved.paused.calls)
  BY <1>2, FrontFacts
<1>4. ToSet(h[Len(h)].of) \subseteq Identities(h)
  BY <1>3, InIdentities
<1>5. h[Len(h)].of = saved.paused.calls
  BY <1>3 DEF Request, Message
<1> QED
  BY <1>1, <1>4, <1>5 DEF KnownSaved

\* A reported call is executed exactly when it is reported so.
LEMMA ReportedStep ==
  ASSUME LoopAssumption, LoopInv, pc = "execute", NEW what \in Reports, Reported(what),
         ran' = ran \cup {c \in {Head(plan).call} : what \in Executed},
         BreakerInv'
  PROVE  LoopInv'
<1>1. PICK p \in Seq(PlannedCall) : p = plan
  BY DEF LoopInv, TypeInv
<1>2. PICK h \in Seq(Msg) : h = history
  BY DEF LoopInv, TypeInv
<1>3. PICK g \in Seq(Msg) : g = messages
  BY DEF LoopInv, TypeInv
<1>4. p # <<>> /\ step \in Nat /\ TypeInv
  BY <1>1 DEF LoopInv, TypeInv
<1> DEFINE c == Head(p).call
           m == Result(c, what)
<1>5. /\ history' = Append(h, m) /\ messages' = Append(g, m) /\ plan' = Tail(p)
      /\ saved' = saved /\ archive' = archive
      /\ IF Len(p) = 1 THEN NextStep ELSE UNCHANGED <<step, pc>>
      /\ ran' = ran \cup {d \in {c} : what \in Executed}
  BY <1>1, <1>2, <1>3 DEF Reported
<1>6. /\ Head(p) \in PlannedCall /\ Head(p) = p[1] /\ Tail(p) \in Seq(PlannedCall)
      /\ Len(Tail(p)) = Len(p) - 1 /\ \A k \in 1 .. Len(Tail(p)) : Tail(p)[k] = p[k + 1]
  BY <1>4, HeadTailProperties
<1>7. Len(p) \in Nat \ {0} /\ DOMAIN p = 1 .. Len(p) /\ DOMAIN Tail(p) = 1 .. Len(Tail(p))
  BY <1>4, <1>6, EmptySeq, LenProperties
<1>8. m \in Msg /\ m.role = "tool" /\ m.of[1] = c /\ m.what = what
      /\ ToSet(m.of) = {c} /\ c \in 1 .. MaxIds
  <2>1. c \in 1 .. MaxIds
    BY <1>6 DEF PlannedCall
  <2>2. m \in Msg
    BY <2>1, MessagesAreMsg
  <2>3. m.role = "tool" /\ m.of = <<c>> /\ m.what = what
    BY DEF Result, Message
  <2>4. ToSet(<<c>>) = {c} /\ <<c>>[1] = c
    BY DEF ToSet
  <2> HIDE DEF c, m
  <2> QED
    BY <2>1, <2>2, <2>3, <2>4
<1>9. /\ \A k \in 1 .. Len(p) :
           /\ p[k].call \in Known
           /\ p[k].call \notin ran \cup KnownSaved
           /\ Unreported(h, p[k].call)
           /\ Unreported(archive, p[k].call)
      /\ \A k, l \in 1 .. Len(p) : p[k].call = p[l].call => k = l
  BY <1>1, <1>2, <1>7 DEF LoopInv, PlanInv
<1>10. c \in Known /\ c \notin ran \cup KnownSaved /\ Unreported(h, c) /\ Unreported(archive, c)
  BY <1>6, <1>7, <1>9
<1> HIDE DEF c, m
<1>11. Append(h, m) \in Seq(Msg) /\ Append(g, m) \in Seq(Msg)
  BY <1>8, AppendProperties
<1>12. TypeInv'
  <2>1. Tail(p) # <<>> <=> Len(p) # 1
    <3>1. CASE Len(p) = 1
      <4>1. Len(Tail(p)) = 0
        BY <1>6, <3>1
      <4> QED
        BY <1>6, <3>1, <4>1, EmptySeq
    <3>2. CASE Len(p) # 1
      <4>1. Len(Tail(p)) # 0
        BY <1>6, <1>7, <3>2
      <4> QED
        BY <3>2, <4>1, EmptySeq
    <3> QED
      BY <3>1, <3>2
  <2>2. /\ step' \in Nat /\ pc' \in {"idle", "prepare", "model", "execute", "final"}
        /\ pc' = "execute" <=> Len(p) # 1
    BY <1>4, <1>5 DEF NextStep
  <2>3. ran' \subseteq 1 .. MaxIds
    BY <1>4, <1>5, <1>8 DEF TypeInv
  <2> QED
    BY <1>4, <1>5, <1>6, <1>11, <2>1, <2>2, <2>3 DEF TypeInv
<1>13. Known' = Known /\ KnownSaved' = KnownSaved
  <2>1. Identities(Append(h, m)) = Identities(h) \cup {c}
    BY <1>8, IdentitiesAppend
  <2> QED
    BY <1>2, <1>5, <1>10, <2>1 DEF Known, KnownSaved
<1>14. PlanInv'
  <2>1. ASSUME NEW k \in 1 .. Len(Tail(p))
        PROVE  /\ Tail(p)[k].call \in Known'
               /\ Tail(p)[k].call \notin ran' \cup KnownSaved'
               /\ Unreported(history', Tail(p)[k].call)
               /\ Unreported(archive', Tail(p)[k].call)
    <3> DEFINE d == p[k + 1].call
    <3>1. k + 1 \in 1 .. Len(p) /\ k + 1 # 1 /\ Tail(p)[k].call = d
      BY <1>6, <1>7
    <3>2. /\ d \in Known /\ d \notin ran \cup KnownSaved
          /\ Unreported(h, d) /\ Unreported(archive, d)
      BY <1>9, <3>1
    <3>3. d # c
      BY <1>6, <1>7, <1>9, <3>1 DEF c
    <3> HIDE DEF d
    <3>4. Unreported(Append(h, m), d)
      BY <1>8, <3>2, <3>3, UnreportedAppend
    <3> QED
      BY <1>5, <1>13, <3>1, <3>2, <3>3, <3>4
  <2>2. \A k, l \in 1 .. Len(Tail(p)) : Tail(p)[k].call = Tail(p)[l].call => k = l
    <3> TAKE k, l \in 1 .. Len(Tail(p))
    <3>1. /\ k + 1 \in 1 .. Len(p) /\ l + 1 \in 1 .. Len(p)
          /\ Tail(p)[k] = p[k + 1] /\ Tail(p)[l] = p[l + 1]
          /\ (k + 1 = l + 1 => k = l)
      BY <1>6, <1>7
    <3> QED
      BY <1>9, <3>1
  <2>3. DOMAIN plan' = 1 .. Len(Tail(p)) /\ plan' = Tail(p)
    BY <1>5, <1>7
  <2> QED
    BY <2>1, <2>2, <2>3 DEF PlanInv
<1>15. KnownInv'
  <2>1. pc' # "idle"
    BY <1>5 DEF NextStep
  <2> QED
    BY <1>5, <1>10, <1>13, <2>1 DEF LoopInv, KnownInv
<1>16. PausedInv'
  BY <1>5, <1>10, PausedIsKnown DEF LoopInv, PausedInv
<1>17. TruthInv'
  <2>1. ASSUME NEW s, Truthful(s, ran), Unreported(s, c) PROVE Truthful(s, ran')
    <3>1. ran' = ran \/ ran' = ran \cup {c}
      BY <1>5
    <3> QED
      BY <2>1, <3>1, TruthfulOfMore
  <2>2. /\ Truthful(h, ran) /\ Truthful(archive, ran)
        /\ Truthful(saved.history, ran) /\ Truthful(saved.archive, ran)
    BY <1>2 DEF LoopInv, TruthInv
  <2>3. Unreported(saved.history, c) /\ Unreported(saved.archive, c)
    BY <1>4, <1>10, UnknownIsUnreported DEF TypeInv, KnownSaved
  <2>4. /\ Truthful(h, ran') /\ Truthful(archive, ran')
        /\ Truthful(saved.history, ran') /\ Truthful(saved.archive, ran')
    BY <1>10, <2>1, <2>2, <2>3
  <2>5. what \in Executed <=> c \in ran'
    BY <1>5, <1>10
  <2>6. Truthful(Append(h, m), ran')
    BY <1>8, <2>4, <2>5, TruthfulFacts
  <2> QED
    BY <1>5, <2>4, <2>6 DEF TruthInv
<1>18. RoundsInv'
  <2>1. WellFormed(h \o Awaited(p)) /\ WellFormed(g \o Awaited(p))
    BY <1>1, <1>2, <1>3 DEF LoopInv, RoundsInv
  <2>2. /\ WellFormed(Append(h, m) \o Awaited(Tail(p)))
        /\ WellFormed(Append(g, m) \o Awaited(Tail(p)))
    BY <1>4, <2>1, RoundReported DEF m, c
  <2>3. CheckpointIsResumable'
    BY <1>5 DEF LoopInv, RoundsInv, CheckpointIsResumable
  <2> QED
    BY <1>5, <2>2, <2>3 DEF RoundsInv
<1> QED
  BY <1>12, <1>14, <1>15, <1>16, <1>17, <1>18 DEF LoopInv

\* A refused call is reported and not executed.
LEMMA RefuseStep ==
  ASSUME LoopAssumption, LoopInv, Refuse
  PROVE  LoopInv'
<1>1. /\ pc = "execute" /\ Reported("refused") /\ failures' = failures /\ open' = open
      /\ ran' = ran
  BY DEF Refuse
<1>2. "refused" \in Reports /\ "refused" \notin Executed
  BY DEF Reports, Executed
<1>3. BreakerInv'
  BY <1>1 DEF LoopInv, BreakerInv, RestsAfterFailures
<1>4. ran' = ran \cup {c \in {Head(plan).call} : "refused" \in Executed}
  BY <1>1, <1>2
<1> QED
  BY <1>1, <1>2, <1>3, <1>4, ReportedStep

\* The count and the time stamp of a tool change together.
LEMMA RecordedKeepsBreaker ==
  ASSUME LoopAssumption, BreakerInv, NEW t \in Tools, NEW what, Recorded(t, what)
  PROVE  BreakerInv'
<1> DEFINE n == IF what = "error" THEN Closed(t).count + 1 ELSE 0
<1>1. /\ failures' = [failures EXCEPT ![t] = n]
      /\ open' = (open \ {t}) \cup {u \in {t} : n >= FailureThreshold}
  BY DEF Recorded, Closed
<1>2. n \in Nat
  BY DEF BreakerInv, Closed
<1> HIDE DEF n
<1>3. failures' \in [Tools -> Nat] /\ open' \subseteq Tools
  BY <1>1, <1>2 DEF BreakerInv
<1>4. ASSUME NEW u \in Tools PROVE u \in open' <=> failures'[u] >= FailureThreshold
  <2>1. CASE u = t
    BY <1>1, <1>2, <2>1 DEF BreakerInv
  <2>2. CASE u # t
    BY <1>1, <1>2, <2>2 DEF BreakerInv, RestsAfterFailures
  <2> QED
    BY <2>1, <2>2
<1> QED
  BY <1>3, <1>4 DEF BreakerInv, RestsAfterFailures

\* An allowed call is executed, or rests.
LEMMA ExecuteStep ==
  ASSUME LoopAssumption, LoopInv, Execute
  PROVE  LoopInv'
<1> DEFINE t == Head(plan).tool
<1>1. pc = "execute" /\ Head(plan).verdict = "allow" /\ (Rest(t) \/ Try(t))
  BY DEF Execute
<1>2. t \in Tools
  <2>1. plan \in Seq(PlannedCall) /\ plan # <<>>
    BY <1>1 DEF LoopInv, TypeInv
  <2>2. Head(plan) \in PlannedCall
    BY <2>1, HeadTailProperties
  <2> QED
    BY <1>1, <2>2 DEF PlannedCall
<1>3. CASE Rest(t)
  <2>1. Reported("resting") /\ failures' = failures /\ open' = open /\ ran' = ran
    BY <1>3 DEF Rest
  <2>2. "resting" \in Reports /\ "resting" \notin Executed
    BY DEF Reports, Executed
  <2>3. BreakerInv'
    BY <2>1 DEF LoopInv, BreakerInv, RestsAfterFailures
  <2>4. ran' = ran \cup {c \in {Head(plan).call} : "resting" \in Executed}
    BY <2>1, <2>2
  <2> QED
    BY <1>1, <2>1, <2>2, <2>3, <2>4, ReportedStep
<1>4. CASE Try(t)
  <2>1. ran' = ran \cup {Head(plan).call}
    BY <1>4 DEF Try
  <2>2. PICK what \in Executed : Reported(what) /\ Recorded(t, what)
    BY <1>4 DEF Try
  <2>3. what \in Reports
    BY DEF Reports
  <2>4. BreakerInv'
    BY <1>2, <2>2, RecordedKeepsBreaker DEF LoopInv
  <2>5. ran' = ran \cup {c \in {Head(plan).call} : what \in Executed}
    BY <2>1, <2>2
  <2> QED
    BY <1>1, <2>2, <2>3, <2>4, <2>5, ReportedStep
<1> QED
  BY <1>1, <1>3, <1>4

-----------------------------------------------------------------------------
(* Between turns.                                                          *)

\* A step between turns changes the checkpoint only.
LEMMA CheckpointStep ==
  ASSUME LoopAssumption, LoopInv, pc = "idle", UNCHANGED <<pc, memory, ran>>,
         saved' \in [history : Seq(Msg), archive : Seq(Msg), paused : {None} \cup Paused],
         ran \subseteq KnownSaved', PausedInv', CheckpointIsResumable',
         Truthful(saved'.history, ran), Truthful(saved'.archive, ran)
  PROVE  LoopInv'
<1>1. /\ history' = history /\ archive' = archive /\ messages' = messages /\ step' = step
      /\ plan' = plan /\ failures' = failures /\ open' = open /\ pc' = pc /\ ran' = ran
  BY DEF memory
<1>2. TypeInv /\ plan = <<>>
  BY DEF LoopInv, TypeInv
<1>3. TypeInv'
  BY <1>1, <1>2 DEF TypeInv
<1>4. BreakerInv'
  BY <1>1 DEF LoopInv, BreakerInv, RestsAfterFailures
<1>5. PlanInv'
  BY <1>1, <1>2, NoPlan
<1>6. KnownInv'
  BY <1>1 DEF KnownInv
<1>7. TruthInv'
  BY <1>1 DEF LoopInv, TruthInv
<1>8. RoundsInv'
  BY <1>1 DEF LoopInv, RoundsInv
<1> QED
  BY <1>3, <1>4, <1>5, <1>6, <1>7, <1>8 DEF LoopInv

\* The question of an expired approval is the last message, and the only one
\* that asks for a call of its round.
LEMMA ExpireFacts ==
  ASSUME LoopAssumption, LoopInv, Expire
  PROVE  /\ saved.history \in Seq(Msg) /\ saved.history # <<>>
         /\ saved.archive \in Seq(Msg)
         /\ saved.paused \in Paused
         /\ WellFormed(Front(saved.history))
         /\ Last(saved.history) = Request(saved.paused.calls)
         /\ Answer(NextIdentity) \in Msg /\ Answer(NextIdentity).role = "assistant"
         /\ saved' = [saved EXCEPT
                        !.history = Append(Front(saved.history), Answer(NextIdentity)),
                        !.paused = None]
         /\ saved' \in [history : Seq(Msg), archive : Seq(Msg), paused : {None} \cup Paused]
         /\ saved'.history = Append(Front(saved.history), Answer(NextIdentity))
         /\ saved'.archive = saved.archive /\ saved'.paused = None
<1>1. PICK h \in Seq(Msg) : h = saved.history
  BY DEF LoopInv, TypeInv
<1>2. PICK p \in Paused : p = saved.paused
  BY DEF Expire, LoopInv, TypeInv
<1> DEFINE rest == {i \in DOMAIN h : ~ AsksForOne(h[i], p.calls)}
           m == Answer(NextIdentity)
           g == Append(At(h, rest), m)
<1>3. /\ saved.paused # None /\ NextIdentity <= MaxIds
      /\ saved' = [saved EXCEPT !.history = g, !.paused = None]
  BY <1>1, <1>2 DEF Expire
<1>4. TypeInv /\ PausedInv
  BY DEF LoopInv
<1>5. /\ h # <<>> /\ WellFormed(Front(h)) /\ Last(h) = Request(p.calls)
      /\ p.call \in ToSet(p.calls)
  BY <1>1, <1>2, <1>3 DEF LoopInv, RoundsInv, CheckpointIsResumable
<1>6. /\ Front(h) \in Seq(Msg) /\ Len(h) \in Nat \ {0}
      /\ Last(h) = h[Len(h)] /\ DOMAIN h = 1 .. Len(h)
  BY <1>5, FrontFacts, LenProperties
<1>7. Request(p.calls).role = "tool_calls" /\ Request(p.calls).of = p.calls
  BY DEF Request, Message
<1>8. \A i \in 1 .. Len(h) - 1 : ToSet(h[i].of) \cap ToSet(p.calls) = {}
  BY <1>1, <1>2, <1>3, <1>4 DEF PausedInv
<1>9. At(h, rest) = Front(h)
  <2>1. \A i \in 1 .. Len(h) - 1 : ~ AsksForOne(h[i], p.calls)
    BY <1>8 DEF AsksForOne
  <2>2. AsksForOne(h[Len(h)], p.calls)
    BY <1>5, <1>6, <1>7 DEF AsksForOne
  <2>3. \A i : i \in rest <=> i \in 1 .. Len(h) - 1
    BY <1>6, <2>1, <2>2
  <2>4. rest = 1 .. Len(h) - 1
    BY <2>3
  <2> QED
    BY <1>5, <2>4, AtFront
<1>10. m \in Msg /\ m.role = "assistant"
  <2>1. NextIdentity \in 1 .. MaxIds
    BY <1>3, <1>4, FreshFacts DEF LoopAssumption
  <2> QED
    BY <2>1, MessagesAreMsg DEF Answer, Message
<1>11. g = Append(Front(h), m)
  BY <1>9
<1> HIDE DEF g, m, rest
<1>12. g \in Seq(Msg)
  BY <1>6, <1>10, <1>11, AppendProperties
<1>13. /\ saved' \in [history : Seq(Msg), archive : Seq(Msg), paused : {None} \cup Paused]
       /\ saved'.history = g /\ saved'.archive = saved.archive /\ saved'.paused = None
       /\ saved.archive \in Seq(Msg)
  BY <1>3, <1>4, <1>12 DEF TypeInv
<1> QED
  BY <1>1, <1>2, <1>3, <1>5, <1>10, <1>11, <1>13 DEF m

\* An expired question is taken back with its round.
LEMMA ExpireStep ==
  ASSUME LoopAssumption, LoopInv, Expire
  PROVE  LoopInv'
<1>1. PICK h \in Seq(Msg) : h = saved.history
  BY ExpireFacts
<1>2. PICK p \in Paused : p = saved.paused
  BY ExpireFacts
<1>3. PICK m \in Msg : m = Answer(NextIdentity)
  BY ExpireFacts
<1> DEFINE g == Append(Front(h), m)
<1>4. /\ pc = "idle" /\ saved.paused # None /\ UNCHANGED <<pc, memory, ran>>
      /\ KnownInv /\ PausedInv
  BY DEF Expire, LoopInv
<1>5. /\ h # <<>> /\ WellFormed(Front(h)) /\ Last(h) = Request(p.calls)
      /\ m.role = "assistant"
      /\ saved' \in [history : Seq(Msg), archive : Seq(Msg), paused : {None} \cup Paused]
      /\ saved'.history = g /\ saved'.archive = saved.archive /\ saved'.paused = None
  BY <1>1, <1>2, <1>3, ExpireFacts
<1>6. /\ Front(h) \in Seq(Msg) /\ Len(h) \in Nat \ {0} /\ Len(Front(h)) = Len(h) - 1
      /\ \A i \in 1 .. Len(h) - 1 : Front(h)[i] = h[i]
      /\ Last(h) = h[Len(h)] /\ DOMAIN h = 1 .. Len(h)
  BY <1>5, FrontFacts, LenProperties
<1>7. Request(p.calls).of = p.calls
  BY DEF Request, Message
<1>8. ran \cap ToSet(p.calls) = {}
  BY <1>2, <1>4 DEF PausedInv
<1> HIDE DEF g
<1>9. ran \subseteq KnownSaved'
  <2>1. \A x \in Identities(h) : x \in Identities(Front(h)) \/ x \in ToSet(p.calls)
    <3> TAKE x \in Identities(h)
    <3>1. PICK i \in 1 .. Len(h) : x \in ToSet(h[i].of)
      BY InIdentities
    <3>2. CASE i = Len(h)
      BY <1>5, <1>6, <1>7, <3>1, <3>2
    <3>3. CASE i # Len(h)
      <4>1. i \in 1 .. Len(Front(h)) /\ Front(h)[i] = h[i]
        BY <1>6, <3>3
      <4> QED
        BY <1>6, <3>1, <4>1, InIdentities
    <3> QED
      BY <3>2, <3>3
  <2>2. Identities(Front(h)) \subseteq Identities(g)
    BY <1>6, IdentitiesAppend DEF g
  <2>3. ran \subseteq Identities(h) \cup Identities(saved.archive)
    BY <1>1, <1>4 DEF KnownInv, KnownSaved
  <2> QED
    BY <1>8, <1>5, <2>1, <2>2, <2>3 DEF KnownSaved
<1>10. PausedInv'
  BY <1>5 DEF PausedInv
<1>11. CheckpointIsResumable'
  <2>1. WellFormed(g)
    BY <1>5, <1>6, AppendPlain DEF g
  <2> QED
    BY <1>5, <2>1 DEF CheckpointIsResumable
<1>12. Truthful(g, ran) /\ Truthful(saved.archive, ran)
  <2>1. Truthful(h, ran) /\ Truthful(saved.archive, ran)
    BY <1>1 DEF LoopInv, TruthInv
  <2>2. DOMAIN Front(h) = 1 .. Len(h) - 1
    BY <1>6, LenProperties
  <2>3. \A i \in DOMAIN Front(h) : i \in DOMAIN h /\ Front(h)[i] = h[i]
    BY <1>6, <2>2
  <2>4. Truthful(Front(h), ran)
    BY <2>1, <2>3 DEF Truthful
  <2> QED
    BY <1>5, <1>6, <2>1, <2>4, TruthfulFacts DEF g
<1> QED
  BY <1>4, <1>5, <1>9, <1>10, <1>11, <1>12, CheckpointStep

\* A compaction between turns keeps what can be resumed.
LEMMA CompactStep ==
  ASSUME LoopAssumption, LoopInv, Compact
  PROVE  LoopInv'
<1>1. PICK h \in Seq(Msg) : h = saved.history
  BY DEF LoopInv, TypeInv
<1>2. PICK old \in Seq(Msg) : old = saved.archive
  BY DEF LoopInv, TypeInv
<1> DEFINE a == KeepFrom(h)
           r == Archived(h)
           c == Compressed(h)
<1>3. /\ pc = "idle" /\ a > 1 /\ UNCHANGED <<pc, memory, ran>>
      /\ saved' = [saved EXCEPT !.archive = old \o r, !.history = c]
  BY <1>1, <1>2 DEF Compact
<1>4. TypeInv /\ KnownInv /\ PausedInv
  BY DEF LoopInv
<1>5. /\ r \in Seq(Msg) /\ c \in Seq(Msg)
      /\ Len(r) = a - 1 /\ Len(c) = Len(h) - a + 2
      /\ c[1] = Summary
      /\ \A i \in 1 .. Len(h) - a + 1 : c[i + 1] = h[i + a - 1]
      /\ a \in 2 .. Len(h) /\ h[a].role = "user"
      /\ Identities(r) \cup Identities(c) = Identities(h)
      /\ WellFormed(h) => WellFormed(c)
      /\ Truthful(h, ran) => Truthful(r, ran) /\ Truthful(c, ran)
  BY <1>3, CompressionFacts, IdentitiesCompressed, CompressionKeeps
<1> HIDE DEF a, r, c
<1>6. old \o r \in Seq(Msg) /\ Identities(old \o r) = Identities(old) \cup Identities(r)
  <2>1. r \in Seq(Msg)
    BY <1>5
  <2> QED
    BY <2>1, ConcatProperties, IdentitiesConcat
<1>7. saved' \in [history : Seq(Msg), archive : Seq(Msg), paused : {None} \cup Paused]
      /\ saved'.history = c /\ saved'.archive = old \o r /\ saved'.paused = saved.paused
  BY <1>3, <1>4, <1>5, <1>6 DEF TypeInv
<1>8. ran \subseteq KnownSaved'
  <2>1. KnownSaved' = KnownSaved
    BY <1>1, <1>2, <1>5, <1>6, <1>7 DEF KnownSaved
  <2> QED
    BY <1>3, <1>4, <2>1 DEF KnownInv
<1>9. Truthful(c, ran) /\ Truthful(old \o r, ran)
  <2>1. Truthful(h, ran) /\ Truthful(old, ran)
    BY <1>1, <1>2 DEF LoopInv, TruthInv
  <2> QED
    BY <1>5, <2>1, TruthfulConcat
<1>10. Len(h) \in Nat /\ a \in Nat
  BY <1>5, LenProperties
<1>11. CASE saved.paused = None
  <2>1. WellFormed(h)
    BY <1>1, <1>11 DEF LoopInv, RoundsInv, CheckpointIsResumable
  <2>2. CheckpointIsResumable' /\ PausedInv'
    BY <1>5, <1>7, <1>11, <2>1 DEF CheckpointIsResumable, PausedInv
  <2> QED
    BY <1>3, <1>7, <1>8, <1>9, <2>2, CheckpointStep
<1>12. CASE saved.paused # None
  <2> DEFINE s == Front(h)
             f == Front(c)
  <2>1. PICK p \in Paused : p = saved.paused
    BY <1>4, <1>12 DEF TypeInv
  <2>2. /\ h # <<>> /\ WellFormed(s) /\ Last(h) = Request(p.calls)
        /\ p.call \in ToSet(p.calls)
    BY <1>1, <1>12, <2>1 DEF LoopInv, RoundsInv, CheckpointIsResumable
  <2>3. /\ s \in Seq(Msg) /\ Len(s) = Len(h) - 1 /\ h[Len(h)] = Request(p.calls)
        /\ \A i \in 1 .. Len(h) - 1 : s[i] = h[i]
    BY <2>2, FrontFacts
  <2>4. c # <<>> /\ Len(c) \in Nat
    <3>1. Len(c) # 0 /\ Len(c) \in Nat
      BY <1>5, <1>10
    <3> QED
      BY <3>1, EmptySeq
  <2>5. /\ f \in Seq(Msg) /\ Len(f) = Len(c) - 1 /\ Last(c) = c[Len(c)]
        /\ \A i \in 1 .. Len(c) - 1 : f[i] = c[i]
    BY <1>5, <2>4, FrontFacts
  <2>6. a <= Len(h) - 1
    <3>1. a # Len(h)
      BY <1>5, <2>3 DEF Request, Message
    <3> QED
      BY <1>5, <1>10, <3>1
  <2> HIDE DEF s, f
  <2> DEFINE tail == SubSeq(s, a, Len(s))
  <2>7. /\ tail \in Seq(Msg) /\ Len(tail) = Len(s) - a + 1
        /\ \A i \in 1 .. Len(s) - a + 1 : tail[i] = s[i + a - 1]
    <3>1. a \in 1 .. Len(s) + 1 /\ Len(s) \in Nat /\ a - 1 <= Len(s) /\ Len(s) <= Len(s)
      BY <1>5, <1>10, <2>3, <2>6
    <3> QED
      BY <2>3, <3>1, SliceFacts
  <2> HIDE DEF tail
  <2>8. WellFormed(tail)
    <3>1. a \in 1 .. Len(s) /\ s[a].role = "user"
      BY <1>5, <1>10, <2>3, <2>6
    <3>2. \A i \in 1 .. Len(tail) : tail[i] = s[i + a - 1]
      BY <2>7
    <3> QED
      BY <2>2, <2>3, <2>7, <3>1, <3>2, Suffix
  <2>9. WellFormed(f)
    <3>1. Len(f) = Len(tail) + 1
      BY <1>5, <1>10, <2>3, <2>5, <2>7
    <3>2. f[1] = Summary
      <4>1. 1 \in 1 .. Len(c) - 1
        BY <1>5, <1>10, <2>6
      <4>2. f[1] = c[1]
        BY <2>5, <4>1
      <4> QED
        BY <1>5, <4>2
    <3>3. ASSUME NEW i \in 1 .. Len(tail) PROVE f[i + 1] = tail[i]
      <4>1. /\ i \in 1 .. Len(h) - a + 1 /\ i + 1 \in 1 .. Len(c) - 1
            /\ i + a - 1 \in 1 .. Len(h) - 1 /\ i \in 1 .. Len(s) - a + 1
        BY <1>5, <1>10, <2>3, <2>7
      <4>2. f[i + 1] = c[i + 1] /\ c[i + 1] = h[i + a - 1]
        BY <1>5, <2>5, <4>1
      <4>3. tail[i] = s[i + a - 1] /\ s[i + a - 1] = h[i + a - 1]
        BY <2>3, <2>7, <4>1
      <4> QED
        BY <4>2, <4>3
    <3>4. Summary.role = "summary"
      BY DEF Summary, Message
    <3> QED
      BY <2>5, <2>7, <2>8, <3>1, <3>2, <3>3, <3>4, PlainFirst
  <2>10. c[Len(c)] = h[Len(h)]
    <3> DEFINE i == Len(h) - a + 1
    <3>1. i \in 1 .. Len(h) - a + 1 /\ i + 1 = Len(c) /\ i + a - 1 = Len(h)
      BY <1>5, <1>10
    <3> HIDE DEF i
    <3> QED
      BY <1>5, <3>1
  <2>11. CheckpointIsResumable'
    <3>1. WellFormed(Front(c)) /\ Last(c) = Request(p.calls)
      BY <2>3, <2>5, <2>9, <2>10 DEF f
    <3> QED
      BY <1>7, <1>12, <2>1, <2>2, <2>4, <3>1 DEF CheckpointIsResumable
  <2>12. PausedInv'
    <3>1. /\ ran \cap ToSet(p.calls) = {}
          /\ \A i \in 1 .. Len(h) - 1 : ToSet(h[i].of) \cap ToSet(p.calls) = {}
      BY <1>1, <1>4, <1>12, <2>1 DEF PausedInv
    <3>2. ASSUME NEW i \in 1 .. Len(c) - 1 PROVE ToSet(c[i].of) \cap ToSet(p.calls) = {}
      <4>1. CASE i = 1
        <5>1. ToSet(Summary.of) = {}
          BY DEF Summary, Message, ToSet
        <5> QED
          BY <1>5, <4>1, <5>1
      <4>2. CASE i # 1
        <5> DEFINE j == i - 1
        <5>1. /\ j \in 1 .. Len(h) - a + 1 /\ j + 1 = i
              /\ j + a - 1 \in 1 .. Len(h) - 1
          BY <1>5, <1>10, <4>2
        <5> HIDE DEF j
        <5>2. c[i] = h[j + a - 1]
          BY <1>5, <5>1
        <5> QED
          BY <3>1, <5>1, <5>2
      <4> QED
        BY <4>1, <4>2
    <3>3. ran' = ran
      BY <1>3
    <3> QED
      BY <1>7, <2>1, <3>1, <3>2, <3>3 DEF PausedInv
  <2> QED
    BY <1>3, <1>7, <1>8, <1>9, <2>11, <2>12, CheckpointStep
<1> QED
  BY <1>11, <1>12

-----------------------------------------------------------------------------
(* The theorems.                                                           *)

\* The invariant holds initially.
LEMMA LoopInit ==
  ASSUME LoopAssumption, Init
  PROVE  LoopInv
<1>1. TypeInv
  BY NothingAwaited DEF Init, TypeInv
<1>2. BreakerInv
  <2>1. \A t \in Tools : failures[t] = 0 /\ ~ (0 >= FailureThreshold)
    BY DEF Init, LoopAssumption
  <2> QED
    BY <2>1 DEF Init, BreakerInv, RestsAfterFailures
<1>3. PlanInv
  <2>1. DOMAIN plan = {}
    BY DEF Init
  <2> QED
    BY <2>1 DEF PlanInv
<1>4. KnownInv /\ PausedInv
  BY DEF Init, KnownInv, PausedInv
<1>5. TruthInv
  BY NothingAwaited DEF Init, TruthInv
<1>6. RoundsInv
  BY NothingAwaited DEF Init, RoundsInv, CheckpointIsResumable
<1> QED
  BY <1>1, <1>2, <1>3, <1>4, <1>5, <1>6 DEF LoopInv

\* Every step keeps the invariant.
LEMMA LoopStep ==
  ASSUME LoopAssumption, LoopInv, [Next]_vars
  PROVE  LoopInv'
<1>1. CASE Run
  BY <1>1, RunStep
<1>2. CASE Resume
  BY <1>2, ResumeStep
<1>3. CASE Compress
  BY <1>3, CompressStep
<1>4. CASE FitsWindow
  <2>1. plan = <<>> /\ pc # "idle" /\ step \in Nat
    BY <1>4 DEF FitsWindow, LoopInv, TypeInv
  <2> QED
    BY <1>4, <2>1, PlainStep DEF FitsWindow, memory
<1>5. CASE ModelAnswers \/ Finalize
  BY <1>5, AnswerStep DEF ModelAnswers, Finalize
<1>6. ASSUME NEW round \in Rounds, Replan(round) PROVE LoopInv'
  <2>1. plan = <<>> /\ pc # "idle" /\ step \in Nat
    BY <1>6 DEF Replan, LoopInv, TypeInv
  <2> QED
    BY <1>6, <2>1, PlainStep DEF Replan, NextStep
<1>7. ASSUME NEW round \in Rounds, Pause(round) PROVE LoopInv'
  BY <1>7, PauseStep
<1>8. ASSUME NEW round \in Rounds, StartRound(round) PROVE LoopInv'
  BY <1>8, StartRoundStep
<1>9. CASE Refuse
  BY <1>9, RefuseStep
<1>10. CASE Execute
  BY <1>10, ExecuteStep
<1>11. CASE Raise \/ OutOfIds
  BY <1>11, AbortStep DEF Raise, OutOfIds, KnownSaved
<1>12. CASE Expire
  BY <1>12, ExpireStep
<1>13. CASE Compact
  BY <1>13, CompactStep
<1>14. CASE UNCHANGED vars
  BY <1>14
     DEF vars, memory, LoopInv, TypeInv, BreakerInv, RestsAfterFailures, PlanInv, KnownInv,
         PausedInv, TruthInv, RoundsInv, CheckpointIsResumable, Known, KnownSaved
<1> QED
  BY <1>1, <1>2, <1>3, <1>4, <1>5, <1>6, <1>7, <1>8, <1>9, <1>10, <1>11, <1>12, <1>13,
     <1>14 DEF Next, TurnStep

\* The invariant holds in every behaviour: types, the breaker, the identities
\* of calls, what is reported of them and the form of the conversation.
THEOREM LoopInvariant == Spec => []LoopInv
<1>1. Init => LoopInv
  BY LoopAssumption, LoopInit
<1>2. LoopInv /\ [Next]_vars => LoopInv'
  BY LoopAssumption, LoopStep
<1> QED
  BY <1>1, <1>2, PTL DEF Spec

\* Whatever is refused, resumed, replanned or compressed: the model is sent
\* every call followed by exactly its results.
THEOREM ModelIsSentWellFormed == Spec => []ModelInputIsWellFormed
<1>1. LoopInv => ModelInputIsWellFormed
  <2> SUFFICES ASSUME LoopInv, pc \in {"model", "final"} PROVE WellFormed(messages)
    BY DEF ModelInputIsWellFormed
  <2>1. messages \in Seq(Msg) /\ plan = <<>>
    BY DEF LoopInv, TypeInv
  <2> QED
    BY <2>1, NothingAwaited DEF LoopInv, RoundsInv
<1> QED
  BY <1>1, LoopInvariant, PTL

\* A checkpoint can be resumed whenever it is read, after compactions,
\* expiries and turns that raised too.
THEOREM CheckpointsAreResumable == Spec => []CheckpointIsResumable
<1>1. LoopInv => CheckpointIsResumable
  BY DEF LoopInv, RoundsInv
<1> QED
  BY <1>1, LoopInvariant, PTL

\* A message reports a call as executed exactly when the registry executed it.
THEOREM ReportsStayTrue == Spec => []ReportsAreTrue
<1>1. LoopInv => ReportsAreTrue
  BY DEF LoopInv, TruthInv, Truthful, ReportsAreTrue, ToSet
<1> QED
  BY <1>1, LoopInvariant, PTL

\* The counts of the breaker and its time stamps agree.
THEOREM BreakerRests == Spec => []RestsAfterFailures
<1>1. LoopInv => RestsAfterFailures
  BY DEF LoopInv, BreakerInv
<1> QED
  BY <1>1, LoopInvariant, PTL

-----------------------------------------------------------------------------
(* Nothing said is lost.                                                   *)

Spoken(h) == {i \in DOMAIN h : h[i].role # "summary"}

\* What was said in two lists is what was said in each.
LEMMA SaidConcat ==
  ASSUME NEW s \in Seq(Msg), NEW t \in Seq(Msg)
  PROVE  /\ Said(s) \in Seq(Msg) /\ Said(t) \in Seq(Msg) /\ Said(s \o t) \in Seq(Msg)
         /\ Said(s \o t) = Said(s) \o Said(t)
<1> DEFINE u == s \o t
           m == Len(s)
           n == Len(t)
           P == Spoken(s)
           Q == Spoken(t)
<1>1. /\ m \in Nat /\ n \in Nat /\ DOMAIN s = 1 .. m /\ DOMAIN t = 1 .. n
      /\ u \in Seq(Msg) /\ DOMAIN u = 1 .. m + n
      /\ \A i \in 1 .. m + n : u[i] = IF i <= m THEN s[i] ELSE t[i - m]
  <2>1. /\ u \in Seq(Msg) /\ Len(u) = m + n
        /\ \A i \in 1 .. m + n : u[i] = IF i <= m THEN s[i] ELSE t[i - m]
    BY ConcatProperties
  <2> HIDE DEF u
  <2> QED
    BY <2>1, LenProperties
<1> HIDE DEF u
<1>2. P \in SUBSET (1 .. m) /\ Q \in SUBSET (1 .. n) /\ Spoken(u) \in SUBSET (1 .. m + n)
  BY <1>1 DEF Spoken
<1>3. ASSUME NEW i PROVE i \in Spoken(u) <=> i \in P \cup Shifted(m, Q)
  <2>1. CASE i \in 1 .. m
    <3>1. i \in DOMAIN u /\ u[i] = s[i] /\ i \in DOMAIN s
      BY <1>1, <2>1
    <3>2. \A j \in Q : m + j # i
      BY <1>1, <1>2, <2>1
    <3> QED
      BY <3>1, <3>2 DEF Spoken, Shifted
  <2>2. CASE i \in m + 1 .. m + n
    <3> DEFINE j == i - m
    <3>1. i \in DOMAIN u /\ u[i] = t[j] /\ j \in DOMAIN t /\ i \notin DOMAIN s /\ i = m + j
      BY <1>1, <2>2
    <3>2. \A k \in DOMAIN t : m + k = i => k = j
      BY <1>1, <2>2
    <3> HIDE DEF j
    <3>3. i \in Spoken(u) <=> j \in Q
      BY <3>1 DEF Spoken
    <3>4. i \in Shifted(m, Q) <=> j \in Q
      <4>1. \A k \in Q : k \in DOMAIN t
        BY DEF Spoken
      <4> QED
        BY <3>1, <3>2, <4>1 DEF Shifted
    <3>5. i \notin P
      BY <3>1 DEF Spoken
    <3> QED
      BY <3>3, <3>4, <3>5
  <2>3. CASE i \notin 1 .. m /\ i \notin m + 1 .. m + n
    <3>1. i \notin DOMAIN u /\ i \notin DOMAIN s
      BY <1>1, <2>3
    <3>2. \A j \in Q : m + j \in m + 1 .. m + n
      BY <1>1, <1>2
    <3> QED
      BY <2>3, <3>1, <3>2 DEF Spoken, Shifted
  <2> QED
    BY <2>1, <2>2, <2>3
<1>4. Spoken(u) = P \cup Shifted(m, Q)
  BY <1>3
<1>5. At(Joined(s, t), P \cup Shifted(m, Q)) = Joined(At(s, P), At(t, Q))
  <2> HIDE DEF P, Q
  <2> QED
    BY <1>2, AtConcat
<1>6. Said(u) = Said(s) \o Said(t)
  <2>1. Said(u) = At(u, Spoken(u)) /\ Said(s) = At(s, P) /\ Said(t) = At(t, Q)
    BY DEF Said, Spoken
  <2>2. Joined(s, t) = u
    BY DEF Joined, u
  <2> HIDE DEF P, Q
  <2>3. Said(u) = Joined(Said(s), Said(t))
    BY <1>4, <1>5, <2>1, <2>2
  <2> QED
    BY <2>3 DEF Joined
<1>7. Said(s) \in Seq(Msg) /\ Said(t) \in Seq(Msg)
  <2>1. Said(s) = At(s, P) /\ Said(t) = At(t, Q)
    BY DEF Said, Spoken
  <2> HIDE DEF P, Q
  <2> QED
    BY <1>2, <2>1, AtFacts
<1>8. Said(u) \in Seq(Msg)
  <2>1. Said(s) \in Seq(Msg) /\ Said(t) \in Seq(Msg)
    BY <1>7
  <2> QED
    BY <1>6, <2>1, ConcatProperties
<1> QED
  BY <1>6, <1>7, <1>8 DEF u

\* A message is said, a summary is not.
LEMMA SaidOne ==
  /\ \A m \in Msg : m.role # "summary" => Said(<<m>>) = <<m>>
  /\ Said(<<Summary>>) = <<>>
<1>1. ASSUME NEW m \in Msg PROVE <<m>> \in Seq(Msg) /\ Len(<<m>>) = 1 /\ <<m>>[1] = m
                                 /\ DOMAIN <<m>> = 1 .. 1
  OBVIOUS
<1>2. ASSUME NEW m \in Msg, m.role # "summary" PROVE Said(<<m>>) = <<m>>
  <2>1. Spoken(<<m>>) = 1 .. Len(<<m>>)
    BY <1>1, <1>2 DEF Spoken
  <2>2. At(<<m>>, 1 .. Len(<<m>>)) = <<m>>
    BY <1>1, AtAll
  <2> QED
    BY <2>1, <2>2 DEF Said, Spoken
<1>3. Said(<<Summary>>) = <<>>
  <2>1. Summary \in Msg /\ Summary.role = "summary"
    BY MessagesAreMsg DEF Summary, Message
  <2>2. Spoken(<<Summary>>) = {}
    BY <1>1, <2>1 DEF Spoken
  <2>3. At(<<Summary>>, {}) = <<>>
    BY <1>1, <2>1, AtNothing
  <2> QED
    BY <2>2, <2>3 DEF Said, Spoken
<1> QED
  BY <1>2, <1>3

\* The archived messages and the rest are the list, and say what it says.
LEMMA SaidCompressed ==
  ASSUME LoopAssumption, NEW h \in Seq(Msg), KeepFrom(h) > 1
  PROVE  Said(Archived(h)) \o Said(Compressed(h)) = Said(h)
<1> DEFINE a == KeepFrom(h)
           r == Archived(h)
           c == Compressed(h)
           t == SubSeq(h, a, Len(h))
<1>1. /\ r \in Seq(Msg) /\ Len(r) = a - 1 /\ \A i \in 1 .. Len(r) : r[i] = h[i]
      /\ a \in 2 .. Len(h) /\ Len(h) \in Nat
  BY CompressionFacts, LenProperties
<1>2. /\ t \in Seq(Msg) /\ Len(t) = Len(h) - a + 1
      /\ \A i \in 1 .. Len(h) - a + 1 : t[i] = h[i + a - 1]
  <2> HIDE DEF a
  <2> QED
    BY <1>1, SliceFacts
<1>3. c = <<Summary>> \o t
  BY DEF Compressed
<1>4. <<Summary>> \in Seq(Msg)
  BY MessagesAreMsg
<1> HIDE DEF a, r, c, t
<1>5. r \o t = h
  <2> DEFINE g == r \o t
  <2>1. /\ g \in Seq(Msg) /\ Len(g) = Len(r) + Len(t)
        /\ \A i \in 1 .. Len(r) + Len(t) : g[i] = IF i <= Len(r) THEN r[i] ELSE t[i - Len(r)]
    <3>1. r \in Seq(Msg) /\ t \in Seq(Msg)
      BY <1>1, <1>2
    <3> QED
      BY <3>1, ConcatProperties
  <2> HIDE DEF g
  <2>2. Len(g) = Len(h)
    BY <1>1, <1>2, <2>1
  <2>3. ASSUME NEW i \in 1 .. Len(g) PROVE g[i] = h[i]
    <3>1. CASE i <= Len(r)
      BY <1>1, <1>2, <2>1, <3>1
    <3>2. CASE ~ (i <= Len(r))
      <4> DEFINE j == i - Len(r)
      <4>1. j \in 1 .. Len(h) - a + 1 /\ j + a - 1 = i
        BY <1>1, <1>2, <2>2, <3>2
      <4>2. g[i] = t[j]
        BY <2>1, <3>2
      <4> HIDE DEF j
      <4> QED
        BY <1>2, <4>1, <4>2
    <3> QED
      BY <3>1, <3>2
  <2>4. g = h
    BY <2>1, <2>2, <2>3, SeqEqual
  <2> QED
    BY <2>4 DEF g
<1>6. r \in Seq(Msg) /\ t \in Seq(Msg)
  BY <1>1, <1>2
<1>7. Said(h) = Said(r) \o Said(t)
  BY <1>5, <1>6, SaidConcat
<1>8. Said(c) = Said(t)
  <2>1. Said(c) = <<>> \o Said(t)
    BY <1>3, <1>4, <1>6, SaidConcat, SaidOne
  <2>2. Said(t) \in Seq(Msg)
    BY <1>6, SaidConcat
  <2> QED
    BY <2>1, <2>2, ConcatEmptySeq
<1> QED
  BY <1>7, <1>8 DEF r, c

\* The second list is the first one with something added at its end.
Grown(s, t) ==
  s \in Seq(Msg) /\ t \in Seq(Msg) /\ \E u \in Seq(Msg) : t = Joined(s, u)

\* A list grows by what is put after it, also by nothing.
LEMMA GrownFacts ==
  ASSUME NEW s \in Seq(Msg)
  PROVE  /\ Grown(s, s)
         /\ \A u \in Seq(Msg) : Grown(s, Joined(s, u))
<1>1. Joined(s, <<>>) = s /\ <<>> \in Seq(Msg)
  BY ConcatEmptySeq, EmptySeq DEF Joined
<1>2. \A u \in Seq(Msg) : Joined(s, u) \in Seq(Msg)
  BY ConcatProperties DEF Joined
<1> QED
  BY <1>1, <1>2 DEF Grown

\* What grows twice has grown.
LEMMA GrownTwice ==
  ASSUME NEW a, NEW b, NEW c, Grown(a, b), Grown(b, c)
  PROVE  Grown(a, c)
<1>1. PICK u \in Seq(Msg) : b = Joined(a, u)
  BY DEF Grown
<1>2. PICK v \in Seq(Msg) : c = Joined(b, v)
  BY DEF Grown
<1>3. a \in Seq(Msg) /\ b \in Seq(Msg) /\ c \in Seq(Msg)
  BY DEF Grown
<1>4. Joined(Joined(a, u), v) = Joined(a, Joined(u, v)) /\ Joined(u, v) \in Seq(Msg)
  BY <1>3, JoinedFacts
<1> QED
  BY <1>1, <1>2, <1>3, <1>4 DEF Grown

\* What a list has grown from is a prefix of it.
LEMMA GrownPrefix ==
  ASSUME NEW s, NEW t, Grown(s, t)
  PROVE  IsPrefix(s, t)
<1>1. PICK u \in Seq(Msg) : t = Joined(s, u)
  BY DEF Grown
<1>2. s \in Seq(Msg) /\ t \in Seq(Msg)
  BY DEF Grown
<1>3. /\ Len(t) = Len(s) + Len(u) /\ Len(s) \in Nat /\ Len(u) \in Nat
      /\ \A i \in 1 .. Len(s) + Len(u) : t[i] = IF i <= Len(s) THEN s[i] ELSE u[i - Len(s)]
  BY <1>1, <1>2, ConcatProperties, LenProperties DEF Joined
<1>4. \A i \in 1 .. Len(s) : t[i] = s[i]
  BY <1>3
<1> DEFINE p == SubSeq(t, 1, Len(s))
<1>5. /\ p \in Seq(Msg) /\ Len(p) = Len(s)
      /\ \A i \in 1 .. Len(s) : p[i] = t[i]
  <2>1. /\ 1 \in 1 .. Len(t) + 1 /\ Len(s) \in Nat /\ 1 - 1 <= Len(s) /\ Len(s) <= Len(t)
        /\ Len(s) - 1 + 1 = Len(s) /\ \A i \in 1 .. Len(s) : i + 1 - 1 = i
    BY <1>3
  <2>2. /\ p \in Seq(Msg) /\ Len(p) = Len(s) - 1 + 1
        /\ \A i \in 1 .. Len(s) - 1 + 1 : p[i] = t[i + 1 - 1]
    BY <1>2, <2>1, SliceFacts
  <2> HIDE DEF p
  <2> QED
    BY <2>1, <2>2
<1> HIDE DEF p
<1>6. p = s
  BY <1>2, <1>4, <1>5, SeqEqual
<1>7. SubSeq(s, 1, Len(s)) = s
  BY <1>2, SubSeqFull
<1> QED
  BY <1>3, <1>6, <1>7 DEF IsPrefix, p

\* More history is more said.
LEMMA SaidGrows ==
  ASSUME NEW a \in Seq(Msg), NEW h \in Seq(Msg), NEW u \in Seq(Msg)
  PROVE  Grown(Said(a \o h), Said(a \o (h \o u)))
<1>1. a \o h \in Seq(Msg) /\ (a \o h) \o u = a \o (h \o u)
  BY ConcatProperties, ConcatAssociative
<1>2. Said((a \o h) \o u) = Joined(Said(a \o h), Said(u))
  BY <1>1, SaidConcat DEF Joined
<1>3. Said(a \o h) \in Seq(Msg) /\ Said(u) \in Seq(Msg)
  BY <1>1, SaidConcat
<1> QED
  BY <1>1, <1>2, <1>3, GrownFacts

\* A compression keeps what was said.
LEMMA SaidArchived ==
  ASSUME LoopAssumption, NEW a \in Seq(Msg), NEW h \in Seq(Msg), KeepFrom(h) > 1
  PROVE  Said((a \o Archived(h)) \o Compressed(h)) = Said(a \o h)
<1>1. PICK r \in Seq(Msg) : r = Archived(h)
  BY CompressionFacts
<1>2. PICK c \in Seq(Msg) : c = Compressed(h)
  BY CompressionFacts
<1>3. Joined(Joined(a, r), c) = Joined(a, Joined(r, c)) /\ Joined(r, c) \in Seq(Msg)
  BY JoinedFacts
<1>4. Said(Joined(a, Joined(r, c))) = Joined(Said(a), Said(Joined(r, c)))
  BY <1>3, SaidConcat DEF Joined
<1>5. Said(Joined(r, c)) = Said(h)
  <2>1. Said(Joined(r, c)) = Joined(Said(r), Said(c))
    BY SaidConcat DEF Joined
  <2>2. Joined(Said(r), Said(c)) = Said(h)
    BY <1>1, <1>2, SaidCompressed DEF Joined
  <2> QED
    BY <2>1, <2>2
<1>6. Said(a \o h) = Joined(Said(a), Said(h))
  BY SaidConcat DEF Joined
<1>7. Said(Joined(Joined(a, r), c)) = Said(a \o h)
  BY <1>3, <1>4, <1>5, <1>6
<1> QED
  BY <1>1, <1>2, <1>7 DEF Joined

\* What a turn has at hand, archived or not, continues what the checkpoint says.
GrowInv == pc # "idle" => Grown(Transcript(saved), Said(archive \o history))

\* A message at the end of a history of a turn.
LEMMA TurnGrows ==
  ASSUME LoopInv, GrowInv, pc # "idle", NEW m \in Msg
  PROVE  Grown(Transcript(saved), Said(archive \o Append(history, m)))
<1>1. archive \in Seq(Msg) /\ history \in Seq(Msg)
  BY DEF LoopInv, TypeInv
<1>2. <<m>> \in Seq(Msg) /\ Append(history, m) = history \o <<m>>
  BY <1>1, AppendIsConcat
<1>3. Grown(Said(archive \o history), Said(archive \o (history \o <<m>>)))
  BY <1>1, <1>2, SaidGrows
<1>4. Grown(Transcript(saved), Said(archive \o history))
  BY DEF GrowInv
<1> QED
  BY <1>2, <1>3, <1>4, GrownTwice

\* A turn that starts with more than the checkpoint's history.
LEMMA StartGrows ==
  ASSUME LoopInv, NEW u \in Seq(Msg), NEW at, NEW hook, saved' = saved,
         Starts(saved.history \o u, at, hook)
  PROVE  GrowInv'
<1>1. saved.archive \in Seq(Msg) /\ saved.history \in Seq(Msg)
  BY DEF LoopInv, TypeInv
<1>2. archive' = saved.archive /\ history' = saved.history \o u
  BY DEF Starts
<1>3. Grown(Transcript(saved), Said(saved.archive \o (saved.history \o u)))
  BY <1>1, SaidGrows DEF Transcript
<1> QED
  BY <1>2, <1>3 DEF GrowInv, Transcript

\* A turn that ends saves what it has said.
LEMMA SaveGrows ==
  ASSUME LoopInv, GrowInv, pc # "idle", NEW m \in Msg, NEW paused,
         Saves(Append(history, m), paused)
  PROVE  GrowInv' /\ Grown(Transcript(saved), Transcript(saved'))
<1>1. pc' = "idle" /\ saved' = Checkpoint(Append(history, m), paused)
  BY DEF Saves
<1>2. Transcript(Checkpoint(Append(history, m), paused)) = Said(archive \o Append(history, m))
  BY DEF Transcript, Checkpoint
<1>3. Grown(Transcript(saved), Transcript(saved'))
  BY <1>1, <1>2, TurnGrows DEF Transcript
<1> QED
  BY <1>1, <1>3 DEF GrowInv

\* An expired question goes and an answer comes; the rest stays.
LEMMA ExpireGrows ==
  ASSUME LoopAssumption, LoopInv, Expire
  PROVE  /\ GrowInv' /\ saved.paused # None
         /\ IsPrefix(Front(Transcript(saved)), Transcript(saved'))
<1>1. PICK h \in Seq(Msg) : h = saved.history /\ h # <<>>
  BY ExpireFacts
<1>2. PICK a \in Seq(Msg) : a = saved.archive
  BY ExpireFacts
<1>3. PICK m \in Msg : m = Answer(NextIdentity)
  BY ExpireFacts
<1>4. PICK f \in Seq(Msg) : f = Front(h)
  BY <1>1, FrontFacts
<1>5. PICK q \in Msg : q = Last(h) /\ q.role = "tool_calls"
  <2>1. Last(h) = Request(saved.paused.calls)
    BY <1>1, ExpireFacts
  <2>2. Last(h) \in Msg
    <3>1. Last(h) = h[Len(h)] /\ Len(h) \in 1 .. Len(h)
      BY <1>1, FrontFacts
    <3> QED
      BY <3>1, ElementOfSeq
  <2> QED
    BY <2>1, <2>2 DEF Request, Message
<1>6. h = Append(f, q)
  <2> DEFINE g == Append(f, q)
  <2>1. /\ g \in Seq(Msg) /\ Len(g) = Len(f) + 1 /\ g[Len(f) + 1] = q
        /\ \A i \in 1 .. Len(f) : g[i] = f[i]
    BY AppendProperties
  <2>2. /\ Len(h) \in Nat \ {0} /\ Len(f) = Len(h) - 1 /\ q = h[Len(h)]
        /\ \A i \in 1 .. Len(h) - 1 : f[i] = h[i]
    BY <1>1, <1>4, <1>5, FrontFacts
  <2> HIDE DEF g
  <2>3. Len(g) = Len(h)
    BY <2>1, <2>2
  <2>4. ASSUME NEW i \in 1 .. Len(h) PROVE h[i] = g[i]
    <3>1. i = Len(h) \/ i \in 1 .. Len(h) - 1
      BY <2>2
    <3> QED
      BY <2>1, <2>2, <3>1
  <2>5. h = g
    BY <2>1, <2>3, <2>4, SeqEqual
  <2> QED
    BY <2>5 DEF g
<1> DEFINE z == Said(Joined(a, f))
<1>7. z \in Seq(Msg) /\ Joined(a, f) \in Seq(Msg)
  <2>1. Joined(a, f) \in Seq(Msg)
    BY JoinedFacts
  <2> QED
    BY <2>1, SaidConcat
<1>8. ASSUME NEW x \in Msg, x.role # "summary"
      PROVE  Said(a \o Append(f, x)) = Append(z, x)
  <2>1. <<x>> \in Seq(Msg) /\ Append(f, x) = Joined(f, <<x>>)
    BY AppendIsConcat DEF Joined
  <2>2. Joined(Joined(a, f), <<x>>) = Joined(a, Joined(f, <<x>>))
    <3>1. \A u \in Seq(Msg) : Joined(Joined(a, f), u) = Joined(a, Joined(f, u))
      BY JoinedFacts
    <3> QED
      BY <2>1, <3>1
  <2>3. Said(Joined(Joined(a, f), <<x>>)) = Joined(z, Said(<<x>>))
    BY <1>7, <2>1, SaidConcat DEF Joined
  <2>4. Said(<<x>>) = <<x>>
    BY <1>8, SaidOne
  <2>5. Append(z, x) = Joined(z, <<x>>)
    <3> HIDE DEF z
    <3> QED
      BY <1>7, AppendIsConcat DEF Joined
  <2>6. Said(Joined(a, Append(f, x))) = Append(z, x)
    BY <2>1, <2>2, <2>3, <2>4, <2>5
  <2> QED
    BY <2>6 DEF Joined
<1> HIDE DEF z
<1>9. Transcript(saved) = Append(z, q)
  BY <1>1, <1>2, <1>5, <1>6, <1>8 DEF Transcript
<1>10. Transcript(saved') = Append(z, m)
  <2>1. saved'.archive = a /\ saved'.history = Append(f, m) /\ m.role # "summary"
    BY <1>1, <1>2, <1>3, <1>4, ExpireFacts
  <2> QED
    BY <1>8, <2>1 DEF Transcript
<1>11. Front(Append(z, q)) = z
  BY <1>7, FrontAppend
<1>12. Grown(z, Append(z, m))
  <2>1. <<m>> \in Seq(Msg) /\ Append(z, m) = Joined(z, <<m>>)
    BY <1>7, AppendIsConcat DEF Joined
  <2> QED
    BY <1>7, <2>1, GrownFacts
<1>13. IsPrefix(Front(Transcript(saved)), Transcript(saved'))
  BY <1>9, <1>10, <1>11, <1>12, GrownPrefix
<1>14. GrowInv'
  BY DEF Expire, GrowInv
<1> QED
  BY <1>13, <1>14 DEF Expire

\* Every step keeps what was said, but for the question that expires.
LEMMA GrowStep ==
  ASSUME LoopAssumption, LoopInv, GrowInv, [Next]_vars
  PROVE  /\ GrowInv'
         /\ \/ saved' = saved
            \/ IsPrefix(Transcript(saved), Transcript(saved'))
            \/ saved.paused # None
               /\ IsPrefix(Front(Transcript(saved)), Transcript(saved'))
<1> USE DEF GrowInv
<1>1. CASE Run
  <2>1. saved' = saved /\ saved.history \in Seq(Msg) /\ NextIdentity \in 1 .. MaxIds
    BY <1>1, FreshFacts DEF Run, LoopInv, TypeInv, LoopAssumption
  <2>2. <<User(NextIdentity)>> \in Seq(Msg)
    BY <2>1, MessagesAreMsg
  <2>3. Append(saved.history, User(NextIdentity)) = saved.history \o <<User(NextIdentity)>>
    BY <2>1, <2>2, AppendIsConcat
  <2>4. Starts(saved.history \o <<User(NextIdentity)>>, 1, TRUE)
    BY <1>1, <2>3 DEF Run
  <2> QED
    BY <2>1, <2>2, <2>4, StartGrows
<1>2. CASE Resume
  <2>1. PICK p \in Paused : p = saved.paused
    BY <1>2 DEF Resume, LoopInv, TypeInv
  <2>2. ResumedResults(p) \in Seq(Msg)
    BY ResumedFacts
  <2>3. saved' = saved /\ Starts(saved.history \o ResumedResults(p), p.step + 1, FALSE)
    BY <1>2, <2>1 DEF Resume
  <2> QED
    BY <2>2, <2>3, StartGrows
<1>3. CASE Compress
  <2>1. PICK h \in Seq(Msg) : h = history
    BY DEF LoopInv, TypeInv
  <2>2. PICK a \in Seq(Msg) : a = archive
    BY DEF LoopInv, TypeInv
  <2>3. /\ KeepFrom(h) > 1 /\ pc # "idle" /\ saved' = saved
        /\ archive' = a \o Archived(h) /\ history' = Compressed(h)
    BY <1>3, <2>1, <2>2 DEF Compress
  <2>4. Said((a \o Archived(h)) \o Compressed(h)) = Said(a \o h)
    BY <2>3, SaidArchived
  <2> QED
    BY <2>1, <2>2, <2>3, <2>4
<1>4. CASE FitsWindow
  BY <1>4 DEF FitsWindow, memory
<1>5. CASE ModelAnswers \/ Finalize
  <2>1. Answer(Fresh) \in Msg
    <3>1. Fresh \in 1 .. MaxIds
      BY <1>5, FreshFacts DEF ModelAnswers, Finalize, LoopInv, LoopAssumption
    <3> QED
      BY <3>1, MessagesAreMsg
  <2>2. pc # "idle" /\ Saves(Append(history, Answer(Fresh)), None)
    BY <1>5 DEF ModelAnswers, Finalize
  <2>3. GrowInv' /\ Grown(Transcript(saved), Transcript(saved'))
    BY <2>1, <2>2, SaveGrows
  <2> QED
    BY <2>3, GrownPrefix
<1>6. ASSUME NEW round \in Rounds, Replan(round) \/ Pause(round) \/ StartRound(round)
      PROVE  /\ GrowInv'
             /\ saved' = saved \/ IsPrefix(Transcript(saved), Transcript(saved'))
  <2>1. CASE Replan(round)
    BY <2>1 DEF Replan
  <2>2. CASE Pause(round) \/ StartRound(round)
    <3>1. pc # "idle" /\ Fresh + Len(round) - 1 <= MaxIds
      BY <2>2 DEF Pause, PausedRound, StartRound
    <3>2. Calls(round) \in Seq(1 .. MaxIds)
      BY <3>1, CallsFacts DEF LoopInv
    <3>3. PICK m \in Msg : m = Request(Calls(round))
      BY <3>2, MessagesAreMsg
    <3>4. CASE Pause(round)
      <4>1. PICK p : Saves(Append(history, m), p)
        BY <3>3, <3>4 DEF Pause, PausedRound
      <4>2. GrowInv' /\ Grown(Transcript(saved), Transcript(saved'))
        BY <3>1, <4>1, SaveGrows
      <4> QED
        BY <4>2, GrownPrefix
    <3>5. CASE StartRound(round)
      <4>1. saved' = saved /\ archive' = archive /\ history' = Append(history, m)
        BY <3>3, <3>5 DEF StartRound
      <4> QED
        BY <3>1, <4>1, TurnGrows
    <3> QED
      BY <2>2, <3>4, <3>5
  <2> QED
    BY <1>6, <2>1, <2>2
<1>7. CASE Refuse \/ Execute
  <2>1. PICK what \in Reports : Reported(what)
    BY <1>7 DEF Refuse, Execute, Rest, Try, Reports
  <2>2. pc = "execute" /\ plan # <<>> /\ plan \in Seq(PlannedCall)
    BY <1>7 DEF Refuse, Execute, LoopInv, TypeInv
  <2>3. Result(Head(plan).call, what) \in Msg
    <3>1. Head(plan) \in PlannedCall
      BY <2>2, HeadTailProperties
    <3>2. Head(plan).call \in 1 .. MaxIds
      BY <3>1 DEF PlannedCall
    <3> QED
      BY <3>2, MessagesAreMsg
  <2>4. /\ saved' = saved /\ archive' = archive
        /\ history' = Append(history, Result(Head(plan).call, what))
    BY <2>1 DEF Reported
  <2>5. Grown(Transcript(saved), Said(archive \o Append(history, Result(Head(plan).call, what))))
    BY <2>2, <2>3, TurnGrows
  <2> QED
    BY <2>4, <2>5
<1>8. CASE Raise \/ OutOfIds
  BY <1>8 DEF Raise, OutOfIds
<1>9. CASE Expire
  BY <1>9, ExpireGrows
<1>10. CASE Compact
  <2>1. PICK h \in Seq(Msg) : h = saved.history
    BY DEF LoopInv, TypeInv
  <2>2. PICK a \in Seq(Msg) : a = saved.archive
    BY DEF LoopInv, TypeInv
  <2>3. /\ KeepFrom(h) > 1 /\ pc' = "idle"
        /\ saved'.archive = a \o Archived(h) /\ saved'.history = Compressed(h)
    BY <1>10, <2>1, <2>2 DEF Compact, LoopInv, TypeInv
  <2>4. Said((a \o Archived(h)) \o Compressed(h)) = Said(a \o h) /\ Said(a \o h) \in Seq(Msg)
    BY <2>3, SaidArchived, SaidConcat
  <2>5. Transcript(saved') = Transcript(saved) /\ Transcript(saved) \in Seq(Msg)
    BY <2>1, <2>2, <2>3, <2>4 DEF Transcript
  <2>6. Grown(Transcript(saved), Transcript(saved'))
    BY <2>5, GrownFacts
  <2> QED
    BY <2>3, <2>6, GrownPrefix
<1>11. CASE UNCHANGED vars
  BY <1>11 DEF vars, memory
<1> QED
  BY <1>1, <1>2, <1>3, <1>4, <1>5, <1>6, <1>7, <1>8, <1>9, <1>10, <1>11 DEF Next, TurnStep

\* Nothing that was said is lost, said twice or moved, whatever is compressed,
\* compacted, raised or saved.
THEOREM NothingSaidIsLost == Spec => TranscriptOnlyGrows
<1> DEFINE before == Transcript(saved)
           after == Transcript(saved')
           Keeps == [ \/ IsPrefix(before, after)
                      \/ saved.paused # None /\ IsPrefix(Front(before), after) ]_saved
<1>1. Init => GrowInv
  BY DEF Init, GrowInv
<1>2. LoopInv /\ GrowInv /\ [Next]_vars => GrowInv' /\ Keeps
  BY LoopAssumption, GrowStep
<1> QED
  BY <1>1, <1>2, LoopInvariant, PTL DEF Spec, TranscriptOnlyGrows

=============================================================================
