--------------------------- MODULE ServicesProofs ---------------------------
(***************************************************************************)
(* What Services promises for any files, tokens, clients and limits.  Each *)
(* invariant concerns one of the services; the steps of the others leave   *)
(* its variables alone.                                                    *)
(***************************************************************************)
EXTENDS Services, PositionProofs

-----------------------------------------------------------------------------
(* Logins.                                                                 *)

\* A logged out token is nowhere.  A token that lives in memory only is not in
\* the file, and every token in use was issued.
AuthInv ==
  /\ now \in Nat
  /\ sessions \in [Tokens -> Nat]
  /\ persistent \in [Tokens -> Nat]
  /\ stored \in [Tokens -> Nat]
  /\ issued \subseteq Tokens
  /\ loggedOut \subseteq issued
  /\ \A t \in Tokens : sessions[t] > 0 =>
       t \in issued /\ persistent[t] = 0 /\ stored[t] = 0
  /\ \A t \in loggedOut : sessions[t] = 0 /\ persistent[t] = 0 /\ stored[t] = 0

\* Pruning removes tokens and adds none.
LEMMA UnexpiredFacts ==
  ASSUME AuthInv, NEW map \in [Tokens -> Nat]
  PROVE  /\ Unexpired(map) \in [Tokens -> Nat]
         /\ \A t \in Tokens : Unexpired(map)[t] > 0 => map[t] > 0
BY DEF AuthInv, Unexpired

\* A login puts a token in use that was in nobody's.
LEMMA LoginStep ==
  ASSUME AuthInv, AuthAssumption, NEW c \in Clients, NEW t \in Tokens, RightCode(c, t)
  PROVE  AuthInv'
<1> DEFINE long == [Unexpired(persistent) EXCEPT ![t] = now + LocalTtl]
<1>1. /\ now' = now /\ loggedOut' = loggedOut
      /\ t \notin issued /\ persistent[t] = 0 /\ stored[t] = 0
  BY DEF RightCode, Fresh, AuthInv
<1>2. /\ Unexpired(persistent) \in [Tokens -> Nat]
      /\ Unexpired(sessions) \in [Tokens -> Nat]
      /\ \A u \in Tokens : /\ Unexpired(persistent)[u] > 0 => persistent[u] > 0
                           /\ Unexpired(sessions)[u] > 0 => sessions[u] > 0
  BY UnexpiredFacts DEF AuthInv
<1>3. /\ long \in [Tokens -> Nat] /\ sessions[t] = 0 /\ t \notin loggedOut
      /\ \A u \in Tokens : u # t => long[u] = Unexpired(persistent)[u]
  BY <1>1, <1>2 DEF AuthInv, AuthAssumption
<1>4. CASE issued' = issued \cup {t} /\ c \in LocalClients
           /\ persistent' = long /\ stored' = long /\ sessions' = Unexpired(sessions)
  <2> HIDE DEF long
  <2> QED
    BY <1>1, <1>2, <1>3, <1>4 DEF AuthInv
<1>5. CASE issued' = issued \cup {t} /\ persistent' = Unexpired(persistent)
           /\ stored' \in {persistent', stored}
           /\ sessions' = [Unexpired(sessions) EXCEPT ![t] = now + SessionTtl]
  BY <1>1, <1>2, <1>3, <1>5 DEF AuthInv, AuthAssumption
<1>6. CASE issued' = issued /\ sessions' = Unexpired(sessions)
           /\ persistent' \in {Unexpired(persistent), long}
           /\ stored' \in {Unexpired(persistent), stored}
  <2> HIDE DEF long
  <2> QED
    BY <1>1, <1>2, <1>3, <1>6 DEF AuthInv
<1> QED
  BY <1>4, <1>5, <1>6 DEF RightCode

\* Every step of the service keeps logged out tokens out.
LEMMA AuthStep ==
  ASSUME AuthInv, AuthAssumption, AuthNext
  PROVE  AuthInv'
<1>1. CASE Tick
  BY <1>1 DEF Tick, AuthInv
<1>2. ASSUME NEW c \in Clients, LimitedLogin(c) \/ WrongCode(c)
      PROVE  AuthInv'
  BY <1>2 DEF LimitedLogin, WrongCode, AuthInv
<1>3. ASSUME NEW t \in Tokens, Validate(t)
      PROVE  AuthInv'
  BY <1>3 DEF Validate, AuthInv
<1>4. ASSUME NEW t \in Tokens, Logout(t)
      PROVE  AuthInv'
  BY <1>4 DEF Logout, LogoutStored, AuthInv
<1>5. CASE RestartAuth
  BY <1>5 DEF RestartAuth, NoSession, AuthInv
<1> QED
  BY <1>1, <1>2, <1>3, <1>4, <1>5, LoginStep DEF AuthNext

\* A token whose logout was saved is never admitted again, for any clients,
\* lifetimes and times, however saves fail and processes end.
THEOREM LoggedOutTokensStayOut == Spec => []LoggedOutStaysOut
<1>1. Init => AuthInv
  BY DEF Init, AuthInit, NoSession, AuthInv
<1>2. AuthInv /\ [Next]_<<auth, memory, listing, pool, worker, service>> => AuthInv'
  <2> SUFFICES ASSUME AuthInv, [Next]_<<auth, memory, listing, pool, worker, service>>
               PROVE  AuthInv'
    OBVIOUS
  <2>1. AuthNext \/ UNCHANGED auth
    BY DEF Next
  <2>2. CASE AuthNext
    BY <2>2, AuthStep, AuthAssumption
  <2>3. CASE UNCHANGED auth
    BY <2>3 DEF auth, AuthInv
  <2> QED
    BY <2>1, <2>2, <2>3
<1>3. AuthInv => LoggedOutStaysOut
  BY DEF AuthInv, LoggedOutStaysOut, Admitted
<1> QED
  BY <1>1, <1>2, <1>3, PTL DEF Spec

-----------------------------------------------------------------------------
(* The limit of logins.                                                    *)

\* The failures of a list that still count at a time.
Counting(s, t) == {i \in DOMAIN s : s[i] + FailureWindow > t}

\* Those of the attempts that are in the window that one of them opens.
Together(s, i) == {j \in DOMAIN s : s[j] \in s[i] .. s[i] + FailureWindow - 1}

\* What the login route counts is never less than what was really refused, at
\* this time or later, and what was refused keeps the limit.
LimitInv ==
  /\ now \in Nat
  /\ failures \in [Clients -> Seq(Nat)]
  /\ tried \in [Clients -> Seq(Nat)]
  /\ \A c \in Clients : \A t \in Nat :
       t >= now => Cardinality(Counting(tried[c], t)) <= Cardinality(Counting(failures[c], t))
  /\ \A c \in Clients : \A i \in DOMAIN tried[c] :
       Cardinality(Together(tried[c], i)) <= MaxFailures

\* They are positions of the list, finitely many.
LEMMA CountingFacts ==
  ASSUME NEW s \in Seq(Nat), NEW t \in Nat
  PROVE  /\ Counting(s, t) \in SUBSET (1 .. Len(s))
         /\ IsFiniteSet(Counting(s, t)) /\ Cardinality(Counting(s, t)) \in Nat
<1>1. Len(s) \in Nat /\ DOMAIN s = 1 .. Len(s)
  BY LenProperties
<1>2. Counting(s, t) \in SUBSET (1 .. Len(s))
  BY <1>1 DEF Counting
<1> QED
  BY <1>1, <1>2, PositionsFinite

\* Nothing counts in an empty list.
LEMMA CountingNothing ==
  ASSUME NEW t
  PROVE  Cardinality(Counting(<<>>, t)) = 0
<1>1. Counting(<<>>, t) = {}
  BY DEF Counting
<1> QED
  BY <1>1, FS_EmptySet

\* Forgetting what does not count now changes nothing for any later time.
LEMMA CountingKept ==
  ASSUME NEW s \in Seq(Nat), NEW t \in Nat, NEW u \in Nat, u >= t, FailureWindow \in Nat
  PROVE  LET kept == At(s, Counting(s, t))
         IN  /\ kept \in Seq(Nat) /\ Len(kept) = Cardinality(Counting(s, t))
             /\ Cardinality(Counting(kept, u)) = Cardinality(Counting(s, u))
<1> DEFINE P == Counting(s, t)
           T == Counting(s, u)
           kept == At(s, P)
<1>1. P \in SUBSET (1 .. Len(s))
  BY CountingFacts
<1>2. \A i \in DOMAIN s : s[i] \in Nat
  BY ElementOfSeq, LenProperties
<1>3. T \in SUBSET P
  <2>1. \A x \in Nat : x + FailureWindow > u => x + FailureWindow > t
    OBVIOUS
  <2> QED
    BY <1>2, <2>1 DEF Counting
<1>4. /\ kept \in Seq(Nat) /\ Len(kept) = Cardinality(P) /\ DOMAIN kept = 1 .. Cardinality(P)
      /\ \A k \in 1 .. Cardinality(P) : kept[k] = s[Nth(P, k)] /\ Nth(P, k) \in P
  <2> HIDE DEF P
  <2> QED
    BY <1>1, AtFacts
<1>5. Cardinality({k \in DOMAIN kept : Nth(P, k) \in T}) = Cardinality(T)
  <2> HIDE DEF P, T, kept
  <2>1. Cardinality(PlacesOf(s, P, T)) = Cardinality(T)
    BY <1>1, <1>3, AtCount
  <2>2. PlacesOf(s, P, T) = {k \in DOMAIN kept : Nth(P, k) \in T}
    BY DEF PlacesOf, kept
  <2> QED
    BY <2>1, <2>2
<1>6. \A i \in P : i \in T <=> s[i] + FailureWindow > u
  BY DEF Counting
<1>7. Counting(kept, u) = {k \in DOMAIN kept : Nth(P, k) \in T}
  <2>1. ASSUME NEW k \in DOMAIN kept
        PROVE  kept[k] + FailureWindow > u <=> Nth(P, k) \in T
    <3> HIDE DEF P, T, kept
    <3> QED
      BY <1>4, <1>6
  <2> HIDE DEF P, T, kept
  <2> QED
    BY <2>1 DEF Counting
<1> QED
  BY <1>4, <1>5, <1>7

\* One attempt more counts as one, as long as it counts.
LEMMA CountingOneMore ==
  ASSUME NEW s \in Seq(Nat), NEW x \in Nat, NEW t \in Nat, FailureWindow \in Nat
  PROVE  /\ Append(s, x) \in Seq(Nat)
         /\ Cardinality(Counting(Append(s, x), t))
              = Cardinality(Counting(s, t)) + (IF x + FailureWindow > t THEN 1 ELSE 0)
<1> DEFINE a == Append(s, x)
           n == Len(s)
<1>1. /\ n \in Nat /\ DOMAIN s = 1 .. n
      /\ a \in Seq(Nat) /\ Len(a) = n + 1
      /\ \A i \in 1 .. n : a[i] = s[i]
      /\ a[n + 1] = x
  BY LenProperties, AppendProperties
<1>2. DOMAIN a = 1 .. n + 1
  BY <1>1, LenProperties
<1> HIDE DEF a
<1>3. /\ Counting(s, t) \in SUBSET (1 .. n)
      /\ IsFiniteSet(Counting(s, t)) /\ Cardinality(Counting(s, t)) \in Nat
  BY CountingFacts
<1>4. n + 1 \notin Counting(s, t)
  BY <1>1, <1>3
<1> HIDE DEF n
<1>5. CASE x + FailureWindow > t
  <2>1. \A i : i \in Counting(a, t) <=> i \in Counting(s, t) \cup {n + 1}
    BY <1>1, <1>2, <1>5 DEF Counting
  <2>2. Counting(a, t) = Counting(s, t) \cup {n + 1}
    BY <2>1
  <2> QED
    BY <1>1, <1>3, <1>4, <1>5, <2>2, FS_AddElement DEF a
<1>6. CASE ~ (x + FailureWindow > t)
  <2>1. \A i : i \in Counting(a, t) <=> i \in Counting(s, t)
    BY <1>1, <1>2, <1>6 DEF Counting
  <2>2. Counting(a, t) = Counting(s, t)
    BY <2>1
  <2> QED
    BY <1>1, <1>3, <1>6, <2>2 DEF a
<1> QED
  BY <1>5, <1>6

\* A window either lies in the past as it was, or holds only what counts now.
LEMMA TogetherOneMore ==
  ASSUME NEW s \in Seq(Nat), NEW x \in Nat, FailureWindow \in Nat \ {0},
         NEW i \in DOMAIN Append(s, x)
  PROVE  \/ i \in DOMAIN s /\ Together(Append(s, x), i) = Together(s, i)
         \/ Together(Append(s, x), i) \subseteq Counting(Append(s, x), x)
<1> DEFINE a == Append(s, x)
           n == Len(s)
<1>1. /\ n \in Nat /\ DOMAIN s = 1 .. n
      /\ a \in Seq(Nat) /\ Len(a) = n + 1
      /\ \A k \in 1 .. n : a[k] = s[k]
      /\ a[n + 1] = x
  BY LenProperties, AppendProperties
<1>2. DOMAIN a = 1 .. n + 1 /\ i \in 1 .. n + 1
  BY <1>1, LenProperties
<1>3. \A k \in 1 .. n + 1 : a[k] \in Nat
  BY <1>1, <1>2, ElementOfSeq
<1> HIDE DEF a, n
<1>4. CASE x < a[i] + FailureWindow
  <2>1. \A y \in Nat : y \in a[i] .. a[i] + FailureWindow - 1 => y + FailureWindow > x
    BY <1>2, <1>3, <1>4
  <2>2. Together(a, i) \subseteq Counting(a, x)
    BY <1>2, <1>3, <2>1 DEF Together, Counting
  <2> QED
    BY <2>2 DEF a
<1>5. CASE ~ (x < a[i] + FailureWindow)
  <2>1. i \in 1 .. n
    BY <1>1, <1>2, <1>5
  <2>2. x \notin a[i] .. a[i] + FailureWindow - 1
    BY <1>2, <1>3, <1>5
  <2>3. ASSUME NEW k PROVE k \in Together(a, i) <=> k \in Together(s, i)
    <3>1. a[i] = s[i]
      BY <1>1, <2>1
    <3>2. \A j \in 1 .. n + 1 : j \in 1 .. n \/ j = n + 1
      BY <1>1
    <3>3. \A j \in 1 .. n : j \in 1 .. n + 1
      BY <1>1
    <3>4. n + 1 \notin Together(a, i)
      BY <1>1, <2>2 DEF Together
    <3> QED
      BY <1>1, <1>2, <3>1, <3>2, <3>3, <3>4 DEF Together
  <2>4. Together(a, i) = Together(s, i)
    BY <2>3
  <2> QED
    BY <1>1, <2>1, <2>4 DEF a
<1> QED
  BY <1>4, <1>5

\* A refused code is counted, and was compared only below the limit.
LEMMA WrongCodeLimit ==
  ASSUME LimitInv, AuthAssumption, NEW c \in Clients, WrongCode(c)
  PROVE  LimitInv'
<1> DEFINE kept == At(failures[c], Counting(failures[c], now))
<1>1. FailureWindow \in Nat \ {0} /\ MaxFailures \in Nat
  BY DEF AuthAssumption
<1>2. /\ now \in Nat /\ now' = now
      /\ failures \in [Clients -> Seq(Nat)] /\ failures[c] \in Seq(Nat)
      /\ tried \in [Clients -> Seq(Nat)] /\ tried[c] \in Seq(Nat)
  BY DEF LimitInv, WrongCode
<1>3. /\ Len(kept) < MaxFailures
      /\ failures' = [failures EXCEPT ![c] = Append(kept, now)]
      /\ tried' = [tried EXCEPT ![c] = Append(tried[c], now)]
  BY DEF WrongCode, Active, Counting
<1>4. /\ kept \in Seq(Nat) /\ Len(kept) = Cardinality(Counting(failures[c], now))
      /\ \A u \in Nat : u >= now =>
           Cardinality(Counting(kept, u)) = Cardinality(Counting(failures[c], u))
  <2>1. now >= now
    BY <1>2
  <2> QED
    BY <1>1, <1>2, <2>1, CountingKept
<1> HIDE DEF kept
<1>5. /\ Append(kept, now) \in Seq(Nat) /\ Append(tried[c], now) \in Seq(Nat)
      /\ \A u \in Nat :
           /\ Cardinality(Counting(Append(kept, now), u))
                = Cardinality(Counting(kept, u)) + (IF now + FailureWindow > u THEN 1 ELSE 0)
           /\ Cardinality(Counting(Append(tried[c], now), u))
                = Cardinality(Counting(tried[c], u)) + (IF now + FailureWindow > u THEN 1 ELSE 0)
  BY <1>1, <1>2, <1>4, CountingOneMore
<1>6. /\ failures' \in [Clients -> Seq(Nat)] /\ tried' \in [Clients -> Seq(Nat)]
      /\ failures'[c] = Append(kept, now) /\ tried'[c] = Append(tried[c], now)
      /\ \A d \in Clients : d # c => failures'[d] = failures[d] /\ tried'[d] = tried[d]
  BY <1>2, <1>3, <1>5
<1>7. ASSUME NEW u \in Nat, u >= now
      PROVE  Cardinality(Counting(tried'[c], u)) <= Cardinality(Counting(failures'[c], u))
  <2> DEFINE a == Cardinality(Counting(tried[c], u))
             b == Cardinality(Counting(failures[c], u))
             d == IF now + FailureWindow > u THEN 1 ELSE 0
  <2>1. a <= b
    BY <1>7 DEF LimitInv
  <2>2. a \in Nat /\ b \in Nat
    BY <1>2, CountingFacts
  <2>3. /\ Cardinality(Counting(tried'[c], u)) = a + d
        /\ Cardinality(Counting(failures'[c], u)) = b + d
    BY <1>4, <1>5, <1>6, <1>7
  <2>4. d \in Nat
    OBVIOUS
  <2> HIDE DEF a, b, d
  <2> QED
    BY <2>1, <2>2, <2>3, <2>4
<1>8. Cardinality(Counting(tried'[c], now)) <= MaxFailures
  <2> DEFINE a == Cardinality(Counting(tried[c], now))
             b == Cardinality(Counting(failures[c], now))
  <2>1. now >= now /\ now + FailureWindow > now
    BY <1>1, <1>2
  <2>2. a <= b
    BY <1>2, <2>1 DEF LimitInv
  <2>3. a \in Nat /\ b \in Nat /\ b < MaxFailures
    BY <1>2, <1>3, <1>4, CountingFacts
  <2>4. Cardinality(Counting(tried'[c], now)) = a + 1
    BY <1>2, <1>5, <1>6, <2>1
  <2> HIDE DEF a, b
  <2> QED
    BY <1>1, <2>2, <2>3, <2>4
<1>9. ASSUME NEW i \in DOMAIN tried'[c]
      PROVE  Cardinality(Together(tried'[c], i)) <= MaxFailures
  <2>1. CASE i \in DOMAIN tried[c] /\ Together(tried'[c], i) = Together(tried[c], i)
    BY <2>1 DEF LimitInv
  <2>2. CASE Together(tried'[c], i) \subseteq Counting(tried'[c], now)
    <3>1. /\ IsFiniteSet(Counting(tried'[c], now))
          /\ Cardinality(Counting(tried'[c], now)) \in Nat
      BY <1>2, <1>5, <1>6, CountingFacts
    <3>2. /\ Cardinality(Together(tried'[c], i)) \in Nat
          /\ Cardinality(Together(tried'[c], i)) <= Cardinality(Counting(tried'[c], now))
      BY <2>2, <3>1, FS_Subset, FS_CardinalityType
    <3> QED
      BY <1>1, <1>8, <3>1, <3>2
  <2>3. i \in DOMAIN Append(tried[c], now)
    BY <1>6, <1>9
  <2> QED
    BY <1>1, <1>2, <1>6, <2>1, <2>2, <2>3, TogetherOneMore
<1>10. \A d \in Clients : \A u \in Nat :
         u >= now' => Cardinality(Counting(tried'[d], u)) <= Cardinality(Counting(failures'[d], u))
  <2> SUFFICES ASSUME NEW d \in Clients, NEW u \in Nat, u >= now'
               PROVE  Cardinality(Counting(tried'[d], u)) <= Cardinality(Counting(failures'[d], u))
    OBVIOUS
  <2>1. CASE d = c
    BY <1>2, <1>7, <2>1
  <2>2. CASE d # c
    BY <1>2, <1>6, <2>2 DEF LimitInv
  <2> QED
    BY <2>1, <2>2
<1>11. \A d \in Clients : \A i \in DOMAIN tried'[d] :
         Cardinality(Together(tried'[d], i)) <= MaxFailures
  BY <1>6, <1>9 DEF LimitInv
<1> QED
  BY <1>2, <1>6, <1>10, <1>11 DEF LimitInv, Counting, Together

\* Every step of the service keeps the limit.
LEMMA LimitStep ==
  ASSUME LimitInv, AuthAssumption, AuthNext
  PROVE  LimitInv'
<1>1. FailureWindow \in Nat /\ MaxFailures \in Nat /\ now \in Nat
  BY DEF AuthAssumption, LimitInv
<1>2. CASE Tick
  <2>1. now' = now + 1 /\ failures' = failures /\ tried' = tried
    BY <1>2 DEF Tick
  <2>2. \A t \in Nat : t >= now' => t >= now
    BY <1>1, <2>1
  <2>3. now' \in Nat
    BY <1>1, <2>1
  <2> QED
    BY <2>1, <2>2, <2>3 DEF LimitInv, Counting, Together
<1>3. ASSUME NEW c \in Clients, LimitedLogin(c)
      PROVE  LimitInv'
  <2> DEFINE kept == At(failures[c], Counting(failures[c], now))
  <2>1. now' = now /\ tried' = tried /\ failures' = [failures EXCEPT ![c] = kept]
    BY <1>3 DEF LimitedLogin, Active, Counting
  <2>2. failures \in [Clients -> Seq(Nat)] /\ failures[c] \in Seq(Nat) /\ now >= now
    BY <1>1 DEF LimitInv
  <2>3. /\ kept \in Seq(Nat)
        /\ \A u \in Nat : u >= now =>
             Cardinality(Counting(kept, u)) = Cardinality(Counting(failures[c], u))
    BY <1>1, <2>2, CountingKept
  <2> HIDE DEF kept
  <2>4. /\ failures' \in [Clients -> Seq(Nat)] /\ failures'[c] = kept
        /\ \A d \in Clients : d # c => failures'[d] = failures[d]
    BY <2>1, <2>2, <2>3
  <2>5. \A d \in Clients : \A u \in Nat : u >= now =>
          Cardinality(Counting(tried[d], u)) <= Cardinality(Counting(failures'[d], u))
    <3> SUFFICES ASSUME NEW d \in Clients, NEW u \in Nat, u >= now
                 PROVE  Cardinality(Counting(tried[d], u)) <= Cardinality(Counting(failures'[d], u))
      OBVIOUS
    <3>1. Cardinality(Counting(tried[d], u)) <= Cardinality(Counting(failures[d], u))
      BY DEF LimitInv
    <3>2. Cardinality(Counting(failures'[d], u)) = Cardinality(Counting(failures[d], u))
      BY <2>3, <2>4
    <3> QED
      BY <3>1, <3>2
  <2>6. now' \in Nat /\ tried' \in [Clients -> Seq(Nat)]
    BY <2>1 DEF LimitInv
  <2>7. \A d \in Clients : \A u \in Nat : u >= now' =>
          Cardinality(Counting(tried'[d], u)) <= Cardinality(Counting(failures'[d], u))
    BY <2>1, <2>5
  <2>8. \A d \in Clients : \A i \in DOMAIN tried'[d] :
          Cardinality(Together(tried'[d], i)) <= MaxFailures
    BY <2>1 DEF LimitInv
  <2> QED
    BY <2>4, <2>6, <2>7, <2>8 DEF LimitInv, Counting, Together
<1>4. ASSUME now' = now, failures' \in [Clients -> Seq(Nat)], tried' \in [Clients -> Seq(Nat)],
             \A d \in Clients : \/ failures'[d] = failures[d] /\ tried'[d] = tried[d]
                                \/ tried'[d] = <<>>
      PROVE  LimitInv'
  <2>1. ASSUME NEW d \in Clients, NEW u \in Nat, u >= now
        PROVE  Cardinality(Counting(tried'[d], u)) <= Cardinality(Counting(failures'[d], u))
    <3>1. CASE failures'[d] = failures[d] /\ tried'[d] = tried[d]
      BY <2>1, <3>1 DEF LimitInv
    <3>2. CASE tried'[d] = <<>>
      <4>1. Cardinality(Counting(tried'[d], u)) = 0
        BY <3>2, CountingNothing
      <4>2. Cardinality(Counting(failures'[d], u)) \in Nat
        BY <1>4, CountingFacts
      <4> QED
        BY <4>1, <4>2
    <3> QED
      BY <1>4, <3>1, <3>2
  <2>2. ASSUME NEW d \in Clients, NEW i \in DOMAIN tried'[d]
        PROVE  Cardinality(Together(tried'[d], i)) <= MaxFailures
    <3>1. CASE tried'[d] = tried[d]
      BY <2>2, <3>1 DEF LimitInv
    <3>2. CASE tried'[d] = <<>>
      BY <2>2, <3>2
    <3> QED
      BY <1>4, <3>1, <3>2
  <2> QED
    BY <1>1, <1>4, <2>1, <2>2 DEF LimitInv, Counting, Together
<1>5. ASSUME NEW c \in Clients, NEW t \in Tokens, RightCode(c, t)
      PROVE  LimitInv'
  <2>1. /\ now' = now /\ failures' = [failures EXCEPT ![c] = <<>>]
        /\ tried' = [tried EXCEPT ![c] = <<>>]
    BY <1>5 DEF RightCode
  <2>2. /\ failures \in [Clients -> Seq(Nat)] /\ tried \in [Clients -> Seq(Nat)]
        /\ <<>> \in Seq(Nat)
    BY DEF LimitInv
  <2> QED
    BY <1>4, <2>1, <2>2
<1>6. CASE RestartAuth
  <2>1. /\ now' = now /\ failures' = [c \in Clients |-> <<>>]
        /\ tried' = [c \in Clients |-> <<>>]
    BY <1>6 DEF RestartAuth
  <2> QED
    BY <1>4, <2>1
<1>7. ASSUME NEW t \in Tokens, Validate(t) \/ Logout(t)
      PROVE  LimitInv'
  <2>1. now' = now /\ failures' = failures /\ tried' = tried
    BY <1>7 DEF Validate, Logout
  <2> QED
    BY <1>4, <2>1 DEF LimitInv
<1> QED
  BY <1>2, <1>3, <1>5, <1>6, <1>7, WrongCodeLimit DEF AuthNext

\* Since its last success and the last start of the process, no client has more
\* codes refused in any window than the limit, for any clients, windows and
\* limits, whenever failures leave the list.
THEOREM FailuresKeepTheLimit == Spec => []FailuresAreLimited
<1>1. Init => LimitInv
  <2> SUFFICES ASSUME AuthInit PROVE LimitInv
    BY DEF Init
  <2>1. /\ now = 1 /\ failures = [c \in Clients |-> <<>>] /\ tried = [c \in Clients |-> <<>>]
    BY DEF AuthInit
  <2>2. \A t : Cardinality(Counting(<<>>, t)) = 0
    BY CountingNothing
  <2> QED
    BY <2>1, <2>2 DEF LimitInv
<1>2. LimitInv /\ [Next]_<<auth, memory, listing, pool, worker, service>> => LimitInv'
  <2> SUFFICES ASSUME LimitInv, [Next]_<<auth, memory, listing, pool, worker, service>>
               PROVE  LimitInv'
    OBVIOUS
  <2>1. AuthNext \/ UNCHANGED auth
    BY DEF Next
  <2>2. CASE AuthNext
    BY <2>2, LimitStep, AuthAssumption
  <2>3. CASE UNCHANGED auth
    BY <2>3 DEF auth, LimitInv, Counting, Together
  <2> QED
    BY <2>1, <2>2, <2>3
<1>3. LimitInv => FailuresAreLimited
  BY DEF LimitInv, FailuresAreLimited, Together
<1> QED
  BY <1>1, <1>2, <1>3, PTL DEF Spec

-----------------------------------------------------------------------------
(* The notes.                                                              *)

RequestRecords ==
  [at: {"idle", "page", "applying", "read", "writing", "rewriting"},
   seen: Seq(Notes), undecided: SUBSET Nat, deletion: SUBSET (Documents \X Notes),
   read: Seq(Notes), next: Nat, file: Documents \cup {None}, copy: SUBSET Notes]

\* A note that no inbox needs to hold any more: it is in a document, in the hand
\* of a request that has emptied one, dropped, or exposed.
Filed(n) ==
  \/ n \in dismissed \cup exposed
  \/ \E f \in Documents : n \in document[f]
  \/ \E r \in Requests : request[r].at = "writing" /\ n \in request[r].copy

\* A note in the hand of a request that has emptied the inbox.
Returning(n) ==
  \E r \in Requests : request[r].at = "rewriting" /\ n \in ToSet(Remaining(r))

Shape(r) ==
  /\ Applying(r) => /\ Len(request[r].read) = Len(request[r].seen)
                    /\ request[r].next > 0
                    /\ request[r].undecided \subseteq DOMAIN request[r].seen
  /\ request[r].at \in {"read", "writing"} => request[r].file \in Documents
  /\ request[r].at = "writing" => Removed(r) \subseteq dismissed
  /\ request[r].at = "rewriting" => request[r].next > Len(request[r].seen)

\* The decisions are on the entries that were read, or these are exposed.
Matched(r) ==
  Applying(r) => \/ request[r].read = request[r].seen
                 \/ ToSet(request[r].read) \subseteq exposed

\* What a request has carried out is filed.
Carried(r) ==
  \A k \in DOMAIN request[r].read :
    Applying(r) /\ k < request[r].next /\ k \notin request[r].undecided
      => Filed(request[r].read[k])

MemoryType ==
  /\ inbox \in Seq(Notes)
  /\ document \in [Documents -> SUBSET Notes]
  /\ request \in [Requests -> RequestRecords]

MemoryInv ==
  /\ MemoryType
  /\ \A r \in Requests : Shape(r) /\ Matched(r) /\ Carried(r)
  /\ NotesAreKept

\* What is kept is in the inbox, filed, or on its way back to the inbox.
LEMMA KeptForm ==
  /\ NotesAreKept <=>
       \A n \in remembered : n \in ToSet(inbox) \/ Filed(n) \/ Returning(n)
  /\ NotesAreKept' <=>
       \A n \in remembered' : n \in ToSet(inbox)' \/ Filed(n)' \/ Returning(n)'
<1>1. \A r \in Requests : \A n :
        n \in InHand(r) <=> \/ request[r].at = "writing" /\ n \in request[r].copy
                            \/ request[r].at = "rewriting" /\ n \in ToSet(Remaining(r))
  BY DEF InHand
<1>2. \A r \in Requests : \A n :
        n \in InHand(r)' <=> \/ request'[r].at = "writing" /\ n \in request'[r].copy
                             \/ request'[r].at = "rewriting" /\ n \in ToSet(Remaining(r))'
  BY DEF InHand
<1>3. NotesAreKept <=>
        \A n \in remembered : n \in ToSet(inbox) \/ Filed(n) \/ Returning(n)
  BY <1>1, Zenon DEF NotesAreKept, Filed, Returning
<1>4. NotesAreKept' <=>
        \A n \in remembered' : n \in ToSet(inbox)' \/ Filed(n)' \/ Returning(n)'
  BY <1>2, Zenon DEF NotesAreKept, Filed, Returning
<1> QED
  BY <1>3, <1>4

LEMMA IdleType ==
  /\ Idle \in RequestRecords
  /\ \A s \in Seq(Notes) : LET page == [Idle EXCEPT !.at = "page", !.seen = s]
                           IN  page \in RequestRecords /\ page.at = "page"
  /\ Idle.at = "idle"
<1>1. <<>> \in Seq(Notes) /\ {} \in SUBSET Nat /\ {} \in SUBSET (Documents \X Notes)
      /\ 0 \in Nat /\ {} \in SUBSET Notes
  OBVIOUS
<1> QED
  BY <1>1 DEF Idle, RequestRecords

\* One request moves: the others keep what they promise if no note is unfiled.
LEMMA OneRequestStep ==
  ASSUME MemoryInv, NEW r \in Requests, MemoryType',
         exposed \subseteq exposed', dismissed \subseteq dismissed',
         \A p \in Requests \ {r} : request'[p] = request[p],
         \A n : Filed(n) => Filed(n)',
         Shape(r)', Matched(r)', Carried(r)', NotesAreKept'
  PROVE  MemoryInv'
<1>1. ASSUME NEW p \in Requests, p # r
      PROVE  Shape(p)' /\ Matched(p)' /\ Carried(p)'
  <2>1. request'[p] = request[p] /\ (Applying(p)' <=> Applying(p))
    BY <1>1 DEF Applying
  <2>2. Shape(p) /\ Matched(p) /\ Carried(p)
    BY DEF MemoryInv
  <2>3. Removed(p)' = Removed(p)
    BY <2>1 DEF Removed, Deletes
  <2>4. Shape(p)'
    BY <2>1, <2>2, <2>3 DEF Shape
  <2>5. Matched(p)'
    BY <2>1, <2>2 DEF Matched
  <2>6. Carried(p)'
    BY <2>1, <2>2 DEF Carried
  <2> QED
    BY <2>4, <2>5, <2>6
<1> QED
  BY <1>1 DEF MemoryInv

\* And if it is not one that has emptied the inbox, the notes are kept.
LEMMA KeptStep ==
  ASSUME MemoryInv, NEW r \in Requests,
         inbox' = inbox, remembered' = remembered, request[r].at # "rewriting",
         \A p \in Requests \ {r} : request'[p] = request[p],
         \A n : Filed(n) => Filed(n)'
  PROVE  NotesAreKept'
<1>1. ASSUME NEW n, Returning(n) PROVE Returning(n)'
  <2>1. PICK p \in Requests : request[p].at = "rewriting" /\ n \in ToSet(Remaining(p))
    BY <1>1 DEF Returning
  <2>2. request'[p] = request[p]
    BY <2>1
  <2>3. Remaining(p)' = Remaining(p)
    BY <2>2 DEF Remaining
  <2> QED
    BY <2>1, <2>2, <2>3 DEF Returning
<1>2. \A n \in remembered : n \in ToSet(inbox) \/ Filed(n) \/ Returning(n)
  BY KeptForm DEF MemoryInv
<1> QED
  BY <1>1, <1>2, KeptForm

\* A note joins the inbox.
LEMMA RememberStep ==
  ASSUME MemoryInv, NEW m \in Notes, Remember(m)
  PROVE  MemoryInv'
<1>1. /\ inbox' = Append(inbox, m) /\ remembered' = remembered \cup {m}
      /\ document' = document /\ request' = request /\ dismissed' = dismissed
      /\ exposed' = exposed
  BY DEF Remember
<1>2. inbox \in Seq(Notes)
  BY DEF MemoryInv, MemoryType
<1>3. /\ inbox' \in Seq(Notes)
      /\ \A n \in ToSet(inbox) \cup {m} : n \in ToSet(inbox')
  <2> DEFINE a == Append(inbox, m)
  <2>1. /\ a \in Seq(Notes) /\ Len(a) = Len(inbox) + 1
        /\ \A i \in 1 .. Len(inbox) : a[i] = inbox[i]
        /\ a[Len(inbox) + 1] = m
    BY <1>2, AppendProperties
  <2>2. /\ DOMAIN inbox = 1 .. Len(inbox) /\ Len(inbox) \in Nat
        /\ DOMAIN a = 1 .. Len(inbox) + 1
    BY <1>2, <2>1, LenProperties
  <2> HIDE DEF a
  <2>3. Len(inbox) + 1 \in DOMAIN a /\ \A i \in DOMAIN inbox : i \in DOMAIN a /\ a[i] = inbox[i]
    BY <2>1, <2>2
  <2>4. \A n \in ToSet(inbox) \cup {m} : n \in ToSet(a)
    BY <2>1, <2>3 DEF ToSet
  <2> QED
    BY <1>1, <2>1, <2>4 DEF a
<1>4. \A n : (Filed(n)' <=> Filed(n)) /\ (Returning(n)' <=> Returning(n))
  BY <1>1 DEF Filed, Returning, Remaining
<1>5. NotesAreKept'
  BY <1>1, <1>3, <1>4, KeptForm DEF MemoryInv
<1>6. \A r \in Requests : Shape(r)' /\ Matched(r)' /\ Carried(r)'
  BY <1>1, <1>4 DEF MemoryInv, Shape, Matched, Carried, Applying, Removed, Deletes
<1>7. MemoryType'
  BY <1>1, <1>3 DEF MemoryInv, MemoryType
<1> QED
  BY <1>5, <1>6, <1>7 DEF MemoryInv

\* A page is loaded, or a request is cut off: what it had in hand is exposed.
LEMMA PageShownStep ==
  ASSUME MemoryInv, NEW r \in Requests, Curate(r) \/ CutOff(r)
  PROVE  MemoryInv'
<1> DEFINE s == IF CutOff(r) THEN request[r].seen ELSE inbox
           page == [Idle EXCEPT !.at = "page", !.seen = s]
<1>1. /\ inbox \in Seq(Notes) /\ document \in [Documents -> SUBSET Notes]
      /\ request \in [Requests -> RequestRecords]
  BY DEF MemoryInv, MemoryType
<1>2. s \in Seq(Notes)
  BY <1>1 DEF RequestRecords
<1>3. /\ request' = [request EXCEPT ![r] = page]
      /\ inbox' = inbox /\ document' = document /\ remembered' = remembered
      /\ dismissed' = dismissed
      /\ exposed' = exposed \cup (IF CutOff(r) THEN InHand(r) ELSE {})
  BY DEF Curate, CutOff, Applying
<1>4. page \in RequestRecords /\ page.at = "page"
  BY <1>2, IdleType
<1> HIDE DEF s, page
<1>5. /\ request' \in [Requests -> RequestRecords] /\ request'[r] = page
      /\ \A p \in Requests \ {r} : request'[p] = request[p]
  BY <1>1, <1>3, <1>4
<1>6. request[r].at = "writing" => request[r].copy \subseteq exposed'
  <2>1. Applying(r) => CutOff(r)
    BY DEF Curate
  <2> QED
    BY <1>3, <2>1 DEF Applying, InHand
<1>7. ASSUME NEW n, Filed(n) PROVE Filed(n)'
  <2>1. CASE n \in dismissed \cup exposed
    BY <1>3, <2>1 DEF Filed
  <2>2. CASE \E f \in Documents : n \in document[f]
    BY <1>3, <2>2 DEF Filed
  <2>3. ASSUME NEW p \in Requests, request[p].at = "writing", n \in request[p].copy
        PROVE  Filed(n)'
    BY <1>5, <1>6, <2>3 DEF Filed
  <2> QED
    BY <1>7, <2>1, <2>2, <2>3 DEF Filed
<1>8. Shape(r)' /\ Matched(r)' /\ Carried(r)'
  BY <1>4, <1>5 DEF Shape, Matched, Carried, Applying
<1>9. NotesAreKept'
  <2>1. ASSUME NEW n, Returning(n) PROVE Returning(n)' \/ n \in exposed'
    <3>1. PICK p \in Requests : request[p].at = "rewriting" /\ n \in ToSet(Remaining(p))
      BY <2>1 DEF Returning
    <3>2. CASE p = r
      <4>1. CutOff(r)
        BY <3>1, <3>2 DEF Curate, Applying
      <4> QED
        BY <1>3, <3>1, <3>2, <4>1 DEF InHand
    <3>3. CASE p # r
      <4>1. request'[p] = request[p]
        BY <1>5, <3>3
      <4>2. Remaining(p)' = Remaining(p)
        BY <4>1 DEF Remaining
      <4> QED
        BY <3>1, <4>1, <4>2 DEF Returning
    <3> QED
      BY <3>2, <3>3
  <2>2. \A n \in remembered : n \in ToSet(inbox) \/ Filed(n) \/ Returning(n)
    BY KeptForm DEF MemoryInv
  <2>3. \A n \in exposed' : Filed(n)'
    BY DEF Filed
  <2> QED
    BY <1>3, <1>7, <2>1, <2>2, <2>3, KeptForm
<1>10. MemoryType'
  BY <1>1, <1>3, <1>5 DEF MemoryType
<1> QED
  BY <1>3, <1>5, <1>7, <1>8, <1>9, <1>10, OneRequestStep

\* A request begins, on the inbox as it is.
LEMMA StartStep ==
  ASSUME MemoryInv, NEW r \in Requests, StartApply(r)
  PROVE  MemoryInv'
<1> DEFINE q == request[r]
<1>1. /\ inbox \in Seq(Notes) /\ document \in [Documents -> SUBSET Notes]
      /\ request \in [Requests -> RequestRecords] /\ q \in RequestRecords
  BY DEF MemoryInv, MemoryType
<1>2. PICK undecided \in SUBSET DOMAIN inbox,
           deletion \in {{}} \cup {{d} : d \in Documents \X Notes} :
        request' = [request EXCEPT ![r] =
          [q EXCEPT !.at = "applying", !.undecided = undecided,
                    !.deletion = deletion, !.read = inbox, !.next = 1]]
  BY DEF StartApply
<1> DEFINE new == [q EXCEPT !.at = "applying", !.undecided = undecided,
                            !.deletion = deletion, !.read = inbox, !.next = 1]
<1>3. DOMAIN inbox = 1 .. Len(inbox) /\ Len(inbox) \in Nat
  BY <1>1, LenProperties
<1>4. /\ new \in RequestRecords /\ new.at = "applying" /\ new.undecided = undecided
      /\ new.read = inbox /\ new.next = 1 /\ new.seen = q.seen
  <2>1. undecided \in SUBSET Nat /\ deletion \in SUBSET (Documents \X Notes)
    BY <1>3
  <2> HIDE DEF q
  <2> QED
    BY <1>1, <2>1 DEF RequestRecords
<1>5. /\ q.at = "page" /\ Len(inbox) = Len(q.seen)
      /\ inbox' = inbox /\ document' = document /\ remembered' = remembered
      /\ dismissed' = dismissed /\ exposed \subseteq exposed'
      /\ inbox = q.seen \/ ToSet(inbox) \subseteq exposed'
  BY DEF StartApply
<1>6. DOMAIN q.seen = DOMAIN inbox
  <2>1. q.seen \in Seq(Notes)
    BY <1>1 DEF RequestRecords
  <2> QED
    BY <1>3, <1>5, <2>1, LenProperties
<1> HIDE DEF new
<1>7. /\ request' \in [Requests -> RequestRecords] /\ request'[r] = new
      /\ \A p \in Requests \ {r} : request'[p] = request[p]
  BY <1>1, <1>2, <1>4 DEF new
<1>8. ASSUME NEW n, Filed(n) PROVE Filed(n)'
  BY <1>5, <1>7, <1>8 DEF Filed
<1>9. Shape(r)'
  BY <1>4, <1>5, <1>6, <1>7 DEF Shape, Applying
<1>10. Matched(r)'
  BY <1>4, <1>5, <1>7 DEF Matched
<1>11. Carried(r)'
  <2>1. \A k \in DOMAIN request'[r].read : ~ (k < request'[r].next)
    BY <1>3, <1>4, <1>7
  <2> QED
    BY <2>1 DEF Carried
<1>12. NotesAreKept'
  BY <1>5, <1>7, <1>8, KeptStep
<1>13. MemoryType'
  BY <1>1, <1>5, <1>7 DEF MemoryType
<1> QED
  BY <1>5, <1>7, <1>8, <1>9, <1>10, <1>11, <1>12, <1>13, OneRequestStep

\* The decision that comes next is on an entry of the page, or on a line.
LEMMA NextDecision ==
  ASSUME MemoryInv, NEW r \in Requests, Applying(r), request[r].at # "rewriting"
  PROVE  /\ request[r].seen \in Seq(Notes) /\ request[r].read \in Seq(Notes)
         /\ request[r].next \in Nat /\ request[r].next > 0
         /\ DOMAIN request[r].read = DOMAIN request[r].seen
         /\ DOMAIN request[r].seen = 1 .. Len(request[r].seen)
         /\ Len(request[r].seen) \in Nat
         /\ OnEntry(r) => request[r].seen[request[r].next] \in Notes
         /\ OnEntry(r) => Deletes(r) = {} /\ Removed(r) = {}
         /\ Removed(r) \subseteq Notes
         /\ \A k \in DOMAIN request[r].read :
              k < request[r].next + 1 /\ k \notin request[r].undecided =>
                k < request[r].next \/ (k = request[r].next /\ OnEntry(r))
<1> DEFINE q == request[r]
<1>1. q \in RequestRecords /\ Shape(r)
  BY DEF MemoryInv, MemoryType
<1>2. /\ q.seen \in Seq(Notes) /\ q.read \in Seq(Notes) /\ q.next \in Nat /\ q.next > 0
      /\ Len(q.read) = Len(q.seen) /\ q.deletion \subseteq Documents \X Notes
  BY <1>1 DEF RequestRecords, Shape
<1>3. /\ DOMAIN q.seen = 1 .. Len(q.seen) /\ DOMAIN q.read = DOMAIN q.seen
      /\ Len(q.seen) \in Nat
  BY <1>2, LenProperties
<1>4. OnEntry(r) => q.seen[q.next] \in Notes
  BY <1>2, <1>3, ElementOfSeq DEF OnEntry
<1>5. OnEntry(r) => Deletes(r) = {}
  BY <1>2, <1>3 DEF OnEntry, Deletes
<1>6. Removed(r) \subseteq Notes
  BY <1>2 DEF Removed, Deletes
<1>7. OnEntry(r) => Removed(r) = {}
  BY <1>5 DEF Removed
<1>8. \A k \in DOMAIN q.read : k < q.next + 1 /\ k \notin q.undecided =>
        k < q.next \/ (k = q.next /\ OnEntry(r))
  BY <1>2, <1>3 DEF OnEntry
<1> QED
  BY <1>2, <1>3, <1>4, <1>5, <1>6, <1>7, <1>8

\* A decision has been carried out, or passed over: what is behind is filed.
LEMMA CarriedOn ==
  ASSUME MemoryInv, NEW r \in Requests, Applying(r), request[r].at # "rewriting",
         exposed \subseteq exposed', \A n : Filed(n) => Filed(n)',
         request'[r].read = request[r].read, request'[r].undecided = request[r].undecided,
         request'[r].next = request[r].next + 1,
         \A n : OnEntry(r) /\ n = request[r].seen[request[r].next] => Filed(n)'
  PROVE  Carried(r)'
<1> SUFFICES ASSUME NEW k \in DOMAIN request[r].read, NEW n, n = request[r].read[k],
                    k < request[r].next + 1, k \notin request[r].undecided
             PROVE  Filed(n)'
  BY DEF Carried
<1>1. CASE k < request[r].next
  BY <1>1 DEF MemoryInv, Carried
<1>2. CASE k = request[r].next /\ OnEntry(r)
  <2>1. CASE request[r].read = request[r].seen
    BY <1>2, <2>1
  <2>2. CASE ToSet(request[r].read) \subseteq exposed
    <3>1. n \in exposed
      BY <2>2 DEF ToSet
    <3> QED
      BY <3>1 DEF Filed
  <2> QED
    BY <2>1, <2>2 DEF MemoryInv, Matched
<1> QED
  BY <1>1, <1>2, NextDecision

\* A document is read.
LEMMA ReadStep ==
  ASSUME MemoryInv, NEW r \in Requests, ReadDocument(r)
  PROVE  MemoryInv'
<1> DEFINE q == request[r]
<1>1. /\ inbox \in Seq(Notes) /\ document \in [Documents -> SUBSET Notes]
      /\ request \in [Requests -> RequestRecords] /\ q \in RequestRecords
      /\ q.deletion \subseteq Documents \X Notes
  BY DEF MemoryInv, MemoryType, RequestRecords
<1>2. /\ q.at = "applying" /\ inbox' = inbox /\ document' = document
      /\ remembered' = remembered /\ dismissed' = dismissed /\ exposed' = exposed
  BY DEF ReadDocument
<1>3. Applying(r) /\ q.at # "rewriting"
  BY <1>2 DEF Applying
<1>4. PICK f \in IF OnEntry(r) THEN Documents ELSE {d[1] : d \in Deletes(r)} :
        request' = [request EXCEPT ![r] =
                IF Removed(r) \subseteq document[f]
                THEN [q EXCEPT !.at = "read", !.file = f, !.copy = document[f]]
                ELSE [q EXCEPT !.next = q.next + 1]]
  BY DEF ReadDocument
<1>5. f \in Documents
  BY <1>1, <1>4 DEF Deletes
<1>6. ASSUME NEW new \in RequestRecords, request' = [request EXCEPT ![r] = new],
             new.at # "writing"
      PROVE  /\ MemoryType' /\ request'[r] = new
             /\ \A p \in Requests \ {r} : request'[p] = request[p]
             /\ \A n : Filed(n) => Filed(n)'
             /\ NotesAreKept'
  <2>1. /\ MemoryType' /\ request'[r] = new
        /\ \A p \in Requests \ {r} : request'[p] = request[p]
    BY <1>1, <1>2, <1>6 DEF MemoryType
  <2>2. \A n : Filed(n) => Filed(n)'
    BY <1>2, <2>1 DEF Filed
  <2> QED
    BY <1>2, <1>3, <2>1, <2>2, KeptStep
<1>7. CASE Removed(r) \subseteq document[f]
  <2> DEFINE new == [q EXCEPT !.at = "read", !.file = f, !.copy = document[f]]
  <2>1. /\ new \in RequestRecords /\ new.at = "read" /\ new.file = f
        /\ new.seen = q.seen /\ new.read = q.read /\ new.next = q.next
        /\ new.undecided = q.undecided /\ new.deletion = q.deletion
    <3>1. document[f] \in SUBSET Notes
      BY <1>1, <1>5
    <3> HIDE DEF q
    <3> QED
      BY <1>1, <1>5, <3>1 DEF RequestRecords
  <2>2. request' = [request EXCEPT ![r] = new]
    BY <1>4, <1>7
  <2> HIDE DEF new
  <2>3. /\ MemoryType' /\ request'[r] = new /\ NotesAreKept'
        /\ \A p \in Requests \ {r} : request'[p] = request[p]
        /\ \A n : Filed(n) => Filed(n)'
    BY <1>6, <2>1, <2>2
  <2>4. Applying(r)' /\ Applying(r)
    BY <1>3, <2>1, <2>3 DEF Applying
  <2>5. Shape(r) /\ Matched(r) /\ Carried(r)
    BY DEF MemoryInv
  <2>6. Shape(r)'
    BY <1>5, <2>1, <2>3, <2>4, <2>5 DEF Shape
  <2>7. Matched(r)' /\ Carried(r)'
    BY <1>2, <2>1, <2>3, <2>4, <2>5 DEF Matched, Carried
  <2> QED
    BY <1>2, <2>3, <2>6, <2>7, OneRequestStep
<1>8. CASE ~ (Removed(r) \subseteq document[f])
  <2> DEFINE new == [q EXCEPT !.next = q.next + 1]
  <2>1. /\ new \in RequestRecords /\ new.at = "applying" /\ new.next = q.next + 1
        /\ new.seen = q.seen /\ new.read = q.read
        /\ new.undecided = q.undecided
    <3>1. q.next + 1 \in Nat
      BY <1>1 DEF RequestRecords
    <3> HIDE DEF q
    <3> QED
      BY <1>1, <1>2, <3>1 DEF RequestRecords, q
  <2>2. request' = [request EXCEPT ![r] = new]
    BY <1>4, <1>8
  <2> HIDE DEF new
  <2>3. /\ MemoryType' /\ request'[r] = new /\ NotesAreKept'
        /\ \A p \in Requests \ {r} : request'[p] = request[p]
        /\ \A n : Filed(n) => Filed(n)'
    BY <1>6, <2>1, <2>2
  <2>4. ~ OnEntry(r)
    BY <1>3, <1>8, NextDecision
  <2>5. Carried(r)'
    BY <1>2, <1>3, <2>1, <2>3, <2>4, CarriedOn
  <2>6. Shape(r) /\ Matched(r) /\ q.next \in Nat
    BY <1>1 DEF MemoryInv, RequestRecords
  <2>7. Shape(r)' /\ Matched(r)'
    BY <1>2, <1>3, <2>1, <2>3, <2>6 DEF Shape, Matched, Applying
  <2> QED
    BY <1>2, <2>3, <2>5, <2>7, OneRequestStep
<1> QED
  BY <1>7, <1>8

\* A document is emptied: the request has its lines, or they are exposed.
LEMMA EmptyStep ==
  ASSUME MemoryInv, NEW r \in Requests, EmptyDocument(r)
  PROVE  MemoryInv'
<1> DEFINE q == request[r]
           new == [q EXCEPT !.at = "writing"]
<1>1. /\ inbox \in Seq(Notes) /\ document \in [Documents -> SUBSET Notes]
      /\ request \in [Requests -> RequestRecords] /\ q \in RequestRecords
      /\ Shape(r) /\ Matched(r) /\ Carried(r)
  BY DEF MemoryInv, MemoryType
<1>2. /\ q.at = "read" /\ document' = [document EXCEPT ![q.file] = {}]
      /\ exposed' = exposed \cup (document[q.file] \ q.copy)
      /\ dismissed' = dismissed \cup Removed(r)
      /\ request' = [request EXCEPT ![r] = new]
      /\ inbox' = inbox /\ remembered' = remembered
  BY DEF EmptyDocument
<1>3. /\ new \in RequestRecords /\ new.at = "writing" /\ new.file = q.file
      /\ new.seen = q.seen /\ new.read = q.read /\ new.next = q.next
      /\ new.undecided = q.undecided /\ new.deletion = q.deletion /\ new.copy = q.copy
  <2> HIDE DEF q
  <2> QED
    BY <1>1 DEF RequestRecords
<1>4. q.file \in Documents
  BY <1>1, <1>2 DEF Shape
<1> HIDE DEF new
<1>5. /\ request' \in [Requests -> RequestRecords] /\ request'[r] = new
      /\ \A p \in Requests \ {r} : request'[p] = request[p]
  BY <1>1, <1>2, <1>3
<1>6. /\ document' \in [Documents -> SUBSET Notes]
      /\ \A f \in Documents \ {q.file} : document'[f] = document[f]
  BY <1>1, <1>2
<1>7. ASSUME NEW n, Filed(n) PROVE Filed(n)'
  <2>1. CASE n \in dismissed \cup exposed
    BY <1>2, <2>1 DEF Filed
  <2>2. ASSUME NEW f \in Documents, n \in document[f] PROVE Filed(n)'
    <3>1. CASE f # q.file
      BY <1>6, <2>2, <3>1 DEF Filed
    <3>2. CASE f = q.file /\ n \in q.copy
      BY <1>3, <1>5, <3>2 DEF Filed
    <3>3. CASE f = q.file /\ n \notin q.copy
      BY <1>2, <2>2, <3>3 DEF Filed
    <3> QED
      BY <3>1, <3>2, <3>3
  <2>3. ASSUME NEW p \in Requests, request[p].at = "writing", n \in request[p].copy
        PROVE  Filed(n)'
    <3>1. p # r
      BY <1>2, <2>3
    <3> QED
      BY <1>5, <2>3, <3>1 DEF Filed
  <2> QED
    BY <1>7, <2>1, <2>2, <2>3 DEF Filed
<1>8. Applying(r) /\ Applying(r)' /\ Removed(r)' = Removed(r)
  BY <1>2, <1>3, <1>5 DEF Applying, Removed, Deletes
<1>9. Shape(r)'
  BY <1>1, <1>2, <1>3, <1>4, <1>5, <1>8 DEF Shape
<1>10. Matched(r)' /\ Carried(r)'
  BY <1>1, <1>2, <1>3, <1>5, <1>7, <1>8 DEF Matched, Carried
<1>11. NotesAreKept'
  BY <1>2, <1>5, <1>7, KeptStep
<1>12. MemoryType'
  BY <1>1, <1>2, <1>5, <1>6 DEF MemoryType
<1> QED
  BY <1>2, <1>5, <1>7, <1>9, <1>10, <1>11, <1>12, OneRequestStep

\* A document is written: the copy, with the change, and what is left of others.
LEMMA WriteStep ==
  ASSUME MemoryInv, NEW r \in Requests, WriteDocument(r)
  PROVE  MemoryInv'
<1> DEFINE q == request[r]
           new == [q EXCEPT !.at = "applying", !.next = q.next + 1, !.file = None,
                            !.copy = {}]
           written == (q.copy \ Removed(r)) \cup (IF OnEntry(r) THEN {q.seen[q.next]} ELSE {})
<1>1. /\ inbox \in Seq(Notes) /\ document \in [Documents -> SUBSET Notes]
      /\ request \in [Requests -> RequestRecords] /\ q \in RequestRecords
      /\ Shape(r) /\ Matched(r) /\ Carried(r)
  BY DEF MemoryInv, MemoryType
<1>2. /\ q.at = "writing" /\ request' = [request EXCEPT ![r] = new]
      /\ inbox' = inbox /\ remembered' = remembered /\ dismissed' = dismissed
  BY DEF WriteDocument
<1>3. PICK left \in SUBSET document[q.file] :
        /\ document' = [document EXCEPT ![q.file] = written \cup left]
        /\ exposed' = exposed \cup (document[q.file] \ (written \cup left))
  BY DEF WriteDocument
<1>4. /\ new \in RequestRecords /\ new.at = "applying" /\ new.next = q.next + 1
      /\ new.seen = q.seen /\ new.read = q.read /\ new.undecided = q.undecided
  <2>1. q.next + 1 \in Nat /\ {} \in SUBSET Notes
    BY <1>1 DEF RequestRecords
  <2> HIDE DEF q
  <2> QED
    BY <1>1, <2>1 DEF RequestRecords, q
<1>5. q.file \in Documents /\ Removed(r) \subseteq dismissed /\ q.copy \subseteq Notes
  BY <1>1, <1>2 DEF Shape, RequestRecords
<1>6. Applying(r) /\ q.at # "rewriting"
  BY <1>2 DEF Applying
<1>7. /\ written \subseteq Notes
      /\ OnEntry(r) => q.seen[q.next] \in written
      /\ q.copy \subseteq written \cup dismissed
  BY <1>5, <1>6, NextDecision
<1> HIDE DEF new, written
<1>8. /\ request' \in [Requests -> RequestRecords] /\ request'[r] = new
      /\ \A p \in Requests \ {r} : request'[p] = request[p]
  BY <1>1, <1>2, <1>4
<1>9. /\ document' \in [Documents -> SUBSET Notes]
      /\ document'[q.file] = written \cup left
      /\ \A f \in Documents \ {q.file} : document'[f] = document[f]
  BY <1>1, <1>3, <1>5, <1>7
<1>10. \A n \in written : Filed(n)'
  BY <1>5, <1>9 DEF Filed
<1>11. ASSUME NEW n, Filed(n) PROVE Filed(n)'
  <2>1. CASE n \in dismissed \cup exposed
    BY <1>2, <1>3, <2>1 DEF Filed
  <2>2. ASSUME NEW f \in Documents, n \in document[f] PROVE Filed(n)'
    <3>1. CASE f # q.file
      BY <1>9, <2>2, <3>1 DEF Filed
    <3>2. CASE f = q.file /\ n \in written \cup left
      BY <1>9, <3>2 DEF Filed
    <3>3. CASE f = q.file /\ n \notin written \cup left
      BY <1>3, <2>2, <3>3 DEF Filed
    <3> QED
      BY <3>1, <3>2, <3>3
  <2>3. ASSUME NEW p \in Requests, request[p].at = "writing", n \in request[p].copy
        PROVE  Filed(n)'
    <3>1. CASE p # r
      BY <1>8, <2>3, <3>1 DEF Filed
    <3>2. CASE p = r
      <4>1. n \in written \/ n \in dismissed'
        BY <1>2, <1>7, <2>3, <3>2
      <4>2. n \in dismissed' => Filed(n)'
        BY DEF Filed
      <4> QED
        BY <1>10, <4>1, <4>2
    <3> QED
      BY <3>1, <3>2
  <2> QED
    BY <1>11, <2>1, <2>2, <2>3 DEF Filed
<1>12. Shape(r)'
  <2>1. q.next \in Nat
    BY <1>1 DEF RequestRecords
  <2> QED
    BY <1>1, <1>4, <1>6, <1>8, <2>1 DEF Shape, Applying
<1>13. exposed \subseteq exposed'
  BY <1>3
<1>14. Matched(r)'
  BY <1>1, <1>4, <1>6, <1>8, <1>13 DEF Matched
<1>15. Carried(r)'
  BY <1>4, <1>6, <1>7, <1>8, <1>10, <1>11, <1>13, CarriedOn
<1>16. NotesAreKept'
  BY <1>2, <1>6, <1>8, <1>11, KeptStep
<1>17. MemoryType'
  BY <1>1, <1>2, <1>8, <1>9 DEF MemoryType
<1> QED
  BY <1>2, <1>8, <1>11, <1>12, <1>13, <1>14, <1>15, <1>16, <1>17, OneRequestStep

\* An entry is dropped, or passed over.
LEMMA PassStep ==
  ASSUME MemoryInv, NEW r \in Requests, Pass(r)
  PROVE  MemoryInv'
<1> DEFINE q == request[r]
           new == [q EXCEPT !.next = q.next + 1]
<1>1. /\ inbox \in Seq(Notes) /\ document \in [Documents -> SUBSET Notes]
      /\ request \in [Requests -> RequestRecords] /\ q \in RequestRecords
      /\ Shape(r) /\ Matched(r) /\ Carried(r) /\ q.next \in Nat
  BY DEF MemoryInv, MemoryType, RequestRecords
<1>2. /\ q.at = "applying" /\ request' = [request EXCEPT ![r] = new]
      /\ inbox' = inbox /\ document' = document /\ remembered' = remembered
      /\ exposed' = exposed
      /\ dismissed' = dismissed \cup (IF OnEntry(r) THEN {q.seen[q.next]} ELSE {})
  BY DEF Pass
<1>3. /\ new \in RequestRecords /\ new.at = q.at /\ new.next = q.next + 1
      /\ new.seen = q.seen /\ new.read = q.read /\ new.undecided = q.undecided
  <2>1. q.next + 1 \in Nat
    BY <1>1
  <2> HIDE DEF q
  <2> QED
    BY <1>1, <2>1 DEF RequestRecords, q
<1> HIDE DEF new
<1>4. /\ request' \in [Requests -> RequestRecords] /\ request'[r] = new
      /\ \A p \in Requests \ {r} : request'[p] = request[p]
  BY <1>1, <1>2, <1>3
<1>5. Applying(r) /\ q.at # "rewriting" /\ dismissed \subseteq dismissed'
  BY <1>2 DEF Applying
<1>6. ASSUME NEW n, Filed(n) PROVE Filed(n)'
  BY <1>2, <1>3, <1>4, <1>5, <1>6 DEF Filed
<1>7. \A n : OnEntry(r) /\ n = q.seen[q.next] => Filed(n)'
  BY <1>2 DEF Filed
<1>8. Shape(r)' /\ Matched(r)'
  BY <1>1, <1>2, <1>3, <1>4, <1>5 DEF Shape, Matched, Applying
<1>9. Carried(r)'
  BY <1>2, <1>3, <1>4, <1>5, <1>6, <1>7, CarriedOn
<1>10. NotesAreKept'
  BY <1>2, <1>4, <1>5, <1>6, KeptStep
<1>11. MemoryType'
  BY <1>1, <1>2, <1>4 DEF MemoryType
<1> QED
  BY <1>2, <1>4, <1>5, <1>6, <1>8, <1>9, <1>10, <1>11, OneRequestStep

\* What remains of an inbox is of what was read; all of it that is not undecided
\* was carried out.
LEMMA RemainingFacts ==
  ASSUME MemoryInv, NEW r \in Requests, Applying(r),
         request[r].next > Len(request[r].seen)
  PROVE  /\ Remaining(r) \in Seq(Notes)
         /\ \A n \in ToSet(request[r].read) : n \in ToSet(Remaining(r)) \/ Filed(n)
<1> DEFINE q == request[r]
<1>1. /\ q \in RequestRecords /\ Shape(r) /\ Carried(r) /\ q.read \in Seq(Notes)
      /\ q.next \in Nat /\ q.seen \in Seq(Notes)
  BY DEF MemoryInv, MemoryType, RequestRecords
<1>2. /\ DOMAIN q.read = 1 .. Len(q.read) /\ DOMAIN q.seen = 1 .. Len(q.read)
      /\ Len(q.read) \in Nat /\ Len(q.seen) = Len(q.read)
  BY <1>1, LenProperties DEF Shape
<1>3. q.undecided \in SUBSET (1 .. Len(q.read))
  BY <1>1, <1>2 DEF Shape
<1>4. /\ Remaining(r) \in Seq(Notes)
      /\ \A i \in q.undecided : \E k \in DOMAIN Remaining(r) : Remaining(r)[k] = q.read[i]
  <2> HIDE DEF q
  <2>1. /\ At(q.read, q.undecided) \in Seq(Notes)
        /\ \A i \in q.undecided : \E k \in DOMAIN At(q.read, q.undecided) :
             At(q.read, q.undecided)[k] = q.read[i]
    BY <1>1, <1>3, AtFacts, AtElements
  <2> QED
    BY <2>1 DEF Remaining, q
<1>5. ASSUME NEW n \in ToSet(q.read) PROVE n \in ToSet(Remaining(r)) \/ Filed(n)
  <2>1. PICK k \in DOMAIN q.read : q.read[k] = n
    BY <1>5 DEF ToSet
  <2>2. CASE k \in q.undecided
    BY <1>4, <2>1, <2>2 DEF ToSet
  <2>3. CASE k \notin q.undecided
    <3>1. k < q.next
      BY <1>1, <1>2
    <3> QED
      BY <1>1, <2>1, <2>3, <3>1 DEF Carried
  <2> QED
    BY <2>2, <2>3
<1> QED
  BY <1>4, <1>5

\* The inbox is emptied: each entry is filed, exposed, or in hand.
LEMMA EmptyInboxStep ==
  ASSUME MemoryInv, NEW r \in Requests, EmptyInbox(r)
  PROVE  MemoryInv'
<1> DEFINE q == request[r]
           new == IF Remaining(r) = <<>> THEN Idle ELSE [q EXCEPT !.at = "rewriting"]
<1>1. /\ inbox \in Seq(Notes) /\ document \in [Documents -> SUBSET Notes]
      /\ request \in [Requests -> RequestRecords] /\ q \in RequestRecords
      /\ Shape(r) /\ Matched(r) /\ Carried(r) /\ q.next \in Nat /\ Len(q.seen) \in Nat
  BY LenProperties DEF MemoryInv, MemoryType, RequestRecords
<1>2. /\ q.at = "applying" /\ q.next = Len(q.seen) + 2
      /\ request' = [request EXCEPT ![r] = new]
      /\ inbox' = <<>> /\ document' = document /\ remembered' = remembered
      /\ exposed' = exposed \cup (ToSet(inbox) \ ToSet(q.read))
      /\ dismissed' = dismissed
  BY DEF EmptyInbox
<1>3. /\ new \in RequestRecords
      /\ \/ new = Idle /\ new.at = "idle" /\ Remaining(r) = <<>>
         \/ /\ new.at = "rewriting" /\ new.next = q.next /\ new.seen = q.seen
            /\ new.read = q.read /\ new.undecided = q.undecided
  <2>1. Idle \in RequestRecords /\ Idle.at = "idle"
    BY IdleType
  <2>2. LET going == [q EXCEPT !.at = "rewriting"]
        IN  /\ going \in RequestRecords
            /\ going.at = "rewriting" /\ going.next = q.next /\ going.seen = q.seen
            /\ going.read = q.read /\ going.undecided = q.undecided
    <3> HIDE DEF q
    <3> QED
      BY <1>1 DEF RequestRecords, q
  <2> QED
    BY <2>1, <2>2
<1> HIDE DEF new
<1>4. /\ request' \in [Requests -> RequestRecords] /\ request'[r] = new
      /\ \A p \in Requests \ {r} : request'[p] = request[p]
  BY <1>1, <1>2, <1>3
<1>5. Applying(r) /\ q.next > Len(q.seen)
  BY <1>1, <1>2 DEF Applying
<1>6. ASSUME NEW n, Filed(n) PROVE Filed(n)'
  <2>1. \A p \in Requests : request[p].at = "writing" => request'[p] = request[p]
    BY <1>2, <1>4
  <2> QED
    BY <1>2, <1>6, <2>1 DEF Filed
<1>7. Shape(r)' /\ Matched(r)' /\ Carried(r)'
  BY <1>1, <1>2, <1>3, <1>4, <1>5, <1>6 DEF Shape, Matched, Carried, Applying
<1>8. NotesAreKept'
  <2>1. ASSUME NEW n \in ToSet(Remaining(r)) PROVE Returning(n)'
    <3>1. Remaining(r) # <<>>
      BY <2>1 DEF ToSet
    <3>2. Remaining(r)' = Remaining(r) /\ request'[r].at = "rewriting"
      BY <1>3, <1>4, <3>1 DEF Remaining
    <3> QED
      BY <2>1, <3>2 DEF Returning
  <2>2. ASSUME NEW n, Returning(n) PROVE Returning(n)'
    <3>1. PICK p \in Requests : request[p].at = "rewriting" /\ n \in ToSet(Remaining(p))
      BY <2>2 DEF Returning
    <3>2. request'[p] = request[p]
      BY <1>2, <1>4, <3>1
    <3>3. Remaining(p)' = Remaining(p)
      BY <3>2 DEF Remaining
    <3> QED
      BY <3>1, <3>2, <3>3 DEF Returning
  <2>3. ASSUME NEW n \in ToSet(inbox) PROVE Filed(n)' \/ Returning(n)'
    <3>1. CASE n \notin ToSet(q.read)
      BY <1>2, <3>1 DEF Filed
    <3>2. CASE n \in ToSet(q.read)
      BY <1>5, <1>6, <2>1, <3>2, RemainingFacts
    <3> QED
      BY <3>1, <3>2
  <2>4. \A n \in remembered : n \in ToSet(inbox) \/ Filed(n) \/ Returning(n)
    BY KeptForm DEF MemoryInv
  <2> QED
    BY <1>2, <1>6, <2>2, <2>3, <2>4, KeptForm
<1>9. MemoryType'
  BY <1>1, <1>2, <1>4 DEF MemoryType
<1> QED
  BY <1>2, <1>4, <1>6, <1>7, <1>8, <1>9, OneRequestStep

\* The end of a list of notes is one.
LEMMA EndOfInbox ==
  ASSUME NEW s \in Seq(Notes), NEW t \in Seq(Notes), NEW k \in Nat \ {0}
  PROVE  /\ s \o At(t, k .. Len(t)) \in Seq(Notes)
         /\ \A n \in ToSet(s) : n \in ToSet(s \o At(t, k .. Len(t)))
<1> DEFINE e == At(t, k .. Len(t))
<1>1. k .. Len(t) \in SUBSET (1 .. Len(t)) /\ Len(t) \in Nat
  BY LenProperties
<1>2. e \in Seq(Notes)
  BY <1>1, AtFacts
<1> HIDE DEF e
<1>3. /\ s \o e \in Seq(Notes) /\ Len(s \o e) = Len(s) + Len(e)
      /\ \A i \in 1 .. Len(s) : (s \o e)[i] = s[i]
  BY <1>2, ConcatProperties
<1>4. /\ DOMAIN s = 1 .. Len(s) /\ DOMAIN (s \o e) = 1 .. Len(s) + Len(e)
      /\ Len(s) \in Nat /\ Len(e) \in Nat
  BY <1>2, <1>3, LenProperties
<1>5. \A i \in DOMAIN s : i \in DOMAIN (s \o e) /\ (s \o e)[i] = s[i]
  BY <1>3, <1>4
<1> QED
  BY <1>3, <1>5 DEF ToSet, e

\* The inbox is written again: what remains is back, and what it has overwritten
\* is filed, exposed, or among it.
LEMMA RewriteStep ==
  ASSUME MemoryInv, NEW r \in Requests, RewriteInbox(r)
  PROVE  MemoryInv'
<1> DEFINE q == request[r]
<1>1. /\ inbox \in Seq(Notes) /\ document \in [Documents -> SUBSET Notes]
      /\ request \in [Requests -> RequestRecords] /\ q \in RequestRecords
      /\ Shape(r) /\ Matched(r) /\ Carried(r)
  BY DEF MemoryInv, MemoryType
<1>2. /\ q.at = "rewriting" /\ request' = [request EXCEPT ![r] = Idle]
      /\ document' = document /\ remembered' = remembered /\ dismissed' = dismissed
      /\ exposed' = exposed \cup (ToSet(inbox) \ (ToSet(q.read) \cup ToSet(inbox')))
  BY DEF RewriteInbox
<1>3. PICK torn \in {0, 1} :
        inbox' = Remaining(r) \o At(inbox, Len(Remaining(r)) + torn + 1 .. Len(inbox))
  BY DEF RewriteInbox
<1>4. Applying(r) /\ q.next > Len(q.seen)
  BY <1>1, <1>2 DEF Applying, Shape
<1>5. /\ Remaining(r) \in Seq(Notes)
      /\ \A n \in ToSet(q.read) : n \in ToSet(Remaining(r)) \/ Filed(n)
  BY <1>4, RemainingFacts
<1>6. /\ inbox' \in Seq(Notes)
      /\ \A n \in ToSet(Remaining(r)) : n \in ToSet(inbox')
  <2>1. Len(Remaining(r)) + torn + 1 \in Nat \ {0}
    <3>1. Len(Remaining(r)) \in Nat
      BY <1>5, LenProperties
    <3> QED
      BY <3>1
  <2> QED
    BY <1>1, <1>3, <1>5, <2>1, EndOfInbox
<1>7. /\ request' \in [Requests -> RequestRecords] /\ request'[r] = Idle
      /\ Idle.at = "idle"
      /\ \A p \in Requests \ {r} : request'[p] = request[p]
  BY <1>1, <1>2, IdleType
<1>8. ASSUME NEW n, Filed(n) PROVE Filed(n)'
  <2>1. \A p \in Requests : request[p].at = "writing" => request'[p] = request[p]
    BY <1>2, <1>7
  <2> QED
    BY <1>2, <1>8, <2>1 DEF Filed
<1>9. Shape(r)' /\ Matched(r)' /\ Carried(r)'
  BY <1>7 DEF Shape, Matched, Carried, Applying
<1>10. NotesAreKept'
  <2>1. ASSUME NEW n, Returning(n) PROVE n \in ToSet(inbox') \/ Returning(n)'
    <3>1. PICK p \in Requests : request[p].at = "rewriting" /\ n \in ToSet(Remaining(p))
      BY <2>1 DEF Returning
    <3>2. CASE p = r
      BY <1>6, <3>1, <3>2
    <3>3. CASE p # r
      <4>1. request'[p] = request[p]
        BY <1>7, <3>3
      <4>2. Remaining(p)' = Remaining(p)
        BY <4>1 DEF Remaining
      <4> QED
        BY <3>1, <4>1, <4>2 DEF Returning
    <3> QED
      BY <3>2, <3>3
  <2>2. ASSUME NEW n \in ToSet(inbox) PROVE n \in ToSet(inbox') \/ Filed(n)'
    <3>1. CASE n \in ToSet(q.read)
      BY <1>5, <1>6, <1>8, <3>1
    <3>2. CASE n \notin ToSet(q.read) \cup ToSet(inbox')
      BY <1>2, <3>2 DEF Filed
    <3> QED
      BY <3>1, <3>2
  <2>3. \A n \in remembered : n \in ToSet(inbox) \/ Filed(n) \/ Returning(n)
    BY KeptForm DEF MemoryInv
  <2> QED
    BY <1>2, <1>8, <2>1, <2>2, <2>3, KeptForm
<1>11. MemoryType'
  BY <1>1, <1>2, <1>6, <1>7 DEF MemoryType
<1>12. exposed \subseteq exposed' /\ dismissed \subseteq dismissed'
  BY <1>2
<1> QED
  BY <1>7, <1>8, <1>9, <1>10, <1>11, <1>12, OneRequestStep

\* Files are emptied before they are written, requests overlap and are cut off
\* anywhere, and decisions are sent again: for any notes and requests, no note is
\* lost but one that a request missed or had in hand when it was cut off.
THEOREM NoNoteIsLost == Spec => []NotesAreKept
<1>1. Init => MemoryInv
  <2> SUFFICES ASSUME MemoryInit PROVE MemoryInv
    BY DEF Init
  <2>1. /\ inbox = <<>> /\ document = [f \in Documents |-> {}]
        /\ request = [r \in Requests |-> Idle]
        /\ remembered = {} /\ <<>> \in Seq(Notes)
    BY DEF MemoryInit
  <2>2. Idle \in RequestRecords /\ Idle.at = "idle"
    BY IdleType
  <2>3. \A r \in Requests : Shape(r) /\ Matched(r) /\ Carried(r)
    BY <2>1, <2>2 DEF Shape, Matched, Carried, Applying
  <2>4. MemoryType /\ NotesAreKept
    BY <2>1, <2>2 DEF MemoryType, NotesAreKept
  <2> QED
    BY <2>3, <2>4 DEF MemoryInv
<1>2. MemoryInv /\ [Next]_<<auth, memory, listing, pool, worker, service>> => MemoryInv'
  <2> SUFFICES ASSUME MemoryInv, [Next]_<<auth, memory, listing, pool, worker, service>>
               PROVE  MemoryInv'
    OBVIOUS
  <2>1. MemoryNext \/ UNCHANGED memory
    BY DEF Next
  <2>2. CASE MemoryNext
    BY <2>2, RememberStep, PageShownStep, StartStep, ReadStep, EmptyStep, WriteStep,
       PassStep, EmptyInboxStep, RewriteStep
    DEF MemoryNext
  <2>3. CASE UNCHANGED memory
    <3>1. UNCHANGED <<inbox, document, request, remembered, dismissed, exposed>>
      BY <2>3 DEF memory
    <3>2. \A n : (Filed(n)' <=> Filed(n)) /\ (Returning(n)' <=> Returning(n))
      BY <3>1 DEF Filed, Returning, Remaining
    <3>3. NotesAreKept'
      BY <3>1, <3>2, KeptForm DEF MemoryInv
    <3>4. \A r \in Requests : Shape(r)' /\ Matched(r)' /\ Carried(r)'
      BY <3>1, <3>2 DEF MemoryInv, Shape, Matched, Carried, Applying, Removed, Deletes
    <3> QED
      BY <3>1, <3>3, <3>4 DEF MemoryInv, MemoryType
  <2> QED
    BY <2>1, <2>2, <2>3
<1>3. MemoryInv => NotesAreKept
  BY DEF MemoryInv
<1> QED
  BY <1>1, <1>2, <1>3, PTL DEF Spec

-----------------------------------------------------------------------------
(* The attempts to organize a download.                                    *)

Calls == [attempt: Nat, step: Nat, nth: Nat, file: Files, informed: BOOLEAN]

Runs == [at: {"none", "thinking", "acting", "waiting", "ended", "reported"},
         step: Nat, batch: Seq(Tools), allowed: Seq(BOOLEAN), next: Nat,
         skill: BOOLEAN, informed: BOOLEAN, told: SUBSET Calls,
         loaded: BOOLEAN, observed: BOOLEAN,
         status: {"none", "error", "success", "failed"}]

\* The position in the batch is one of it whenever a call is made or awaited.
RunInv ==
  /\ run \in Runs
  /\ attempt \in Nat
  /\ sent \subseteq Calls
  /\ answers \subseteq [call: Calls, says: {"moved", "refused"}]
  /\ DOMAIN run.allowed = DOMAIN run.batch
  /\ run.at \in {"acting", "waiting"} => run.next \in DOMAIN run.batch
  /\ run.at = "waiting" => run.batch[run.next] \in Files

\* Without a run nothing is told or allowed.
LEMMA NoRunType ==
  /\ NoRun \in Runs
  /\ DOMAIN NoRun.allowed = DOMAIN NoRun.batch
  /\ NoRun.at = "none" /\ NoRun.told = {} /\ ~ NoRun.skill
BY DEF NoRun, Runs

\* The call that is made is one.
LEMMA CallType ==
  ASSUME RunInv, run.at \in {"acting", "waiting"}, run.batch[run.next] \in Files
  PROVE  CallOf(run) \in Calls
BY DEF RunInv, Runs, Calls, CallOf

\* A run goes on with the next call of its batch.
LEMMA ObservedType ==
  ASSUME RunInv, run.at \in {"acting", "waiting"}
  PROVE  /\ Observed(run) \in Runs
         /\ Observed(run).at \in {"thinking", "acting"}
         /\ Observed(run).at = "acting" => run.next + 1 \in DOMAIN run.batch
         /\ Observed(run).next = run.next + 1
         /\ Observed(run).batch = run.batch
         /\ Observed(run).allowed = run.allowed
         /\ Observed(run).step = run.step
         /\ Observed(run).told = run.told
         /\ Observed(run).skill = run.skill
         /\ Observed(run).loaded = run.loaded
         /\ Observed(run).informed = run.informed
<1> DEFINE seen == [run EXCEPT !.observed = TRUE]
           after == [seen EXCEPT !.next = run.next + 1]
           at == IF run.next = Len(run.batch) THEN "thinking" ELSE "acting"
<1>1. /\ run.batch \in Seq(Tools) /\ run.next \in Nat /\ run.next \in 1 .. Len(run.batch)
      /\ run \in Runs
  BY DEF RunInv, Runs
<1>2. /\ at \in {"thinking", "acting"}
      /\ at = "acting" => run.next + 1 \in DOMAIN run.batch
  BY <1>1
<1>3. Observed(run) = [after EXCEPT !.at = at]
  BY <1>1 DEF Observed, Runs
<1> HIDE DEF at
<1>4. /\ seen \in Runs
      /\ seen.next = run.next /\ seen.batch = run.batch /\ seen.allowed = run.allowed
      /\ seen.step = run.step /\ seen.told = run.told /\ seen.skill = run.skill
      /\ seen.loaded = run.loaded /\ seen.informed = run.informed
  BY <1>1 DEF Runs
<1> HIDE DEF seen
<1>5. /\ after \in Runs /\ after.next = run.next + 1
      /\ after.batch = seen.batch /\ after.allowed = seen.allowed
      /\ after.step = seen.step /\ after.told = seen.told /\ after.skill = seen.skill
      /\ after.loaded = seen.loaded /\ after.informed = seen.informed
  BY <1>1, <1>4 DEF Runs
<1> HIDE DEF after
<1>6. /\ [after EXCEPT !.at = at] \in Runs /\ [after EXCEPT !.at = at].at = at
      /\ [after EXCEPT !.at = at].next = after.next
      /\ [after EXCEPT !.at = at].batch = after.batch
      /\ [after EXCEPT !.at = at].allowed = after.allowed
      /\ [after EXCEPT !.at = at].step = after.step
      /\ [after EXCEPT !.at = at].told = after.told
      /\ [after EXCEPT !.at = at].skill = after.skill
      /\ [after EXCEPT !.at = at].loaded = after.loaded
      /\ [after EXCEPT !.at = at].informed = after.informed
  BY <1>2, <1>5 DEF Runs
<1> QED
  BY <1>1, <1>2, <1>3, <1>4, <1>5, <1>6

\* A new batch has a verdict for each of its calls.
LEMMA ThinkType ==
  ASSUME RunInv, NEW b \in Batches
  PROVE  /\ b \in Seq(Tools) /\ 1 \in DOMAIN b
         /\ Allowed(b, run.skill) \in Seq(BOOLEAN)
         /\ DOMAIN Allowed(b, run.skill) = DOMAIN b
<1>1. PICK n \in 1 .. MaxBatch : b \in [1 .. n -> Tools]
  BY DEF Batches
<1>2. n \in Nat /\ DOMAIN b = 1 .. n /\ 1 \in DOMAIN b /\ b \in Seq(Tools)
  BY <1>1
<1>3. Allowed(b, run.skill) \in [1 .. n -> BOOLEAN]
  BY <1>2 DEF Allowed, RunInv, Runs
<1> QED
  BY <1>2, <1>3

\* Every step of a run keeps its shape.
LEMMA RunStep ==
  ASSUME RunInv, WorkerNext
  PROVE  RunInv'
<1>1. CASE StartRun
  <2>1. run' = [NoRun EXCEPT !.at = "thinking"]
    BY <1>1 DEF StartRun
  <2>2. run' \in Runs /\ run'.at = "thinking" /\ DOMAIN run'.allowed = DOMAIN run'.batch
    BY <2>1, NoRunType DEF Runs
  <2> QED
    BY <1>1, <2>2 DEF StartRun, RunInv, pool
<1>2. CASE Think
  <2>1. PICK b \in Batches :
          run' = [run EXCEPT !.at = "acting", !.step = @ + 1, !.batch = b,
                             !.allowed = Allowed(b, run.skill), !.next = 1,
                             !.informed = run.loaded]
    BY <1>2 DEF Think
  <2> QED
    <3>1. /\ b \in Seq(Tools) /\ 1 \in DOMAIN b
          /\ Allowed(b, run.skill) \in Seq(BOOLEAN)
          /\ DOMAIN Allowed(b, run.skill) = DOMAIN b
      BY ThinkType
    <3>2. run' \in Runs
      <4> DEFINE acting == [run EXCEPT !.at = "acting"]
                 more == [acting EXCEPT !.step = run.step + 1]
                 full == [more EXCEPT !.batch = b, !.allowed = Allowed(b, run.skill)]
      <4>1. run' = [full EXCEPT !.next = 1, !.informed = run.loaded] /\ run.loaded \in BOOLEAN
        BY <2>1 DEF RunInv, Runs
      <4>2. more \in Runs
        <5>1. acting \in Runs /\ run.step + 1 \in Nat
          BY DEF RunInv, Runs
        <5> HIDE DEF acting
        <5> QED
          BY <5>1 DEF Runs
      <4> HIDE DEF more
      <4>3. full \in Runs
        BY <3>1, <4>2 DEF Runs
      <4> HIDE DEF full
      <4> QED
        BY <4>1, <4>3 DEF Runs
    <3>3. run'.at = "acting" /\ run'.batch = b /\ run'.next = 1
          /\ run'.allowed = Allowed(b, run.skill)
      BY <2>1 DEF RunInv, Runs
    <3> QED
      BY <1>2, <3>1, <3>2, <3>3 DEF Think, RunInv, pool
<1>3. CASE Unsent
  BY <1>3, ObservedType DEF Unsent, Acts, RunInv, pool
<1>4. CASE LoadSkill
  BY <1>4, ObservedType DEF LoadSkill, Acts, RunInv, Runs, pool
<1>5. CASE RequestMove
  BY <1>5, CallType DEF RequestMove, Acts, Send, RunInv, Runs
<1>6. CASE MoveAnswered
  <2>1. CallOf(run) \in Calls
    BY <1>6, CallType DEF MoveAnswered, RunInv
  <2>2. PICK a \in answers :
          /\ a.call = CallOf(run)
          /\ run' = [Observed(run) EXCEPT !.told = IF Succeeds(a.says)
                                                   THEN @ \cup {a.call} ELSE @]
    BY <1>6 DEF MoveAnswered
  <2> QED
    <3>1. run.at \in {"acting", "waiting"} /\ a.call \in Calls
      BY <1>6, <2>1, <2>2 DEF MoveAnswered
    <3>2. PICK told \in SUBSET Calls : run' = [Observed(run) EXCEPT !.told = told]
      BY <2>2, <3>1, ObservedType DEF RunInv, Runs
    <3>3. Observed(run) \in Runs
      BY <3>1, ObservedType
    <3>4. run' \in Runs /\ run'.at = Observed(run).at
          /\ run'.batch = run.batch /\ run'.next = run.next + 1
          /\ run'.allowed = run.allowed
      BY <3>1, <3>2, <3>3, ObservedType DEF Runs
    <3> QED
      BY <1>6, <3>1, <3>4, ObservedType DEF MoveAnswered, RunInv, pool
<1>7. CASE MoveUnanswered
  BY <1>7, ObservedType DEF MoveUnanswered, RunInv, pool
<1>8. CASE Conclude \/ ModelRaises
  BY <1>8 DEF Conclude, ModelRaises, Ends, Result, RunInv, Runs, pool
<1>9. CASE Report
  BY <1>9 DEF Report, NoRun, RunInv, Runs, pool
<1>10. CASE ServeCall
  BY <1>10 DEF ServeCall, Serve, RunInv
<1>11. CASE (ServerEnds \/ StopAll) /\ UNCHANGED worker
  BY <1>11 DEF ServerEnds, StopAll, Disconnected, worker, RunInv
<1> QED
  BY <1>1, <1>2, <1>3, <1>4, <1>5, <1>6, <1>7, <1>8, <1>9, <1>10, <1>11
  DEF WorkerNext

\* A run that knows the skill has the rules, and a call to move a file that
\* was allowed belongs to a batch asked for with them.
RulesInv ==
  /\ run.skill => run.loaded
  /\ run.at \in {"acting", "waiting"} =>
       \A i \in DOMAIN run.batch :
         run.batch[i] \in Files /\ run.allowed[i] => run.informed
  /\ MovesFollowRules

\* Every step keeps to the rules.
LEMMA RulesStep ==
  ASSUME RunInv, RulesInv, WorkerNext
  PROVE  RulesInv'
<1>1. CASE StartRun
  <2>1. run' = [NoRun EXCEPT !.at = "thinking"] /\ sent' = sent /\ moves' = moves
    BY <1>1 DEF StartRun, pool
  <2>2. ~ run'.skill /\ run'.at = "thinking"
    BY <2>1, NoRunType DEF Runs
  <2> QED
    BY <2>1, <2>2 DEF RulesInv, MovesFollowRules
<1>2. CASE Think
  <2>1. PICK b \in Batches :
          run' = [run EXCEPT !.at = "acting", !.step = @ + 1, !.batch = b,
                             !.allowed = Allowed(b, run.skill), !.next = 1,
                             !.informed = run.loaded]
    BY <1>2 DEF Think
  <2>2. /\ run'.skill = run.skill /\ run'.loaded = run.loaded /\ run'.batch = b
        /\ run'.allowed = Allowed(b, run.skill) /\ run'.informed = run.loaded
    BY <2>1 DEF RunInv, Runs
  <2>3. \A i \in DOMAIN b : b[i] \in Files /\ Allowed(b, run.skill)[i] => run.skill
    BY DEF Allowed
  <2> QED
    BY <1>2, <2>2, <2>3 DEF Think, RulesInv, MovesFollowRules, pool
<1>3. CASE Unsent \/ MoveUnanswered
  <2>1. run' = Observed(run) /\ sent' = sent /\ moves' = moves
    BY <1>3 DEF Unsent, MoveUnanswered, pool
  <2>2. run.at \in {"acting", "waiting"}
    BY <1>3 DEF Unsent, MoveUnanswered, Acts
  <2> QED
    BY <2>1, <2>2, ObservedType DEF RulesInv, MovesFollowRules
<1>4. CASE LoadSkill
  <2>1. /\ run' = [Observed(run) EXCEPT !.skill = TRUE, !.loaded = TRUE]
        /\ sent' = sent /\ moves' = moves /\ run.at = "acting"
    BY <1>4 DEF LoadSkill, Acts, pool
  <2>2. /\ run'.loaded /\ run'.batch = run.batch /\ run'.allowed = run.allowed
        /\ run'.informed = run.informed
    BY <2>1, ObservedType DEF Runs
  <2> QED
    BY <2>1, <2>2 DEF RulesInv, MovesFollowRules
<1>5. CASE RequestMove
  <2>1. /\ run' = [run EXCEPT !.at = "waiting"] /\ moves' = moves
        /\ run.at = "acting" /\ sent' \subseteq sent \cup {CallOf(run)}
    BY <1>5 DEF RequestMove, Acts, Send
  <2>2. /\ run'.skill = run.skill /\ run'.loaded = run.loaded
        /\ run'.batch = run.batch /\ run'.allowed = run.allowed
        /\ run'.informed = run.informed
    BY <2>1 DEF RunInv, Runs
  <2>3. run.informed
    BY <1>5, <2>1 DEF RequestMove, RunInv, RulesInv
  <2>4. CallOf(run).informed
    BY <2>3 DEF CallOf
  <2> QED
    BY <2>1, <2>2, <2>4 DEF RulesInv, MovesFollowRules
<1>6. CASE MoveAnswered
  <2>1. /\ \E a : run' = [Observed(run) EXCEPT !.told = a]
        /\ sent' = sent /\ moves' = moves /\ run.at = "waiting"
    BY <1>6 DEF MoveAnswered, pool
  <2>2. /\ run'.skill = run.skill /\ run'.loaded = run.loaded
        /\ run'.batch = run.batch /\ run'.allowed = run.allowed
        /\ run'.informed = run.informed
    BY <2>1, ObservedType DEF Runs
  <2> QED
    BY <2>1, <2>2 DEF RulesInv, MovesFollowRules
<1>7. CASE Conclude \/ ModelRaises
  <2>1. /\ \E s : run' = [run EXCEPT !.at = "ended", !.status = s]
        /\ sent' = sent /\ moves' = moves
    BY <1>7 DEF Conclude, ModelRaises, Ends, pool
  <2>2. run'.skill = run.skill /\ run'.loaded = run.loaded /\ run'.at = "ended"
    BY <2>1 DEF RunInv, Runs
  <2> QED
    BY <2>1, <2>2 DEF RulesInv, MovesFollowRules
<1>8. CASE Report
  <2>1. run' \in {NoRun, [run EXCEPT !.at = "reported"]} /\ sent' = sent /\ moves' = moves
    BY <1>8 DEF Report, pool
  <2>2. CASE run' = NoRun
    BY <2>1, <2>2, NoRunType DEF RulesInv, MovesFollowRules
  <2>3. CASE run' = [run EXCEPT !.at = "reported"]
    <3>1. run'.skill = run.skill /\ run'.loaded = run.loaded /\ run'.at = "reported"
      BY <2>3 DEF RunInv, Runs
    <3> QED
      BY <2>1, <3>1 DEF RulesInv, MovesFollowRules
  <2> QED
    BY <2>1, <2>2, <2>3
<1>9. CASE ServeCall
  BY <1>9 DEF ServeCall, Serve, RulesInv, MovesFollowRules
<1>10. CASE (ServerEnds \/ StopAll) /\ UNCHANGED worker
  BY <1>10 DEF ServerEnds, StopAll, Disconnected, worker, RulesInv, MovesFollowRules
<1> QED
  BY <1>1, <1>2, <1>3, <1>4, <1>5, <1>6, <1>7, <1>8, <1>9, <1>10
  DEF WorkerNext

\* The steps of the other services, too.
LEMMA WorkerOrNot ==
  ASSUME [Next]_<<auth, memory, listing, pool, worker, service>>
  PROVE  WorkerNext \/ UNCHANGED <<pool, worker>>
BY DEF Next

\* The server never has, and never had, a call to move a file that was asked
\* for before the rules were given, for any files, batches and attempts.
THEOREM MovesNeedTheRules == Spec => []MovesFollowRules
<1>1. Init => RunInv /\ RulesInv
  BY NoRunType DEF Init, WorkerInit, PoolInit, RunInv, RulesInv, MovesFollowRules
<1>2. RunInv /\ RulesInv /\ [Next]_<<auth, memory, listing, pool, worker, service>>
        => RunInv' /\ RulesInv'
  <2> SUFFICES ASSUME RunInv, RulesInv,
                      [Next]_<<auth, memory, listing, pool, worker, service>>
               PROVE  RunInv' /\ RulesInv'
    OBVIOUS
  <2>1. CASE WorkerNext
    BY <2>1, RunStep, RulesStep
  <2>2. CASE UNCHANGED <<pool, worker>>
    BY <2>2 DEF pool, worker, RunInv, RulesInv, MovesFollowRules
  <2> QED
    BY <2>1, <2>2, WorkerOrNot
<1>3. RulesInv => MovesFollowRules
  BY DEF RulesInv
<1> QED
  BY <1>1, <1>2, <1>3, PTL DEF Spec

\* A call of an earlier attempt, step or place in the batch.
Before(q) ==
  \/ q.attempt < attempt
  \/ q.attempt = attempt /\ q.step < run.step
  \/ q.attempt = attempt /\ q.step = run.step /\ q.nth < run.next

Known(q) == q \in sent \/ \E a \in answers : a.call = q

\* The server knows of no call that is still to be made, and of none that waits
\* to be handled and has been.
SettledInv ==
  /\ \A q \in Calls : Known(q) =>
       /\ q.attempt <= attempt
       /\ run.at # "none" => Before(q) \/ (run.at = "waiting" /\ q = CallOf(run))
  /\ \A a \in answers : a.call \notin sent
  /\ CountedAreSettled

\* A step that leaves the calls and the server alone, ending no wait but by
\* moving on, keeps what was settled.
LEMMA MovingOn ==
  ASSUME RunInv, SettledInv, RunInv', run.at # "none", run'.at # "none",
         attempt' = attempt, sent' = sent, answers' = answers,
         \/ run'.step > run.step
         \/ run'.step = run.step /\ run'.next > run.next
         \/ run'.step = run.step /\ run'.next = run.next /\ run.at # "waiting",
         \A q \in run'.told : q \in run.told \/ \E a \in answers : a.call = q
  PROVE  SettledInv'
<1>1. /\ run.step \in Nat /\ run'.step \in Nat /\ run.next \in Nat /\ run'.next \in Nat
      /\ attempt \in Nat
  BY DEF RunInv, Runs
<1>2. \A q \in Calls : Known(q)' = Known(q)
  BY DEF Known
<1>3. ASSUME NEW q \in Calls, Known(q)
      PROVE  q.attempt <= attempt /\ Before(q)'
  <2>1. q.attempt \in Nat /\ q.step \in Nat /\ q.nth \in Nat
    BY DEF Calls
  <2>2. CASE Before(q)
    BY <1>1, <1>3, <2>1, <2>2 DEF Before, SettledInv
  <2>3. CASE run.at = "waiting" /\ q = CallOf(run)
    <3>1. q.attempt = attempt /\ q.step = run.step /\ q.nth = run.next
      BY <2>3 DEF CallOf
    <3> QED
      BY <1>1, <2>1, <2>3, <3>1 DEF Before
  <2> QED
    BY <1>3, <2>2, <2>3 DEF SettledInv
<1>4. CountedAreSettled'
  BY DEF SettledInv, CountedAreSettled
<1> QED
  BY <1>2, <1>3, <1>4 DEF SettledInv

\* Every step counts what is settled.
LEMMA SettledStep ==
  ASSUME RunInv, SettledInv, WorkerNext
  PROVE  SettledInv'
<1>0. RunInv'
  BY RunStep
<1>1. CASE StartRun
  <2>1. /\ run' = [NoRun EXCEPT !.at = "thinking"] /\ attempt' = attempt + 1
        /\ sent' = sent /\ answers' = answers
    BY <1>1 DEF StartRun, pool
  <2>2. run'.told = {}
    BY <2>1, NoRunType DEF Runs
  <2>3. ASSUME NEW q \in Calls, Known(q)'
        PROVE  q.attempt < attempt'
    <3>1. Known(q) /\ q.attempt \in Nat /\ attempt \in Nat
      BY <2>1, <2>3 DEF Known, RunInv, Calls
    <3> QED
      BY <2>1, <3>1 DEF SettledInv
  <2>4. \A q \in Calls : Known(q)' => q.attempt <= attempt' /\ Before(q)'
    BY <1>0, <2>3 DEF Before, RunInv, Calls
  <2> QED
    BY <2>1, <2>2, <2>4 DEF SettledInv, CountedAreSettled
<1>2. CASE Think
  <2>1. PICK b \in Batches :
          run' = [run EXCEPT !.at = "acting", !.step = @ + 1, !.batch = b,
                             !.allowed = Allowed(b, run.skill), !.next = 1,
                             !.informed = run.loaded]
    BY <1>2 DEF Think
  <2>2. /\ run'.step = run.step + 1 /\ run'.told = run.told /\ run'.at = "acting"
        /\ run.step \in Nat
    BY <2>1 DEF RunInv, Runs
  <2> QED
    BY <1>0, <1>2, <2>2, MovingOn DEF Think, pool
<1>3. CASE Unsent \/ MoveUnanswered
  <2>1. /\ run' = Observed(run) /\ sent' = sent /\ answers' = answers
        /\ attempt' = attempt /\ run.at \in {"acting", "waiting"}
    BY <1>3 DEF Unsent, MoveUnanswered, Acts, pool
  <2>2. /\ run'.at # "none" /\ run'.step = run.step /\ run'.next = run.next + 1
        /\ run'.told = run.told /\ run.next \in Nat
    BY <2>1, ObservedType DEF RunInv, Runs
  <2> QED
    BY <1>0, <2>1, <2>2, MovingOn
<1>4. CASE LoadSkill
  <2>1. /\ run' = [Observed(run) EXCEPT !.skill = TRUE, !.loaded = TRUE]
        /\ sent' = sent /\ answers' = answers /\ attempt' = attempt
        /\ run.at = "acting"
    BY <1>4 DEF LoadSkill, Acts, pool
  <2>2. /\ run'.at # "none" /\ run'.step = run.step /\ run'.next = run.next + 1
        /\ run'.told = run.told /\ run.next \in Nat
    BY <2>1, ObservedType DEF RunInv, Runs
  <2> QED
    BY <1>0, <2>1, <2>2, MovingOn
<1>5. CASE RequestMove
  <2>1. /\ run' = [run EXCEPT !.at = "waiting"] /\ attempt' = attempt
        /\ run.at = "acting" /\ sent' \subseteq sent \cup {CallOf(run)}
        /\ sent \subseteq sent' /\ answers' = answers
    BY <1>5 DEF RequestMove, Acts, Send
  <2>2. /\ run'.at = "waiting" /\ run'.step = run.step /\ run'.next = run.next
        /\ run'.batch = run.batch /\ run'.informed = run.informed
        /\ run'.told = run.told
    BY <2>1 DEF RunInv, Runs
  <2>3. CallOf(run)' = CallOf(run) /\ CallOf(run) \in Calls
    BY <1>5, <2>1, <2>2, CallType DEF CallOf, RequestMove
  <2>4. /\ CallOf(run).attempt = attempt /\ CallOf(run).step = run.step
        /\ CallOf(run).nth = run.next
    BY DEF CallOf
  <2>5. run.step \in Nat /\ run.next \in Nat /\ attempt \in Nat
    BY DEF RunInv, Runs
  <2>6. ~ Before(CallOf(run))
    BY <2>4, <2>5 DEF Before
  <2>7. ~ Known(CallOf(run))
    BY <2>1, <2>3, <2>6 DEF SettledInv
  <2>8. ASSUME NEW q \in Calls, Known(q)'
        PROVE  q.attempt <= attempt' /\ (Before(q)' \/ q = CallOf(run)')
    <3>1. CASE q = CallOf(run)
      BY <2>1, <2>3, <2>4, <2>5, <3>1
    <3>2. CASE Known(q)
      BY <2>1, <2>2, <3>2 DEF SettledInv, Before
    <3> QED
      BY <2>1, <2>8, <3>1, <3>2 DEF Known
  <2>9. \A a \in answers' : a.call \notin sent'
    BY <2>1, <2>7 DEF SettledInv, Known
  <2>10. CountedAreSettled'
    BY <2>1, <2>2, <2>7 DEF SettledInv, CountedAreSettled, Known
  <2> QED
    BY <2>2, <2>8, <2>9, <2>10 DEF SettledInv
<1>6. CASE MoveAnswered
  <2>1. PICK a \in answers :
          /\ a.call = CallOf(run)
          /\ run' = [Observed(run) EXCEPT !.told = IF Succeeds(a.says)
                                                   THEN @ \cup {a.call} ELSE @]
    BY <1>6 DEF MoveAnswered
  <2>2. /\ sent' = sent /\ answers' = answers /\ attempt' = attempt
        /\ run.at = "waiting"
    BY <1>6 DEF MoveAnswered, pool
  <2>3. /\ run'.at # "none" /\ run'.step = run.step /\ run'.next = run.next + 1
        /\ run'.told \subseteq run.told \cup {a.call} /\ run.next \in Nat
    BY <2>1, <2>2, ObservedType DEF RunInv, Runs
  <2> QED
    BY <1>0, <2>2, <2>3, MovingOn
<1>7. CASE Conclude \/ ModelRaises
  <2>1. /\ \E s : run' = [run EXCEPT !.at = "ended", !.status = s]
        /\ sent' = sent /\ answers' = answers /\ attempt' = attempt
        /\ run.at = "thinking"
    BY <1>7 DEF Conclude, ModelRaises, Ends, pool
  <2>2. /\ run'.at # "none" /\ run'.step = run.step /\ run'.next = run.next
        /\ run'.told = run.told
    BY <2>1 DEF RunInv, Runs
  <2> QED
    BY <1>0, <2>1, <2>2, MovingOn
<1>8. CASE Report
  <2>1. /\ run' \in {NoRun, [run EXCEPT !.at = "reported"]} /\ run.at = "ended"
        /\ sent' = sent /\ answers' = answers /\ attempt' = attempt
    BY <1>8 DEF Report, pool
  <2>2. CASE run' = NoRun
    <3>1. run'.at = "none" /\ run'.told = {}
      BY <2>2, NoRunType
    <3>2. \A q \in Calls : Known(q)' = Known(q)
      BY <2>1 DEF Known
    <3> QED
      BY <2>1, <3>1, <3>2 DEF SettledInv, CountedAreSettled
  <2>3. CASE run' = [run EXCEPT !.at = "reported"]
    <3>1. /\ run'.at # "none" /\ run'.step = run.step /\ run'.next = run.next
          /\ run'.told = run.told
      BY <2>3 DEF RunInv, Runs
    <3> QED
      BY <1>0, <2>1, <3>1, MovingOn
  <2> QED
    BY <2>1, <2>2, <2>3
<1>9. CASE ServeCall
  <2>1. PICK q \in sent : Serve(q) /\ UNCHANGED <<run, attempt>>
    BY <1>9 DEF ServeCall
  <2>2. PICK s : answers' = answers \cup {[call |-> q, says |-> s]} /\ sent' = sent \ {q}
    BY <2>1 DEF Serve
  <2>3. \A c \in Calls : /\ Known(c)' => Known(c)
                         /\ Before(c)' = Before(c)
    BY <2>1, <2>2 DEF Known, Before
  <2>4. CallOf(run)' = CallOf(run)
    BY <2>1 DEF CallOf
  <2>5. CountedAreSettled'
    BY <2>1, <2>2 DEF SettledInv, CountedAreSettled
  <2>6. \A a \in answers' : a.call \notin sent'
    BY <2>2 DEF SettledInv
  <2> QED
    BY <2>1, <2>3, <2>4, <2>5, <2>6 DEF SettledInv
<1>10. CASE (ServerEnds \/ StopAll) /\ UNCHANGED worker
  <2>1. sent' = {} /\ answers' = answers /\ run' = run /\ attempt' = attempt
    BY <1>10 DEF ServerEnds, StopAll, Disconnected, worker
  <2>2. \A c \in Calls : /\ Known(c)' => Known(c)
                         /\ Before(c)' = Before(c)
    BY <2>1 DEF Known, Before
  <2>3. CallOf(run)' = CallOf(run)
    BY <2>1 DEF CallOf
  <2> QED
    BY <2>1, <2>2, <2>3 DEF SettledInv, CountedAreSettled
<1> QED
  BY <1>1, <1>2, <1>3, <1>4, <1>5, <1>6, <1>7, <1>8, <1>9, <1>10
  DEF WorkerNext

\* Of the moves an attempt counts none is still to come, for any files, batches
\* and attempts, however late answers are and whenever the server ends.
THEOREM CountedMovesAreSettled == Spec => []CountedAreSettled
<1>1. Init => RunInv /\ SettledInv
  BY NoRunType DEF Init, WorkerInit, PoolInit, RunInv, SettledInv, Known, CountedAreSettled
<1>2. RunInv /\ SettledInv /\ [Next]_<<auth, memory, listing, pool, worker, service>>
        => RunInv' /\ SettledInv'
  <2> SUFFICES ASSUME RunInv, SettledInv,
                      [Next]_<<auth, memory, listing, pool, worker, service>>
               PROVE  RunInv' /\ SettledInv'
    OBVIOUS
  <2>1. CASE WorkerNext
    BY <2>1, RunStep, SettledStep
  <2>2. CASE UNCHANGED <<pool, worker>>
    BY <2>2 DEF pool, worker, RunInv, SettledInv, Known, Before, CallOf, CountedAreSettled
  <2> QED
    BY <2>1, <2>2, WorkerOrNot
<1>3. SettledInv => CountedAreSettled
  BY DEF SettledInv
<1> QED
  BY <1>1, <1>2, <1>3, PTL DEF Spec

-----------------------------------------------------------------------------
(* Pages of announcements.                                                 *)

Twin(e) == \E f \in EventIds \ {e} : created[f] = created[e]

\* What has not been shown and has a created_at of its own is older than all
\* that has.
ListInv ==
  /\ time \in Nat \ {0}
  /\ created \in [EventIds -> Nat]
  /\ reader \in [at: {"none", "reading", "done"}, unread: BOOLEAN,
                 cursor: Nat, due: SUBSET EventIds]
  /\ \A e \in reader.due : created[e] > 0
  /\ reader.at = "reading" /\ reader.cursor > 0 =>
       \A e \in reader.due \cap Listed(reader.unread) :
         created[e] < reader.cursor \/ Twin(e)
  /\ PagesShowAll

\* A page that shows anything has an oldest event.
LEMMA OldestFacts ==
  ASSUME created \in [EventIds -> Nat], NEW page \in SUBSET EventIds, page # {}
  PROVE  \E f \in page : Oldest(page) = created[f]
<1> DEFINE T == {created[e] : e \in page}
<1>1. T \in SUBSET Nat /\ T # {}
  OBVIOUS
<1>2. \E c \in T : \A d \in T : c <= d
  <2> HIDE DEF T
  <2> QED
    BY <1>1, LeastPosition
<1>3. \E c \in T : \A e \in page : c <= created[e]
  BY <1>2
<1>4. Oldest(page) \in T
  BY <1>3 DEF Oldest
<1> QED
  BY <1>4

\* The page that does not fill its size is the rest of the list.
LEMMA PageFacts ==
  ASSUME InboxAssumption, NEW candidates, NEW page \in Pages(candidates)
  PROVE  /\ page \subseteq candidates
         /\ Cardinality(page) < PageSize => page = candidates
         /\ ~ Cardinality(page) < PageSize => page # {}
         /\ \A e \in page, f \in candidates \ page : created[e] >= created[f]
BY FS_EmptySet DEF Pages, InboxAssumption

\* A page shows the newest of what is due.
LEMMA PageStep ==
  ASSUME ListInv, InboxAssumption, ListEvents
  PROVE  ListInv'
<1> DEFINE shown == Listed(reader.unread)
           candidates == {e \in shown : reader.cursor > 0 => created[e] < reader.cursor}
<1>1. PICK page \in Pages(candidates) :
        reader' =
          [reader EXCEPT
             !.due = (@ \cap Listed(reader.unread)) \ page,
             !.at = IF Cardinality(page) < PageSize THEN "done" ELSE @,
             !.cursor = IF Cardinality(page) < PageSize THEN 0 ELSE Oldest(page)]
  BY DEF ListEvents
<1>2. /\ reader.at = "reading" /\ time' = time /\ created' = created
      /\ Stored' = Stored /\ acknowledged' = acknowledged
  BY DEF ListEvents, Stored
<1>3. /\ reader'.unread = reader.unread
      /\ reader'.due = (reader.due \cap shown) \ page
      /\ reader'.at = IF Cardinality(page) < PageSize THEN "done" ELSE "reading"
      /\ reader'.cursor = IF Cardinality(page) < PageSize THEN 0 ELSE Oldest(page)
      /\ DOMAIN reader' = {"at", "unread", "cursor", "due"}
      /\ reader' = [at |-> reader'.at, unread |-> reader'.unread,
                    cursor |-> reader'.cursor, due |-> reader'.due]
  BY <1>1, <1>2 DEF ListInv
<1>4. Listed(reader.unread)' = shown
  BY <1>2, <1>3 DEF Listed
<1>5. /\ page \subseteq candidates /\ candidates \subseteq EventIds
      /\ \A e \in candidates : created[e] \in Nat
  BY PageFacts DEF ListInv, Listed, Stored
<1>6. \A e \in (reader.due \cap shown) \ candidates : Twin(e)
  BY <1>2 DEF ListInv
<1> HIDE DEF shown, candidates
<1>7. CASE Cardinality(page) < PageSize
  <2>1. page = candidates
    BY <1>7, PageFacts
  <2>2. reader'.at = "done" /\ reader'.cursor = 0
    BY <1>3, <1>7
  <2>3. \A e \in reader'.due : Twin(e)
    BY <1>3, <1>6, <2>1
  <2>4. PagesShowAll'
    BY <1>2, <2>3 DEF PagesShowAll, Twin
  <2>5. reader' \in [at: {"none", "reading", "done"}, unread: BOOLEAN,
                     cursor: Nat, due: SUBSET EventIds]
    BY <1>3, <2>2 DEF ListInv
  <2> QED
    BY <1>2, <1>3, <2>2, <2>4, <2>5 DEF ListInv
<1>8. CASE ~ Cardinality(page) < PageSize
  <2>1. PICK f \in page : Oldest(page) = created[f]
    BY <1>5, <1>8, PageFacts, OldestFacts DEF ListInv
  <2>2. reader'.at = "reading" /\ reader'.cursor = created[f] /\ created[f] \in Nat
    BY <1>3, <1>5, <1>8, <2>1
  <2>3. ASSUME NEW e \in reader'.due
        PROVE  created[e] < created[f] \/ Twin(e)
    <3>1. e \in reader.due \cap shown /\ e \notin page
      BY <1>3
    <3>2. CASE e \in candidates
      <4>1. created[f] >= created[e] /\ f # e /\ f \in EventIds
        BY <1>5, <3>1, <3>2, PageFacts
      <4>2. created[e] \in Nat /\ created[f] \in Nat
        BY <1>5, <3>2
      <4>3. CASE created[f] = created[e]
        BY <4>1, <4>3 DEF Twin
      <4> QED
        BY <4>1, <4>2, <4>3
    <3> QED
      BY <1>6, <3>1, <3>2
  <2>4. \A e \in EventIds : Twin(e)' = Twin(e)
    BY <1>2 DEF Twin
  <2>5. reader' \in [at: {"none", "reading", "done"}, unread: BOOLEAN,
                     cursor: Nat, due: SUBSET EventIds]
    BY <1>3, <2>2 DEF ListInv
  <2>6. PagesShowAll'
    BY <2>2 DEF PagesShowAll
  <2> QED
    BY <1>2, <1>3, <2>2, <2>3, <2>4, <2>5, <2>6 DEF ListInv
<1> QED
  BY <1>7, <1>8

\* What is created, acknowledged or purged meanwhile adds nothing that is due.
LEMMA InboxStep ==
  ASSUME ListInv, InboxAssumption, InboxNext
  PROVE  ListInv'
<1>1. CASE Tock
  BY <1>1 DEF Tock, ListInv, PagesShowAll, Listed, Stored, Twin
<1>2. ASSUME NEW e \in EventIds, CreateEvent(e)
      PROVE  ListInv'
  <2>1. /\ created[e] = 0 /\ time' = time
        /\ \E then \in 1 .. time : created' = [created EXCEPT ![e] = then]
        /\ reader' = reader /\ acknowledged' = acknowledged /\ purged' = purged
    BY <1>2 DEF CreateEvent
  <2>2. created' \in [EventIds -> Nat] /\ \A f \in EventIds \ {e} : created'[f] = created[f]
    BY <2>1 DEF ListInv
  <2>3. e \notin reader.due /\ reader.due \subseteq EventIds
    BY <2>1 DEF ListInv
  <2>4. \A f \in reader.due : created'[f] = created[f] /\ created[f] > 0
    BY <2>2, <2>3 DEF ListInv
  <2>5. \A f \in reader.due : Twin(f) => Twin(f)'
    BY <2>1, <2>2, <2>4 DEF Twin
  <2>6. reader.due \cap Listed(reader.unread)' = reader.due \cap Listed(reader.unread)
    BY <2>1, <2>3, <2>4 DEF Listed, Stored
  <2>7. PagesShowAll'
    BY <2>1, <2>5, <2>6 DEF ListInv, PagesShowAll, Twin
  <2> QED
    BY <2>1, <2>2, <2>4, <2>5, <2>6, <2>7 DEF ListInv
<1>3. ASSUME NEW e \in EventIds, Acknowledge(e)
      PROVE  ListInv'
  <2>1. /\ created' = created /\ time' = time /\ reader' = reader /\ purged' = purged
        /\ e \in Stored /\ acknowledged' = [acknowledged EXCEPT ![e] = time]
    BY <1>3 DEF Acknowledge
  <2>2. Listed(reader.unread)' \subseteq Listed(reader.unread)
    BY <2>1 DEF Listed, Stored, ListInv
  <2> QED
    BY <2>1, <2>2 DEF ListInv, PagesShowAll, Twin
<1>4. CASE ReadUninjected \/ InjectPrompt
  BY <1>4 DEF ReadUninjected, InjectPrompt, ListInv, PagesShowAll, Listed, Stored, Twin
<1>5. CASE PurgeExpired
  <2>1. /\ created' = created /\ time' = time /\ reader' = reader
        /\ acknowledged' = acknowledged /\ purged \subseteq purged'
    BY <1>5 DEF PurgeExpired
  <2>2. Listed(reader.unread)' \subseteq Listed(reader.unread)
    BY <2>1 DEF Listed, Stored
  <2> QED
    BY <2>1, <2>2 DEF ListInv, PagesShowAll, Twin
<1>6. CASE OpenList
  <2>1. PICK unread \in BOOLEAN :
          reader' = [NoReader EXCEPT !.at = "reading", !.unread = unread,
                                     !.due = Listed(unread)]
    BY <1>6 DEF OpenList
  <2>2. /\ reader'.at = "reading" /\ reader'.cursor = 0 /\ reader'.due = Listed(unread)
        /\ reader' \in [at: {"none", "reading", "done"}, unread: BOOLEAN,
                        cursor: Nat, due: SUBSET EventIds]
    BY <2>1 DEF NoReader, Listed, Stored
  <2>3. \A e \in Listed(unread) : created[e] > 0
    BY DEF Listed, Stored
  <2> QED
    BY <1>6, <2>2, <2>3 DEF OpenList, ListInv, PagesShowAll
<1> QED
  BY <1>1, <1>2, <1>3, <1>4, <1>5, <1>6, PageStep DEF InboxNext

\* A reader of the pages sees all that stays on its list, for any events, pages
\* and ages, but for events of one time that a page boundary parts.
THEOREM NothingIsSkipped == Spec => []PagesShowAll
<1>1. Init => ListInv
  BY DEF Init, InboxInit, NoReader, ListInv, PagesShowAll
<1>2. ListInv /\ [Next]_<<auth, memory, listing, pool, worker, service>> => ListInv'
  <2> SUFFICES ASSUME ListInv, [Next]_<<auth, memory, listing, pool, worker, service>>
               PROVE  ListInv'
    OBVIOUS
  <2>1. InboxNext \/ UNCHANGED listing
    BY DEF Next
  <2>2. CASE InboxNext
    BY <2>2, InboxStep, InboxAssumption
  <2>3. CASE UNCHANGED listing
    BY <2>3 DEF listing, ListInv, PagesShowAll, Listed, Stored, Twin
  <2> QED
    BY <2>1, <2>2, <2>3
<1>3. ListInv => PagesShowAll
  BY DEF ListInv
<1> QED
  BY <1>1, <1>2, <1>3, PTL DEF Spec
=============================================================================
