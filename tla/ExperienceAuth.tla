--------------------------- MODULE ExperienceAuth ---------------------------
(***************************************************************************)
(* The access code of the application (app/services/experience_auth.py,    *)
(* app/api/auth_routes.py): failed                                         *)
(* logins are counted per client, and a login gives a token that lives an  *)
(* hour in memory or, on the local network, for months in a file.          *)
(*                                                                         *)
(* Files are written to a temporary file and renamed; a write may fail.    *)
(* The routes run on the event loop one after the other.                   *)
(***************************************************************************)
EXTENDS Naturals, Sequences, SequencesExt, FiniteSetsExt, Positions

CONSTANTS
    Clients,        \* resolved client addresses
    LocalClients,   \* those in the local networks
    Tokens,         \* session tokens
    MaxFailures,    \* MAX_FAILURES_PER_WINDOW
    FailureWindow,  \* FAILURE_WINDOW_SECONDS
    SessionTtl,     \* SESSION_TTL_SECONDS
    LocalTtl,       \* local_session_days
    MaxTime         \* bound of the clock

ASSUME AuthAssumption ==
    /\ LocalClients \subseteq Clients
    /\ {MaxFailures, FailureWindow, SessionTtl, LocalTtl}
         \subseteq Nat \ {0}
    /\ MaxTime \in Nat

VARIABLES
    now,         \* the clock
    failures,    \* _failures: times of failed logins
    sessions,    \* _sessions: expiry of tokens, 0 without one
    persistent,  \* _persistent_sessions
    stored,      \* what the file of the store holds
    issued,      \* tokens a visitor has been given
    loggedOut,   \* tokens whose logout found a session and saved
    tried        \* times of compared and refused codes, since the last success

auth == <<now, failures, sessions, persistent, stored, issued, loggedOut,
          tried>>

NoSession == [t \in Tokens |-> 0]

AuthInit ==
    /\ now = 1
    /\ failures = [c \in Clients |-> <<>>]
    /\ sessions = NoSession
    /\ persistent = NoSession
    /\ stored = NoSession
    /\ issued = {}
    /\ loggedOut = {}
    /\ tried = [c \in Clients |-> <<>>]

Tick ==
    /\ now < MaxTime
    /\ now' = now + 1
    /\ UNCHANGED <<failures, sessions, persistent, stored, issued,
                   loggedOut, tried>>

-----------------------------------------------------------------------------

\* Fault: half the window is forgotten.
ActiveHalf(c) ==
    At(failures[c], {i \in DOMAIN failures[c] :
                       failures[c][i] + FailureWindow \div 2 > now})

\* _active_failures: the failures of the window.
Active(c) ==
    At(failures[c], {i \in DOMAIN failures[c] : failures[c][i] + FailureWindow > now})

Unexpired(map) == [t \in Tokens |-> IF map[t] > now THEN map[t] ELSE 0]

\* token_urlsafe never gives a token twice.
Fresh(t) == t \notin issued /\ persistent[t] + stored[t] = 0

LimitedLogin(c) ==
    /\ Len(Active(c)) >= MaxFailures
    /\ failures' = [failures EXCEPT ![c] = Active(c)]
    /\ UNCHANGED <<now, sessions, persistent, stored, issued, loggedOut,
                   tried>>

WrongCode(c) ==
    /\ Len(Active(c)) < MaxFailures
    /\ failures' = [failures EXCEPT ![c] = Append(Active(c), now)]
    /\ tried' = [tried EXCEPT ![c] = Append(@, now)]
    /\ UNCHANGED <<now, sessions, persistent, stored, issued, loggedOut>>

\* login: the counter is reset and expired sessions are pruned first, which
\* saves if the file is concerned.  A local session is saved; when a save
\* fails, the memory has changed and the visitor gets no token.
RightCode(c, t) ==
    LET local == c \in LocalClients
        long == [Unexpired(persistent) EXCEPT ![t] = now + LocalTtl]
        prunes == Unexpired(persistent) # persistent
    IN  /\ Len(Active(c)) < MaxFailures
        /\ Fresh(t)
        /\ failures' = [failures EXCEPT ![c] = <<>>]
        /\ tried' = [tried EXCEPT ![c] = <<>>]
        /\ \/ /\ issued' = issued \cup {t}
              /\ IF local
                 THEN /\ persistent' = long /\ stored' = long
                      /\ sessions' = Unexpired(sessions)
                 ELSE /\ persistent' = Unexpired(persistent)
                      /\ stored' = IF prunes THEN persistent' ELSE stored
                      /\ sessions' = [Unexpired(sessions) EXCEPT ![t] = now + SessionTtl]
           \/ /\ prunes \/ local
              /\ sessions' = Unexpired(sessions)
              /\ persistent' \in {p \in {Unexpired(persistent), long} :
                                    p = long => local}
              /\ stored' = IF prunes /\ persistent' = long
                           THEN Unexpired(persistent) ELSE stored
              /\ UNCHANGED issued
        /\ UNCHANGED <<now, loggedOut>>

\* The middleware lets a request pass with such a token; one of the file is
\* good in the local network only.
Admitted(c, t) ==
    \/ sessions[t] > now
    \/ sessions[t] = 0 /\ persistent[t] > now /\ c \in LocalClients

\* validate, for any request: an expired session is dropped when it is shown.
Validate(t) ==
    /\ t \in issued
    /\ \/ /\ sessions[t] \in 1 .. now
          /\ sessions' = [sessions EXCEPT ![t] = 0]
          /\ UNCHANGED <<persistent, stored>>
       \/ /\ sessions[t] = 0 /\ persistent[t] \in 1 .. now
          /\ persistent' = [persistent EXCEPT ![t] = 0]
          /\ stored' \in {persistent', stored}
          /\ UNCHANGED sessions
    /\ UNCHANGED <<now, failures, issued, loggedOut, tried>>

\* Fault: the file is left for the next login to rewrite.
LogoutUnsaved(t) == stored

LogoutStored(t) == IF persistent[t] = 0 THEN stored
                   ELSE [persistent EXCEPT ![t] = 0]

\* logout: a save that fails is an error, and the session is gone only from
\* memory.  Another logout finds nothing to remove, and saves nothing.
Logout(t) ==
    /\ t \in issued
    /\ sessions' = [sessions EXCEPT ![t] = 0]
    /\ persistent' = [persistent EXCEPT ![t] = 0]
    /\ \/ /\ stored' = LogoutStored(t)
          /\ loggedOut' = IF sessions[t] + persistent[t] > 0
                          THEN loggedOut \cup {t} ELSE loggedOut
       \/ /\ persistent[t] > 0
          /\ UNCHANGED <<stored, loggedOut>>
    /\ UNCHANGED <<now, failures, issued, tried>>

\* A new process knows what the file holds.
RestartAuth ==
    /\ failures' = [c \in Clients |-> <<>>]
    /\ tried' = [c \in Clients |-> <<>>]
    /\ sessions' = NoSession
    /\ persistent' = stored
    /\ UNCHANGED <<now, stored, issued, loggedOut>>

AuthNext ==
    \/ Tick
    \/ \E c \in Clients :
         \/ LimitedLogin(c) \/ WrongCode(c)
         \/ \E t \in Tokens : RightCode(c, t)
    \/ \E t \in Tokens : Validate(t) \/ Logout(t)
    \/ RestartAuth

-----------------------------------------------------------------------------
(* Properties.                                                             *)

\* Since a client last succeeded and the process last started, which both let it
\* begin at zero, it has no more than MaxFailures codes refused in any window,
\* whenever failures leave the list and new ones come (_active_failures, login).
FailuresAreLimited ==
    \A c \in Clients : \A i \in DOMAIN tried[c] :
        Cardinality({j \in DOMAIN tried[c] :
            tried[c][j] \in tried[c][i] .. tried[c][i] + FailureWindow - 1})
        <= MaxFailures

\* A token that was logged out, and saved, is never admitted again, not through
\* a later save and not through a restart (logout, validate,
\* PersistentExperienceSessionStore).
LoggedOutStaysOut == \A t \in loggedOut, c \in Clients : ~ Admitted(c, t)
=============================================================================
