----------------------------- MODULE EventInbox -----------------------------
(***************************************************************************)
(* The announcements of background tasks as their readers see them         *)
(* (the events of app/runtime/store.py, the task-events routes of          *)
(* app/api/task_routes.py): they are listed newest first in pages, told to *)
(* the assistant, acknowledged by the user, and purged.                    *)
(***************************************************************************)
EXTENDS Naturals, FiniteSets

CONSTANTS
    EventIds,
    PageSize,     \* limit
    ConsumedFor,  \* consumed_purge_seconds
    MaxAge,       \* max_age_seconds
    LastTime      \* bound of the clock

ASSUME InboxAssumption == PageSize \in Nat \ {0}

VARIABLES
    time,
    created,      \* created_at of an event, 0 before its creation
    acknowledged, \* acknowledged_at, 0 for NULL
    injected,     \* injected_at, 0 for NULL
    purged,       \* events that have been deleted
    prompt,       \* events in the prompt of a turn that has not ended
    reader        \* a client that goes through the list

listing == <<time, created, acknowledged, injected, purged, prompt, reader>>

\* due: what was on its list when it began and has not been shown.
NoReader == [at |-> "none", unread |-> FALSE, cursor |-> 0, due |-> {}]

InboxInit ==
    /\ time = 1
    /\ created = [e \in EventIds |-> 0]
    /\ acknowledged = created /\ injected = created
    /\ purged = {} /\ prompt = {}
    /\ reader = NoReader

Stored == {e \in EventIds : created[e] > 0} \ purged

Tock ==
    /\ time < LastTime
    /\ time' = time + 1
    /\ UNCHANGED <<created, acknowledged, injected, purged, prompt, reader>>

\* The worker reads the time before it runs a task and announces the end of it
\* with that time, so that an event may appear below others.
CreateEvent(e) ==
    /\ created[e] = 0
    /\ \E then \in 1 .. time : created' = [created EXCEPT ![e] = then]
    /\ UNCHANGED <<time, acknowledged, injected, purged, prompt, reader>>

\* acknowledge_event: of an event that is not there, an error.
Acknowledge(e) ==
    /\ e \in Stored
    /\ acknowledged' = [acknowledged EXCEPT ![e] = time]
    /\ UNCHANGED <<time, created, injected, purged, prompt, reader>>

\* get_events_for_session.
ReadUninjected ==
    /\ prompt = {}
    /\ prompt' = {e \in Stored : injected[e] = 0}
    /\ UNCHANGED <<time, created, acknowledged, injected, purged, reader>>

\* The turn ends, well or not.
InjectPrompt ==
    /\ prompt # {}
    /\ prompt' = {}
    /\ \/ injected' = [e \in EventIds |->
                          IF e \in prompt \cap Stored THEN time ELSE injected[e]]
       \/ UNCHANGED injected
    /\ UNCHANGED <<time, created, acknowledged, purged, reader>>

Consumed(e) == /\ acknowledged[e] > 0 /\ acknowledged[e] + ConsumedFor < time
               /\ injected[e] > 0 /\ injected[e] + ConsumedFor < time

PurgeExpired ==
    /\ purged' = purged \cup {e \in Stored : Consumed(e) \/ created[e] + MaxAge < time}
    /\ purged' # purged
    /\ UNCHANGED <<time, created, acknowledged, injected, prompt, reader>>

-----------------------------------------------------------------------------

Listed(unread) == {e \in Stored : unread => acknowledged[e] = 0}

\* Fault: oldest first.
PagesAscending(candidates) ==
    {page \in SUBSET candidates :
        /\ Cardinality(page) <= PageSize
        /\ Cardinality(page) < PageSize => page = candidates
        /\ \A e \in page, f \in candidates \ page : created[e] <= created[f]}

\* The newest, as many as fit; which, of events of the same time, is open.
Pages(candidates) ==
    {page \in SUBSET candidates :
        /\ Cardinality(page) <= PageSize
        /\ Cardinality(page) < PageSize => page = candidates
        /\ \A e \in page, f \in candidates \ page : created[e] >= created[f]}

Oldest(page) == CHOOSE c \in {created[e] : e \in page} :
                    \A e \in page : c <= created[e]

OpenList ==
    /\ reader.at # "reading"
    /\ \E unread \in BOOLEAN :
         reader' = [NoReader EXCEPT !.at = "reading", !.unread = unread,
                                    !.due = Listed(unread)]
    /\ UNCHANGED <<time, created, acknowledged, injected, purged, prompt>>

\* list_events, from the created_at of the last event of the page before.
ListEvents ==
    /\ reader.at = "reading"
    /\ \E page \in Pages({e \in Listed(reader.unread) :
                             reader.cursor > 0 => created[e] < reader.cursor}) :
         reader' =
            [reader EXCEPT
                !.due = (@ \cap Listed(reader.unread)) \ page,
                !.at = IF Cardinality(page) < PageSize THEN "done" ELSE @,
                !.cursor = IF Cardinality(page) < PageSize THEN 0 ELSE Oldest(page)]
    /\ UNCHANGED <<time, created, acknowledged, injected, purged, prompt>>

InboxNext ==
    \/ Tock
    \/ \E e \in EventIds : CreateEvent(e) \/ Acknowledge(e)
    \/ ReadUninjected \/ InjectPrompt \/ PurgeExpired
    \/ OpenList \/ ListEvents

-----------------------------------------------------------------------------

\* Whatever is announced, acknowledged or purged while a client goes through
\* the pages, it has seen every event that was on its list all the time and
\* whose created_at no other event has (list_events, the cursor of the route).
PagesShowAll ==
    reader.at = "done" =>
        \A e \in reader.due \cap Listed(reader.unread) :
            \E f \in EventIds \ {e} : created[f] = created[e]
=============================================================================
