------------------------------ MODULE Services ------------------------------
(***************************************************************************)
(* Four services that share no state with one another: a behaviour is one  *)
(* of ExperienceAuth, of MemberMemory, of EventInbox or of OrganizeWorker, *)
(* which uses McpPool.                                                     *)
(***************************************************************************)
EXTENDS ExperienceAuth, MemberMemory, EventInbox, OrganizeWorker, TLC

VARIABLE service

Init ==
    /\ AuthInit /\ MemoryInit /\ InboxInit /\ WorkerInit
    /\ service \in {"auth", "memory", "events", "organize"}
    /\ PoolInit /\ (service # "organize" => session)

Next ==
    /\ UNCHANGED service
    /\ \/ service = "auth" /\ AuthNext
            /\ UNCHANGED <<memory, listing, pool, worker>>
       \/ service = "memory" /\ MemoryNext
            /\ UNCHANGED <<auth, listing, pool, worker>>
       \/ service = "events" /\ InboxNext
            /\ UNCHANGED <<auth, memory, pool, worker>>
       \/ service = "organize" /\ WorkerNext
            /\ UNCHANGED <<auth, memory, listing>>

\* No definition tells notes, or requests, from one another.
Symmetric == Permutations(Notes) \cup Permutations(Requests)

Spec == Init /\ [][Next]_<<auth, memory, listing, pool, worker, service>>
=============================================================================
