--------------------------- MODULE TaskLifecycle ----------------------------
(***************************************************************************)
(* What the runtime promises about the status of every task, whoever calls *)
(* the store and in whatever order: a row is born initializing or queued,  *)
(* moves only along the legal transitions, and disappears only once it is  *)
(* terminal.  One step may move several tasks (a claim, a purge).          *)
(***************************************************************************)
EXTENDS TaskStatus

CONSTANT Tasks
VARIABLE status

Born(old, new) == old = "absent" /\ new \in {"initializing", "queued"}

Purged(old, new) == old \in TERMINAL_STATUSES /\ new = "absent"

TaskStep(old, new) ==
  \/ new = old
  \/ Born(old, new)
  \/ CanTransition(old, new)
  \/ Purged(old, new)

Init == status = [t \in Tasks |-> "absent"]

Next == /\ status' \in [Tasks -> Statuses]
        /\ \A t \in Tasks : TaskStep(status[t], status'[t])

Spec == Init /\ [][Next]_status

=============================================================================
