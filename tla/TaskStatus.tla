----------------------------- MODULE TaskStatus -----------------------------
(***************************************************************************)
(* The lifecycle states of a RuntimeTask and the table of legal            *)
(* transitions, app/domain/runtime_tasks.py.  The status "absent" stands   *)
(* for a task id with no row in the database.                              *)
(***************************************************************************)

\* Statuses in which a row holds its exclusive key (the partial unique index).
ActiveStatuses == {"initializing", "queued", "running", "waiting"}

TERMINAL_STATUSES == {"succeeded", "failed", "cancelled"}

Statuses == ActiveStatuses \cup TERMINAL_STATUSES \cup {"absent"}

LEGAL_TRANSITIONS ==
  {<<"initializing", "queued">>, <<"initializing", "failed">>,
   <<"initializing", "cancelled">>,
   <<"queued", "running">>, <<"queued", "cancelled">>,
   <<"waiting", "running">>, <<"waiting", "cancelled">>,
   <<"running", "waiting">>, <<"running", "succeeded">>,
   <<"running", "failed">>, <<"running", "cancelled">>}

\* validate_status_transition: the move is accepted; otherwise it raises.
CanTransition(current, target) == <<current, target>> \in LEGAL_TRANSITIONS

=============================================================================
