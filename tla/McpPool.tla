------------------------------- MODULE McpPool -------------------------------
(***************************************************************************)
(* Calls of the filesystem server (app/mcp_pool.py,                        *)
(* hello_agents/tools/mcp/client.py and bridge.py).  The connection is     *)
(* opened once, when the application starts.  A thread hands its call to   *)
(* the event loop and waits for the answer up to a timeout, which does not *)
(* withdraw the call.                                                      *)
(*                                                                         *)
(* The server is external.  Of its tools, move_file is here: it refuses a  *)
(* file that is gone or a destination that exists.                         *)
(***************************************************************************)
EXTENDS Naturals, FiniteSets

CONSTANT Files  \* the files of a download

VARIABLES
    session,  \* McpConnection._session is set
    server,   \* the process of the server runs
    place,    \* where each file is, "download" or "library"
    sent,     \* calls the server has received and not handled
    answers   \* calls it has handled, and how

pool == <<session, server, place, sent, answers>>

\* connect: what was opened is closed when it fails.
Opened == session \in BOOLEAN /\ server = session

\* init_mcp_pool: without a server the application starts all the same.
PoolInit ==
    /\ Opened
    /\ place = [f \in Files |-> "download"]
    /\ sent = {}
    /\ answers = {}

\* call_tool_sync.
Send(q) ==
    /\ sent' = IF session /\ server THEN sent \cup {q} ELSE sent
    /\ UNCHANGED <<session, server, place, answers>>

Serve(q) ==
    /\ q \in sent /\ server
    /\ sent' = sent \ {q}
    /\ \/ /\ place[q.file] = "download"
          /\ place' = [place EXCEPT ![q.file] = "library"]
          /\ answers' = answers \cup {[call |-> q, says |-> "moved"]}
       \/ /\ UNCHANGED place
          /\ answers' = answers \cup {[call |-> q, says |-> "refused"]}
    /\ UNCHANGED <<session, server>>

\* Nothing connects again.
ServerEnds ==
    /\ server
    /\ server' = FALSE
    /\ sent' = {}
    /\ UNCHANGED <<session, place, answers>>

\* disconnect: the process is reaped, with the calls it has not handled.
Disconnected == session' = FALSE /\ server' = FALSE /\ sent' = {}

\* stop_all, while worker threads may still be running.
StopAll ==
    /\ session
    /\ Disconnected
    /\ UNCHANGED <<place, answers>>

\* McpBridgeTool.run: an answer is a success, whatever its isError says; an
\* error is a call without one, for lack of a session, a connection or time.
Succeeds(says) == says \in {"moved", "refused"}
=============================================================================
