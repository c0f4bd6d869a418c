---------------------------- MODULE MemberMemory ----------------------------
(***************************************************************************)
(* What the assistant remembers of its user                                *)
(* (app/services/markdown_memory_store.py, app/services/curator.py,        *)
(* app/api/memory_routes.py, app/tools/remember_this.py): notes are        *)
(* appended to an inbox; a curator suggests what to do with each of them;  *)
(* the decisions of the user move them into documents and rewrite the      *)
(* inbox.                                                                  *)
(*                                                                         *)
(* Every request has a store of its own, so that the lock of a store keeps *)
(* nobody out.  A file is rewritten in place (Path.write_text): it is      *)
(* emptied, and written a moment later; whoever looks in between finds     *)
(* nothing, and if the process ends there, nothing is what stays.  A write *)
(* that the system carries out in part is left out.  The wording of a      *)
(* note, its section and its date are left out too: a line that is         *)
(* modified counts as deleted by the user.  A note is one entry of the     *)
(* inbox: none holds a line of dashes, which would split it in two.        *)
(***************************************************************************)
EXTENDS Naturals, Sequences, SequencesExt, FiniteSets, Positions

CONSTANTS
    Notes,     \* bound: notes ever remembered
    Requests,  \* curation requests that may run side by side
    Documents, \* of kind_map
    None

ASSUME DocumentsAssumption == Documents \subseteq {"user_profile", "knowledge"}

VARIABLES
    inbox,     \* memory_inbox.md
    document,  \* per document, its lines
    request,   \* per request, where it stands
    remembered, \* notes the assistant was told to remember
    dismissed, \* notes discarded or deleted, or kept without any text
    exposed    \* notes a request missed, or had in hand when it was cut off

memory == <<inbox, document, request, remembered, dismissed, exposed>>

Idle == [at |-> "idle", seen |-> <<>>, undecided |-> {}, deletion |-> {},
         read |-> <<>>, next |-> 0, file |-> None, copy |-> {}]

MemoryInit ==
    /\ inbox = <<>>
    /\ document = [f \in Documents |-> {}]
    /\ request = [r \in Requests |-> Idle]
    /\ remembered = {} /\ dismissed = {} /\ exposed = {}

Applying(r) == request[r].at \in {"applying", "read", "writing", "rewriting"}

\* append_to_inbox.
Remember(n) ==
    /\ n \notin remembered
    /\ remembered' = remembered \cup {n}
    /\ inbox' = Append(inbox, n)
    /\ UNCHANGED <<document, request, dismissed, exposed>>

\* The page shows the entries, with what run_curation suggests; both are read at
\* about the same time.
Curate(r) ==
    /\ ~ Applying(r)
    /\ inbox # <<>>
    /\ request' = [request EXCEPT ![r] = [Idle EXCEPT !.at = "page", !.seen = inbox]]
    /\ UNCHANGED <<inbox, document, remembered, dismissed, exposed>>

-----------------------------------------------------------------------------
(* apply_curation.                                                         *)

\* The user decides on entries of the page, all but those undecided, and on a
\* line to modify or delete (one of them).  The request goes on if the inbox has
\* as many entries as the page, whichever they are, and the line is there.
StartApply(r) ==
    LET q == request[r]
    IN  /\ q.at = "page"
        /\ Len(inbox) = Len(q.seen)
        /\ \E undecided \in SUBSET DOMAIN inbox,
              deletion \in {{}} \cup {{d} : d \in Documents \X Notes} :
             /\ \A d \in deletion : d[2] \in document[d[1]]
             /\ request' = [request EXCEPT ![r] =
                  [q EXCEPT !.at = "applying", !.undecided = undecided,
                            !.deletion = deletion, !.read = inbox, !.next = 1]]
        /\ exposed' = IF inbox = q.seen THEN exposed
                      ELSE exposed \cup ToSet(inbox) \cup ToSet(q.seen)
        /\ UNCHANGED <<inbox, document, remembered, dismissed>>

\* The entries come first, the deletion last.
OnEntry(r) == request[r].next \in DOMAIN request[r].seen \ request[r].undecided

Deletes(r) == IF request[r].next = Len(request[r].seen) + 1
              THEN request[r].deletion ELSE {}

Removed(r) == {d[2] : d \in Deletes(r)}

\* append_to_section, append_user_profile_entry or delete_from_section reads its
\* file; a line that is not there is not deleted.
ReadDocument(r) ==
    LET q == request[r]
    IN  /\ q.at = "applying"
        /\ \E f \in IF OnEntry(r) THEN Documents ELSE {d[1] : d \in Deletes(r)} :
             request' = [request EXCEPT ![r] =
                IF Removed(r) \subseteq document[f]
                THEN [q EXCEPT !.at = "read", !.file = f, !.copy = document[f]]
                ELSE [q EXCEPT !.next = q.next + 1]]
        /\ UNCHANGED <<inbox, document, remembered, dismissed, exposed>>

\* Path.write_text opens the file, which empties it ...
EmptyDocument(r) ==
    LET q == request[r]
    IN  /\ q.at = "read"
        /\ document' = [document EXCEPT ![q.file] = {}]
        /\ exposed' = exposed \cup (document[q.file] \ q.copy)
        /\ dismissed' = dismissed \cup Removed(r)
        /\ request' = [request EXCEPT ![r] = [q EXCEPT !.at = "writing"]]
        /\ UNCHANGED <<inbox, remembered>>

\* ... and writes it, over what another request has written since, of which the
\* end may be left.
WriteDocument(r) ==
    LET q == request[r]
        written == (q.copy \ Removed(r)) \cup (IF OnEntry(r) THEN {q.seen[q.next]} ELSE {})
    IN  /\ q.at = "writing"
        /\ \E left \in SUBSET document[q.file] :
             /\ document' = [document EXCEPT ![q.file] = written \cup left]
             /\ exposed' = exposed \cup (document[q.file] \ (written \cup left))
        /\ request' = [request EXCEPT ![r] =
              [q EXCEPT !.at = "applying", !.next = q.next + 1, !.file = None, !.copy = {}]]
        /\ UNCHANGED <<inbox, remembered, dismissed>>

\* An entry to be discarded, and one to be kept with a text that the user has
\* emptied, is dropped; an undecided one, or no deletion, is passed over.
Pass(r) ==
    LET q == request[r]
    IN  /\ q.at = "applying" /\ q.next <= Len(q.seen) + 1
        /\ Deletes(r) = {}
        /\ dismissed' = dismissed \cup (IF OnEntry(r) THEN {q.seen[q.next]} ELSE {})
        /\ request' = [request EXCEPT ![r] = [q EXCEPT !.next = q.next + 1]]
        /\ UNCHANGED <<inbox, document, remembered, exposed>>

\* Fault: indices are taken to start at one.
RemainingShifted(r) ==
    LET q == request[r]
    IN  At(q.read, {k \in DOMAIN q.read : k + 1 \in q.undecided})

\* The entries that were read and not decided on, by position.
Remaining(r) == At(request[r].read, request[r].undecided)

\* The inbox is emptied, with what was appended since it was read; if no entry
\* remains, that is all.
EmptyInbox(r) ==
    LET q == request[r]
    IN  /\ q.at = "applying" /\ q.next = Len(q.seen) + 2
        /\ inbox' = <<>>
        /\ exposed' = exposed \cup (ToSet(inbox) \ ToSet(q.read))
        /\ request' = [request EXCEPT ![r] =
              IF Remaining(r) = <<>> THEN Idle ELSE [q EXCEPT !.at = "rewriting"]]
        /\ UNCHANGED <<document, remembered, dismissed>>

\* What remains is written over what was appended since.  Entries are taken to
\* be of one length: those further on are left, but the first may be torn.
RewriteInbox(r) ==
    /\ request[r].at = "rewriting"
    /\ \E torn \in {0, 1} :
         inbox' = Remaining(r) \o At(inbox, Len(Remaining(r)) + torn + 1 .. Len(inbox))
    /\ exposed' = exposed \cup (ToSet(inbox) \ (ToSet(request[r].read) \cup ToSet(inbox')))
    /\ request' = [request EXCEPT ![r] = Idle]
    /\ UNCHANGED <<document, remembered, dismissed>>

\* What is in no file while a request is between emptying one and writing it.
InHand(r) ==
    CASE request[r].at = "writing" -> request[r].copy
      [] request[r].at = "rewriting" -> ToSet(Remaining(r))
      [] OTHER -> {}

\* An error of the file system, or the end of the process (which cuts off every
\* request, in any order); the page stays, and may send the same decisions again
\* or others.
CutOff(r) ==
    /\ Applying(r)
    /\ exposed' = exposed \cup InHand(r)
    /\ request' = [request EXCEPT ![r] =
          [Idle EXCEPT !.at = "page", !.seen = request[r].seen]]
    /\ UNCHANGED <<inbox, document, remembered, dismissed>>

MemoryNext ==
    \/ \E n \in Notes : Remember(n)
    \/ \E r \in Requests :
         \/ Curate(r) \/ StartApply(r) \/ Pass(r)
         \/ ReadDocument(r) \/ EmptyDocument(r) \/ WriteDocument(r)
         \/ EmptyInbox(r) \/ RewriteInbox(r) \/ CutOff(r)

-----------------------------------------------------------------------------

\* Whatever requests overlap or are cut off, and whichever decisions are sent
\* again, a note is in the inbox or a document, in the hand of a request that has
\* emptied one of them, or was dropped by a decision on it, unless it is exposed:
\* an inbox of another content but the same length was decided on, the note came
\* into a file between a request's reading and its writing, or a request was cut
\* off with the note in hand (apply_curation).
NotesAreKept ==
    \A n \in remembered \ exposed :
        \/ n \in ToSet(inbox) \cup dismissed
        \/ \E f \in Documents : n \in document[f]
        \/ \E r \in Requests : n \in InHand(r)
=============================================================================
