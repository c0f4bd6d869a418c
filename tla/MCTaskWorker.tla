---------------------------- MODULE MCTaskWorker ----------------------------
(***************************************************************************)
(* Instances of TaskWorker for TLC.  The service runs with four            *)
(* download_watch handlers, one organize_download handler and four         *)
(* handlers in all; the instances keep the shapes "a kind is serial" and   *)
(* "the kinds together want more than the global limit".                   *)
(***************************************************************************)
EXTENDS TaskWorker, TLC

OnePerKind == [k \in Kinds |-> 1]

TwoWatchers == [k \in Kinds |-> IF k = "download_watch" THEN 2 ELSE 1]

TaskSymmetry == Permutations(Tasks)

=============================================================================
