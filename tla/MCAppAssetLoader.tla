--------------------------- MODULE MCAppAssetLoader ---------------------------
(***************************************************************************)
(* Two views that are bound to two applications in turn, one worker of     *)
(* each executor, and queues that hold one task.                           *)
(***************************************************************************)
EXTENDS AppAssetLoader
=============================================================================
