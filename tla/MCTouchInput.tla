---------------------------- MODULE MCTouchInput ----------------------------
(***************************************************************************)
(* Up to four fingers, of which two have no context; a task that was begun *)
(* may wait while the next one is scheduled.                               *)
(***************************************************************************)
EXTENDS TouchInput
=============================================================================
